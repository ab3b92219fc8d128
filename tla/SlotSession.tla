---------------------------- MODULE SlotSession ----------------------------
(***************************************************************************)
(* One device's slot as its app sees it, from Connect to Disconnect         *)
(* (apps/desktop-windows/src/lib/device-slot-session.ts, which every app    *)
(* shares): the claim before dialling, the one through the tunnel, the      *)
(* renewals, the standing check of a reconnect, the release and its         *)
(* repetitions, and the teardown a verdict of the server asks for.  What     *)
(* the server does with a request is DeviceSlots; here it is what this       *)
(* device can tell of it: the handle its slot is under, if it has one.       *)
(*                                                                         *)
(* The app is one thread; a request of it is answered late, never, or after  *)
(* the app gave up waiting, and may reach the server long after that.  A     *)
(* request belongs to an epoch of the session, and cur says it is this one.  *)
(*                                                                         *)
(* Races names what the schedules of this instance may contain:              *)
(*   "overtake"  the server takes two claims or renewals of this device in   *)
(*               another order than they were sent                           *)
(*   "late"      a renewal is served while a release that names the handle   *)
(*               it keeps is still on its way                                *)
(*   "hasty"     the customer stops a connect in the half second it gives a  *)
(*               release to go first, before its claim is sent               *)
(***************************************************************************)
EXTENDS Integers, Sequences, FiniteSets

CONSTANTS Handles,   \* handles the server grants; reused once forgotten (a bound)
          MaxCalls,  \* requests under way at once (a bound)
          Races      \* see above

ASSUME HandlesAssumption == Handles \subseteq Nat \ {0} /\ IsFiniteSet(Handles)
ASSUME CallsAssumption == MaxCalls \in Nat
ASSUME RacesAssumption == Races \subseteq {"overtake", "late", "hasty"}

VARIABLES
  target,     \* subscriptionId is set
  standing,   \* where this device stands
  owes,       \* pendingTakeover names devices
  retryClaim, \* an unanswered claim is worth repeating
  lastGrant,  \* the handle of the latest counted grant
  confirmed,  \* how long ago the server last confirmed the slot
  again,      \* when giveBack means to send its release once more
  watch,      \* the handles named so far by answers giveBack waits for
  calls,      \* requests under way, in the order they were sent
  pass,       \* how far a connect or a reconnect has come
  auto,       \* that is a reconnect nobody pressed for
  tunnel,     \* "leaving": the customer's own teardown is under way;
              \* "stopping": one of a pass that had nothing up yet
  owed,       \* slotTeardown.state()
  attempt,    \* slotTeardown.running(), not forgotten
  slotLost,   \* slotLostRef: the device limit ended the last session
  slot,       \* the handle of this device's slot, or None   (server)
  doubt       \* history: since all was quiet, an answer was missing or an error,
              \* or a connect began while an answer of an earlier one was out

memory == <<target, standing, owes, retryClaim, lastGrant, confirmed>>
giving == <<again, watch>>
screen == <<pass, auto, tunnel, owed, attempt, slotLost>>
vars == <<memory, giving, calls, screen, slot, doubt>>

None == 0
Known == 0     \* in watch: whatever lastGrant is by then

Asks == {"claim", "renew"}

Call(op, role, names, chosen) ==
  [op |-> op, role |-> role, names |-> names, chosen |-> chosen, cur |-> TRUE,
   watched |-> FALSE, waits |-> TRUE, answer |-> "none", grant |-> None]

Release(role, names) == Call("release", role, names, FALSE)

Without(i) == SubSeq(calls, 1, i - 1) \o SubSeq(calls, i + 1, Len(calls))

Room == Len(calls) < MaxCalls

IsAsk(i) == calls[i].op \in Asks

\* The app waits for an answer of one of these.
Waiting(roles) == \E i \in DOMAIN calls : calls[i].waits /\ calls[i].role \in roles

\* A new epoch: what is under way no longer counts, nor what it asked for.
Orphaned ==
  [i \in DOMAIN calls |-> [calls[i] EXCEPT !.cur = FALSE, !.watched = FALSE,
                                           !.chosen = FALSE]]

\* All is quiet: what was missing before no longer matters.
Quiet == calls = <<>> /\ slot = None

NewEpoch(sent) ==
  /\ calls' = Orphaned \o sent /\ again' = "no" /\ watch' = {}
  /\ doubt' = ((doubt \/ \E i \in DOMAIN calls : IsAsk(i) /\ calls[i].waits) /\ ~Quiet)

Rests == pass' = "rest" /\ auto' = FALSE

Leaving == tunnel \in {"leaving", "stopping"}

Init ==
  /\ target = FALSE /\ standing = "none" /\ owes = FALSE /\ retryClaim = TRUE
  /\ lastGrant = None /\ confirmed = "never" /\ again = "no" /\ watch = {}
  /\ calls = <<>> /\ pass = "rest" /\ auto = FALSE /\ tunnel = "down"
  /\ owed = "none" /\ attempt = FALSE /\ slotLost = FALSE
  /\ slot = None /\ doubt = FALSE

-----------------------------------------------------------------------------
(***************************************************************************)
(* Giving the slot back.                                                   *)
(***************************************************************************)
HoldsSomething == standing \in {"held", "unclaimed"}

\* Mutant: answers still under way are left to themselves.
WatchedNone == Orphaned

\* Claims and renewals still out are watched: they may leave a slot behind.
Watched ==
  [i \in DOMAIN calls |->
     [calls[i] EXCEPT !.cur = FALSE, !.watched = IsAsk(i) /\ calls[i].waits,
                      !.chosen = FALSE]]

\* giveBack.  torn: in front of a teardown, whose end it waits for.
GiveBack(torn) ==
  LET sends == HoldsSomething /\ lastGrant # None IN
  /\ sends => Room
  /\ calls' = Watched \o (IF sends
                          THEN <<Release(IF torn THEN "torn" ELSE "first", {lastGrant})>>
                          ELSE <<>>)
  /\ again' = IF sends /\ torn THEN "teardown" ELSE "no"
  /\ watch' = {}
  /\ standing' = "none" /\ target' = FALSE /\ owes' = FALSE /\ confirmed' = "never"
  /\ UNCHANGED <<retryClaim, lastGrant>>

\* Nothing to give back, and nothing to start over.
GiveBackIfAny(torn) ==
  IF target THEN GiveBack(torn) ELSE UNCHANGED <<memory, giving, calls>>

\* setAside: the slot goes, the question stays.
SetAside ==
  /\ target /\ tunnel = "down" /\ pass = "rest" /\ owed = "none" /\ ~slotLost
  /\ standing \in {"held", "unclaimed"}
  /\ LET sends == lastGrant # None IN
     /\ sends => Room
     /\ calls' = Watched \o (IF sends THEN <<Release("first", {lastGrant})>> ELSE <<>>)
  /\ again' = "no" /\ watch' = {}
  /\ standing' = "unclaimed" /\ retryClaim' = TRUE /\ confirmed' = "never"
  /\ UNCHANGED <<target, owes, lastGrant, screen, slot, doubt>>

\* The teardown is over.  A release without an answer goes again on the bare
\* line, if the tunnel is known to be gone.
TornDown(gone) ==
  /\ Leaving /\ tunnel' = (IF gone \/ tunnel = "stopping" THEN "down" ELSE "up")
  /\ IF gone /\ again = "teardown"
     THEN Room /\ calls' = Append(calls, Release("second", {lastGrant}))
     ELSE UNCHANGED calls
  /\ again' = IF again = "teardown" THEN "no" ELSE again
  /\ UNCHANGED <<memory, watch, pass, auto, owed, attempt, slotLost, slot, doubt>>

\* A timer of RELEASE_RETRY_AFTER_MS, in the epoch of its release.
RetryRelease ==
  /\ again \in {"timer1", "timer2"} /\ Room
  /\ calls' = Append(calls, Release(again, {lastGrant})) /\ again' = "no"
  /\ UNCHANGED <<memory, watch, screen, slot, doubt>>

-----------------------------------------------------------------------------
(***************************************************************************)
(* Connecting.                                                             *)
(***************************************************************************)
\* Confirmed within a renewal: nothing to ask.
Fresh == standing = "unenforced" \/ (standing = "held" /\ confirmed = "fresh")

NeedsStandingCheck ==
  target /\ \/ standing \in {"unclaimed", "uncounted"} /\ retryClaim
            \/ standing = "held" /\ confirmed \in {"never", "lapsed"}

\* A release is on the wire that a claim gives its moment.
Releasing == Waiting({"first", "torn", "second", "watch"})

StartsClaiming(takeover) ==
  /\ IF Releasing
     THEN NewEpoch(<<>>) /\ pass' = "clearing"
     ELSE Room /\ NewEpoch(<<Call("claim", "dial", {}, takeover)>>) /\ pass' = "claiming"
  /\ target' = TRUE /\ standing' = "none" /\ owes' = takeover /\ retryClaim' = TRUE
  /\ confirmed' = "never"
  /\ UNCHANGED lastGrant

\* The customer presses Connect, or "Use on this device instead".
Connect(takeover) ==
  /\ pass = "rest" /\ tunnel = "down" /\ owed = "none" /\ ~Waiting({"dial", "check"})
  /\ slotLost' = FALSE /\ auto' = FALSE /\ attempt' = FALSE
  /\ IF target /\ ~takeover /\ Fresh
     THEN pass' = "dialling" /\ UNCHANGED <<memory, giving, calls, doubt>>
     ELSE StartsClaiming(takeover)
  /\ UNCHANGED <<tunnel, owed, slot>>

\* A tunnel that died or stopped carrying traffic is brought back.
Reconnect ==
  /\ pass = "rest" /\ ~Leaving /\ owed = "none" /\ ~slotLost /\ target
  /\ ~Waiting({"dial", "check"}) /\ ~NeedsStandingCheck
  /\ auto' = TRUE
  /\ IF Fresh
     THEN pass' = "dialling" /\ tunnel' = "down" /\ UNCHANGED <<memory, giving, calls, doubt>>
     ELSE StartsClaiming(FALSE) /\ UNCHANGED tunnel
  /\ UNCHANGED <<owed, attempt, slotLost, slot>>

\* The release had its moment.
ClaimBeforeDial ==
  /\ pass = "clearing" /\ Room
  /\ calls' = Append(calls, Call("claim", "dial", {}, owes)) /\ pass' = "claiming"
  /\ UNCHANGED <<memory, giving, auto, tunnel, owed, attempt, slotLost, slot, doubt>>

\* The same for a slot that is not confirmed: the tunnel first.
Recheck ==
  /\ pass = "rest" /\ ~Leaving /\ owed = "none" /\ ~slotLost
  /\ ~Waiting({"dial", "check"}) /\ NeedsStandingCheck
  /\ auto' = TRUE /\ tunnel' = "down" /\ pass' = "prechecking"
  /\ UNCHANGED <<memory, giving, calls, owed, attempt, slotLost, slot, doubt>>

\* Mutant: the check does not start an epoch of its own.
CheckStandingSameEpoch ==
  /\ pass = "prechecking" /\ Room
  /\ calls' = Append(calls, Call(IF owes THEN "claim" ELSE "renew", "check", {}, owes))
  /\ pass' = "checking"
  /\ UNCHANGED <<memory, giving, auto, tunnel, owed, attempt, slotLost, slot, doubt>>

CheckStanding ==
  /\ pass = "prechecking" /\ Room
  /\ NewEpoch(<<Call(IF owes THEN "claim" ELSE "renew", "check", {}, owes)>>)
  /\ pass' = "checking"
  /\ UNCHANGED <<memory, auto, tunnel, owed, attempt, slotLost, slot>>

\* The ladder lands, on the credential the claim named or another one.
Land(elsewhere) ==
  /\ pass = "dialling" /\ Rests /\ tunnel' = "up"
  /\ IF standing = "unclaimed" \/ (standing = "held" /\ elsewhere)
     THEN Room /\ calls' = Append(calls, Call("claim", "late", {}, owes))
     ELSE UNCHANGED calls
  /\ UNCHANGED <<memory, giving, owed, attempt, slotLost, slot, doubt>>

\* Nothing on the ladder carried traffic.
Fail ==
  /\ pass = "dialling" /\ Rests /\ GiveBackIfAny(FALSE)
  /\ UNCHANGED <<tunnel, owed, attempt, slotLost, slot, doubt>>

-----------------------------------------------------------------------------
(***************************************************************************)
(* While connected.                                                        *)
(***************************************************************************)
\* Mutant: a takeover that is still owed does not make it a claim.
PollOpForgetful ==
  CASE standing = "held" -> "renew"
    [] standing \in {"unclaimed", "uncounted"} -> IF retryClaim THEN "claim" ELSE "renew"

PollOp ==
  CASE standing = "held" -> "renew"
    [] standing \in {"unclaimed", "uncounted"} ->
         IF retryClaim \/ owes THEN "claim" ELSE "renew"

\* onPoll, when it is due.
Poll ==
  /\ tunnel = "up" /\ pass = "rest" /\ owed = "none" /\ target /\ Room
  /\ standing \in {"held", "unclaimed", "uncounted"} /\ ~Waiting({"poll"})
  /\ calls' = Append(calls, Call(PollOp, "poll", {}, PollOp = "claim" /\ owes))
  /\ UNCHANGED <<memory, giving, screen, slot, doubt>>

\* Time since the server's last word: a renewal's, then a stale slot's.
Age ==
  /\ standing = "held" /\ confirmed \in {"fresh", "aging"}
  /\ confirmed' = IF confirmed = "fresh" THEN "aging" ELSE "lapsed"
  /\ UNCHANGED <<target, standing, owes, retryClaim, lastGrant, giving, calls,
                 screen, slot, doubt>>

\* The customer disconnects, or stops a pass.
Disconnect ==
  /\ owed = "none" /\ (tunnel = "up" \/ pass # "rest")
  /\ pass = "clearing" => "hasty" \in Races
  /\ GiveBackIfAny(TRUE) /\ Rests
  /\ tunnel' = IF tunnel = "up" \/ pass = "dialling" THEN "leaving" ELSE "stopping"
  /\ UNCHANGED <<owed, attempt, slotLost, slot, doubt>>

\* The tunnel goes on its own, and a reconnect is to bring it back or is not.
Drop(back) ==
  /\ tunnel = "up" /\ pass = "rest" /\ tunnel' = "down"
  /\ back => owed = "none" /\ ~slotLost
  /\ IF back THEN UNCHANGED <<memory, giving, calls>> ELSE GiveBackIfAny(FALSE)
  /\ UNCHANGED <<pass, auto, owed, attempt, slotLost, slot, doubt>>

\* "Stop reconnecting" between two attempts, or the episode gives up.
StopReconnecting ==
  /\ tunnel = "down" /\ pass = "rest" /\ target /\ GiveBack(FALSE)
  /\ UNCHANGED <<screen, slot, doubt>>

\* The app is opened on a tunnel that is up: nothing of before is known, or a
\* screen that was away finds what it left.
Adopt(reopened) ==
  /\ tunnel = "up" /\ pass = "rest" /\ owed = "none"
  /\ reopened \/ ~target \/ standing \in {"none", "displaced"}
  /\ IF reopened
     THEN /\ calls' = [i \in DOMAIN calls |-> [Orphaned[i] EXCEPT !.waits = FALSE]]
          /\ again' = "no" /\ watch' = {} /\ lastGrant' = None /\ slotLost' = FALSE
          /\ attempt' = FALSE /\ doubt' = TRUE
     ELSE NewEpoch(<<>>) /\ UNCHANGED <<lastGrant, slotLost, attempt>>
  /\ target' = TRUE /\ standing' = "unclaimed" /\ owes' = FALSE /\ retryClaim' = TRUE
  /\ confirmed' = "never"
  /\ UNCHANGED <<pass, auto, tunnel, owed, slot>>

\* reset, and the server releases the slot by itself and refuses what is left.
SignOut ==
  /\ calls' = <<>> /\ again' = "no" /\ watch' = {} /\ slot' = None
  /\ target' = FALSE /\ standing' = "none" /\ owes' = FALSE /\ lastGrant' = None
  /\ confirmed' = "never" /\ Rests /\ tunnel' = "down" /\ owed' = "none"
  /\ attempt' = FALSE
  /\ UNCHANGED <<retryClaim, slotLost, doubt>>

-----------------------------------------------------------------------------
(***************************************************************************)
(* The server.                                                             *)
(***************************************************************************)
InTurn(i) ==
  "overtake" \notin Races =>
    \A j \in 1..i-1 : IsAsk(i) /\ IsAsk(j) => calls[j].answer # "none"

\* newHandle: one nobody still knows.
NewHandle(h) ==
  LET fresh == {g \in Handles \ {slot, lastGrant} :
                  \A i \in DOMAIN calls : g # calls[i].grant /\ g \notin calls[i].names}
  IN h \in fresh /\ \A g \in fresh : h <= g

\* The answer reaches an app that waits; nobody is told of any other.
Answered(i, answer, grant) ==
  calls' = IF calls[i].waits
           THEN [calls EXCEPT ![i].answer = answer, ![i].grant = grant]
           ELSE Without(i)

Served(i, op) ==
  /\ i \in DOMAIN calls /\ calls[i].op = op /\ calls[i].answer = "none" /\ InTurn(i)
  /\ UNCHANGED <<memory, giving, screen, doubt>>

\* A claim: a new handle, also for the one who holds the slot.
ServeClaim(i) ==
  /\ Served(i, "claim")
  /\ \/ \E h \in Handles : NewHandle(h) /\ slot' = h /\ Answered(i, "granted", h)
     \/ slot = None /\ slot' = None /\ Answered(i, "refused", None)

\* A renewal keeps the handle, or gives the slot back where there is room.
ServeRenew(i) ==
  /\ Served(i, "renew")
  /\ "late" \notin Races => \A j \in DOMAIN calls : slot \notin calls[j].names
  /\ \/ slot # None /\ slot' = slot /\ Answered(i, "granted", slot)
     \/ /\ slot = None
        /\ \/ \E h \in Handles : NewHandle(h) /\ slot' = h /\ Answered(i, "granted", h)
           \/ \E a \in {"displaced", "refused"} : slot' = None /\ Answered(i, a, None)

\* A plan without a limit, or slots switched off: what is on record does not
\* count.  Or an error of which asking again makes something else, or not.
ServeOtherwise(i) ==
  /\ \E op \in Asks : Served(i, op)
  /\ \/ \E a \in {"unenforced", "uncounted"} : slot' = None /\ Answered(i, a, None)
     \/ \E a \in {"retry", "final"} : slot' = slot /\ Answered(i, a, None)

\* A release frees the slot under the handle it names, or nothing.
ServeRelease(i) ==
  /\ Served(i, "release")
  /\ slot' = (IF slot \in calls[i].names THEN None ELSE slot)
  /\ Answered(i, "released", None)

\* Another device takes the slot over, or it goes stale, or is revoked.
Rival == slot # None /\ slot' = None /\ UNCHANGED <<memory, giving, calls, screen, doubt>>

\* It never arrives.
Lose(i) ==
  /\ i \in DOMAIN calls /\ ~calls[i].waits /\ calls' = Without(i)
  /\ UNCHANGED <<memory, giving, screen, slot, doubt>>

-----------------------------------------------------------------------------
(***************************************************************************)
(* The device limit ends a session.                                        *)
(***************************************************************************)
\* endForSlot: no ladder, and the tunnel is owed until it is down.
EndForSlot ==
  /\ slotLost' = TRUE /\ Rests
  /\ owed' = IF owed = "none" THEN "tearingDown" ELSE owed
  /\ attempt' = TRUE
  /\ UNCHANGED tunnel

\* Mutant: an attempt that ends with the tunnel still up is the last one.
AttemptEndsAnyway(down) ==
  /\ attempt /\ attempt' = FALSE /\ ~Leaving
  /\ tunnel' = IF down THEN "down" ELSE tunnel
  /\ owed' = "none"
  /\ UNCHANGED <<memory, giving, calls, pass, auto, slotLost, slot, doubt>>

\* tearDownForSlotOnce comes back: down on the service's word, or stuck.
AttemptEnds(down) ==
  /\ attempt /\ attempt' = FALSE /\ ~Leaving
  /\ tunnel' = IF down THEN "down" ELSE tunnel
  /\ owed' = IF down THEN "none" ELSE "stuck"
  /\ UNCHANGED <<memory, giving, calls, pass, auto, slotLost, slot, doubt>>

\* The poll's recheck, or a press.
RetryTeardown ==
  /\ owed # "none" /\ ~attempt /\ attempt' = TRUE
  /\ UNCHANGED <<memory, giving, calls, pass, auto, tunnel, owed, slotLost, slot, doubt>>

\* The service says so outside an attempt.
ConfirmDown ==
  /\ owed # "none" /\ tunnel = "down" /\ owed' = "none"
  /\ UNCHANGED <<memory, giving, calls, pass, auto, tunnel, attempt, slotLost, slot, doubt>>

-----------------------------------------------------------------------------
(***************************************************************************)
(* Answers.                                                                *)
(***************************************************************************)
Verdicts == {"refused", "displaced"}

\* applyGrant, settleClaim and renewNow's switch, in the epoch of the request.
Applied(op, answer, grant) ==
  /\ standing' = CASE answer = "granted" -> "held"
                   [] answer \in {"unenforced", "uncounted", "displaced"} -> answer
                   [] answer = "refused" -> "none"
                   [] answer \in {"retry", "final"} ->
                        IF op = "renew" \/ standing \in {"held", "unenforced", "uncounted"}
                        THEN standing ELSE "unclaimed"
  /\ owes' = (owes /\ answer \in {"retry", "final"})
  /\ retryClaim' = CASE answer \in {"granted", "unenforced", "uncounted"} -> TRUE
                     [] op = "claim" /\ answer \in {"retry", "final"} -> answer = "retry"
                     [] OTHER -> retryClaim
  /\ lastGrant' = IF answer = "granted" THEN grant ELSE lastGrant
  /\ confirmed' = IF answer = "granted" THEN "fresh"     \* read only while held
                  ELSE IF standing' = "held" THEN confirmed ELSE "never"
  /\ UNCHANGED target

\* What the answer means for the pass that waits for it, or for the tunnel.
Acted(role, answer) ==
  CASE role \in {"dial", "check"} /\ answer \notin Verdicts ->
         /\ pass' = "dialling" /\ tunnel' = "down"
         /\ UNCHANGED <<auto, owed, attempt, slotLost>>
    [] role \in {"dial", "check"} /\ answer \in Verdicts /\ ~auto ->
         /\ Rests /\ slotLost' = (slotLost \/ answer = "displaced")
         /\ UNCHANGED <<tunnel, owed, attempt>>
    [] role \in {"dial", "check"} /\ answer \in Verdicts /\ auto -> EndForSlot
    [] role \in {"late", "poll"} /\ answer \in Verdicts -> EndForSlot
    [] OTHER -> UNCHANGED screen

\* heldBy: what an answer after giveBack may have left this device holding.
HeldBy(answer, grant) ==
  CASE answer = "granted" -> {grant} [] answer = "retry" -> {Known} [] OTHER -> {}

\* The last of the answers giveBack waits for: the slot is released again.
Collected(i, answer, grant, rest) ==
  LET named == watch \cup HeldBy(answer, grant)
      names == {IF h = Known THEN lastGrant ELSE h : h \in named} \ {None}
  IN IF ~calls[i].watched THEN calls' = rest /\ UNCHANGED watch
     ELSE IF \E j \in DOMAIN rest : rest[j].watched THEN calls' = rest /\ watch' = named
     ELSE /\ watch' = {} /\ Len(rest) < MaxCalls
          /\ calls' = IF names = {} THEN rest ELSE Append(rest, Release("watch", names))

\* Mutant: an answer of an earlier connect is taken for one of this.
AnswerOfAnyEpoch(i, answer, grant, rest) ==
  /\ Collected(i, answer, grant, rest)
  /\ Applied(calls[i].op, answer, grant) /\ Acted(calls[i].role, answer)
  /\ UNCHANGED <<again, slot>>

Answer(i, answer, grant, rest) ==
  /\ Collected(i, answer, grant, rest)
  /\ IF calls[i].cur
     THEN Applied(calls[i].op, answer, grant) /\ Acted(calls[i].role, answer)
     ELSE UNCHANGED <<memory, screen>>
  /\ UNCHANGED <<again, slot>>

\* An answer in time.
Settle(i) ==
  /\ i \in DOMAIN calls /\ IsAsk(i) /\ calls[i].answer # "none"
  /\ "overtake" \notin Races => \A j \in 1..i-1 : ~(IsAsk(j) /\ calls[j].waits)
  /\ Answer(i, calls[i].answer, calls[i].grant, Without(i))
  /\ doubt' = (doubt \/ calls[i].answer \in {"retry", "final"})

\* The budget is over.  The request may arrive all the same.
TimeOut(i) ==
  /\ i \in DOMAIN calls /\ IsAsk(i) /\ calls[i].waits
  /\ Answer(i, "retry", None,
            IF calls[i].answer # "none" THEN Without(i)
            ELSE [calls EXCEPT ![i].waits = FALSE, ![i].watched = FALSE])
  /\ doubt' = TRUE

\* A release is answered.
SettleRelease(i) ==
  /\ i \in DOMAIN calls /\ calls[i].answer = "released"
  /\ calls' = Without(i)
  /\ again' = IF calls[i].cur /\ calls[i].role = "torn" THEN "no" ELSE again
  /\ UNCHANGED <<memory, watch, screen, slot, doubt>>

\* Or not: it is sent again, unless anything has started since.
TimeOutRelease(i) ==
  /\ i \in DOMAIN calls /\ calls[i].op = "release" /\ calls[i].waits
  /\ calls' = IF calls[i].answer # "none" THEN Without(i)
              ELSE [calls EXCEPT ![i].waits = FALSE]
  /\ again' = CASE calls[i].cur /\ calls[i].role \in {"first", "second"} -> "timer1"
                [] calls[i].cur /\ calls[i].role = "timer1" -> "timer2"
                [] OTHER -> again
  /\ doubt' = TRUE
  /\ UNCHANGED <<memory, watch, screen, slot>>

-----------------------------------------------------------------------------
Serves(i) == ServeClaim(i) \/ ServeRenew(i) \/ ServeOtherwise(i) \/ ServeRelease(i)

Answers(i) == Settle(i) \/ TimeOut(i) \/ SettleRelease(i) \/ TimeOutRelease(i)

Passes == ClaimBeforeDial \/ CheckStanding \/ Land(TRUE) \/ Land(FALSE) \/ Fail

Presses ==
  \/ \E b \in BOOLEAN : Connect(b) \/ Drop(b) \/ TornDown(b) \/ Adopt(b) \/ AttemptEnds(b)
  \/ Disconnect \/ StopReconnecting \/ SetAside \/ Reconnect \/ Recheck \/ SignOut

Next ==
  \/ Passes \/ Presses \/ Poll \/ Age \/ RetryRelease \/ RetryTeardown \/ ConfirmDown
  \/ \E i \in 1..MaxCalls : Serves(i) \/ Answers(i) \/ Lose(i)
  \/ Rival

Spec == Init /\ [][Next]_vars

-----------------------------------------------------------------------------
(***************************************************************************)
(* Properties.                                                             *)
(***************************************************************************)
Roles == {"dial", "check", "late", "poll", "first", "torn", "second",
          "timer1", "timer2", "watch"}

\* The session and its requests have the shapes the code gives them.
TypeOK ==
  /\ target \in BOOLEAN /\ owes \in BOOLEAN /\ retryClaim \in BOOLEAN
  /\ standing \in {"none", "held", "unenforced", "uncounted", "unclaimed", "displaced"}
  /\ lastGrant \in Handles \cup {None} /\ slot \in Handles \cup {None}
  /\ confirmed \in {"never", "fresh", "aging", "lapsed"}
  /\ again \in {"no", "teardown", "timer1", "timer2"}
  /\ watch \subseteq Handles \cup {Known}
  /\ Len(calls) <= MaxCalls
  /\ \A i \in DOMAIN calls :
       calls[i] \in [op : Asks \cup {"release"}, role : Roles, names : SUBSET Handles,
                     chosen : BOOLEAN, cur : BOOLEAN, watched : BOOLEAN, waits : BOOLEAN,
                     answer : {"none", "granted", "unenforced", "uncounted", "refused",
                               "displaced", "retry", "final", "released"},
                     grant : Handles \cup {None}]
  /\ pass \in {"rest", "clearing", "claiming", "prechecking", "checking", "dialling"}
  /\ auto \in BOOLEAN /\ tunnel \in {"down", "up", "leaving", "stopping"}
  /\ owed \in {"none", "tearingDown", "stuck"} /\ attempt \in BOOLEAN
  /\ slotLost \in BOOLEAN /\ doubt \in BOOLEAN
  /\ standing # "none" => target

\* A release, however late or repeated, never takes the slot a connect of this
\* device has been granted since.
NeverFreesItsOwn ==
  [][\A i \in DOMAIN calls :
       ServeRelease(i) /\ slot' # slot => ~(standing = "held" /\ lastGrant = slot)]_vars

\* Once a Disconnect and everything it sent has been answered, the server does
\* not count this device, whatever was under way when it was pressed.
OffIsGivenBack ==
  ~target /\ calls = <<>> /\ ~doubt => slot = None

\* "Use on this device instead" is forgotten only when a claim that said so was
\* answered; until then no answer ends the session in favour of the devices the
\* customer chose to replace.
ChosenNotInTheWay ==
  [][\A i \in DOMAIN calls : Settle(i) /\ owes /\ ~owes' => calls[i].chosen]_vars

\* A tunnel the device limit ended is never left up with nobody to take it
\* down.
RefusedTunnelIsOwed == slotLost /\ tunnel = "up" => owed # "none"

=============================================================================
