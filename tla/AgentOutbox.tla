---------------------------- MODULE AgentOutbox ----------------------------
(***************************************************************************)
(* How a command reaches a node: the outbox of one node, the registry of   *)
(* open streams, the replay after a Hello and the acks                     *)
(* (apps/backend/src/modules/agent-gateway/agent-gateway.service.ts), with *)
(* the agent at the other end (agent/internal/controlplane/client.go).     *)
(*                                                                         *)
(* The commands are those for one credential, numbered in the order their  *)
(* rows were created; each switches it on or off.  A call is one AgentSync *)
(* stream; the agent dials them one after another, and the last one dialled *)
(* is the only one that can be open.  Each await of the backend is a place *)
(* where anything else may happen.                                         *)
(*                                                                         *)
(* Races names what the schedules of this instance may contain:            *)
(*   "slow_hello"   a Hello is still being checked when the agent has      *)
(*                  given its call up and dials again                      *)
(*   "overlap"      a replay, an ack or a command of the call it gave up   *)
(*                  is still being handled then                            *)
(*   "mid_replay"   a command is being issued while a replay is running    *)
(*   "write_order"  the database answers, or is written, in another order  *)
(*                  than it was asked                                      *)
(***************************************************************************)
EXTENDS Integers, Sequences, FiniteSets, SequencesExt

CONSTANTS MaxCommands, \* commands issued (a bound)
          MaxCalls,    \* streams dialled (a bound)
          Kinds,       \* what the commands issued here may do
          Outcomes,    \* what carrying one out may come to
          Races        \* see above

ASSUME CommandsAssumption == MaxCommands \in Nat
ASSUME CallsAssumption == MaxCalls \in Nat \ {0}
ASSUME KindsAssumption == Kinds \subseteq {"on", "off"}
ASSUME OutcomesAssumption == Outcomes \subseteq {"ACKED", "FAILED"}
ASSUME RacesAssumption ==
  Races \subseteq {"slow_hello", "overlap", "mid_replay", "write_order"}

VARIABLES
  row,        \* row[c]: the status of command c's row, or "none" (Postgres)
  kind,       \* kind[c]: what command c does, "on" or "off"      (Postgres)
  stripped,   \* rows whose credentials were removed              (Postgres)
  enq,        \* enq[c]: where the enqueueCommand that issued c is  (memory)
  registered, \* the call in the registry, or None                  (memory)
  sync,       \* sync[k]: where the Hello of call k is              (memory)
  todo,       \* todo[k]: commands its replay has yet to write      (memory)
  marking,    \* calls whose replay awaits the write of SENT        (memory)
  noticed,    \* calls whose end the backend has handled            (memory)
  dialled,    \* how many calls the agent has dialled
  open,       \* whether the last of them is open
  wire,       \* commands written to it and not yet taken off it
  busy,       \* busy[k]: the command of call k being carried out, or None
  acks,       \* acks on their way, or being recorded
  node,       \* whether the node has the credential "on" or "off"
  executed,   \* history: commands the node has attempted
  late,       \* history: commands acked while a handler that had read their
              \* rows was still to write to them
  orderly     \* history: none of the last three Races has happened since a
              \* command was issued with the outbox at rest

rows == <<row, kind, stripped>>
memory == <<registered, sync, todo, marking, noticed>>
agent == <<dialled, open, busy, node, executed>>
history == <<late, orderly>>
vars == <<row, kind, stripped, enq, registered, sync, todo, marking, noticed,
          dialled, open, wire, busy, acks, node, executed, late, orderly>>

Commands == 1..MaxCommands
Calls == 1..MaxCalls
None == 0

Issued == {c \in Commands : row[c] # "none"}
Unacked == {c \in Commands : row[c] \in {"QUEUED", "SENT"}}

\* The last call dialled, when the backend's registry still names it.
Reaches == open /\ registered = dialled

Init ==
  /\ row = [c \in Commands |-> "none"]
  /\ kind = [c \in Commands |-> "off"]
  /\ stripped = {}
  /\ enq = [c \in Commands |-> "none"]
  /\ registered = None
  /\ sync = [k \in Calls |-> "none"]
  /\ todo = [k \in Calls |-> {}]
  /\ marking = {}
  /\ noticed = {}
  /\ dialled = 0
  /\ open = FALSE
  /\ wire = <<>>
  /\ busy = [k \in Calls |-> None]
  /\ acks = <<>>
  /\ node = "off"
  /\ executed = {}
  /\ late = {}
  /\ orderly = TRUE

-----------------------------------------------------------------------------
(***************************************************************************)
(* Issuing a command (enqueueCommand).                                     *)
(***************************************************************************)
Replaying == \E k \in Calls : sync[k] \in {"registered", "replay"}
Working == \E k \in Calls : busy[k] # None

\* Nothing is left to send, to carry out or to record.
Quiet ==
  /\ Unacked = {} /\ wire = <<>> /\ acks = <<>> /\ ~Replaying /\ ~Working
  /\ \A c \in Commands : enq[c] \in {"none", "over"}

\* A step that may be one of the Races: it is, unless it is in order.
MayRace(race, inOrder) ==
  /\ race \notin Races => inOrder
  /\ orderly' = (orderly /\ inOrder)

\* The row is written, QUEUED.
Enqueue(c, what) ==
  /\ row[c] = "none"
  /\ c - 1 \in Issued \cup {0}
  /\ "mid_replay" \notin Races => ~Replaying
  /\ row' = [row EXCEPT ![c] = "QUEUED"]
  /\ kind' = [kind EXCEPT ![c] = what]
  /\ enq' = [enq EXCEPT ![c] = "stored"]
  /\ orderly' = (~Replaying /\ (orderly \/ Quiet))
  /\ UNCHANGED <<stripped, memory, agent, wire, acks, late>>

\* writeCommand: onto the registered call; one that is no longer open takes
\* the write and delivers nothing.
Write(c) == wire' = IF Reaches THEN Append(wire, c) ELSE wire

\* And, in the same turn of the event loop, to the node if it is connected.
WriteStored(c) ==
  /\ enq[c] = "stored"
  /\ MayRace("write_order", \A b \in 1..c - 1 : enq[b] # "stored")
  /\ Write(c)
  /\ enq' = [enq EXCEPT ![c] = IF registered # None THEN "mark" ELSE "over"]
  /\ UNCHANGED <<rows, memory, agent, acks, late>>

MarkSent(c) ==
  /\ enq[c] = "mark"
  /\ row' = [row EXCEPT ![c] = "SENT"]
  /\ enq' = [enq EXCEPT ![c] = "over"]
  /\ UNCHANGED <<kind, stripped, memory, agent, wire, acks, history>>

-----------------------------------------------------------------------------
(***************************************************************************)
(* A connection (handleAgentSync): Hello, replay, close.                   *)
(***************************************************************************)
\* Mutant: a Hello whose stream closed meanwhile is registered regardless.
HelloDoneUnlessClosedDropped(k) ==
  /\ sync[k] = "hello"
  /\ MayRace("mid_replay", \A c \in Commands : enq[c] # "stored")
  /\ registered' = k
  /\ sync' = [sync EXCEPT ![k] = "registered"]
  /\ UNCHANGED <<rows, enq, todo, marking, noticed, agent, wire, acks, late>>

\* The signature is checked and the node ONLINE; unless the stream was seen
\* to close meanwhile, its call is registered.
HelloDone(k) ==
  /\ sync[k] = "hello"
  /\ MayRace("mid_replay", \A c \in Commands : enq[c] # "stored")
  /\ IF k \in noticed
     THEN sync' = [sync EXCEPT ![k] = "ended"] /\ UNCHANGED registered
     ELSE /\ registered' = k
          /\ sync' = [sync EXCEPT ![k] = "registered"]
  /\ UNCHANGED <<rows, enq, todo, marking, noticed, agent, wire, acks, late>>

\* Mutant: only commands that were never written are replayed.
PendingQueuedOnly == {c \in Commands : row[c] = "QUEUED"}

\* Mutant: every command ever issued is replayed.
PendingEverything == Issued

Pending == Unacked

\* Mutant: the newest first.
FirstNewest(S) == CHOOSE c \in S : \A b \in S : b <= c

\* In the order they were created.
First(S) == CHOOSE c \in S : \A b \in S : c <= b

\* replayQueuedCommands reads the rows to send.
ReplayRead(k) ==
  /\ sync[k] = "registered"
  /\ todo' = [todo EXCEPT ![k] = Pending]
  /\ sync' = [sync EXCEPT ![k] = "replay"]
  /\ UNCHANGED <<rows, enq, registered, marking, noticed, agent, wire, acks, history>>

\* It writes the next one, to whichever call is registered now.
ReplayWrite(k) ==
  /\ sync[k] = "replay" /\ k \notin marking /\ todo[k] # {}
  /\ Write(First(todo[k]))
  /\ marking' = marking \cup {k}
  /\ UNCHANGED <<rows, enq, registered, sync, todo, noticed, agent, acks, history>>

\* And marks it SENT, whether it went anywhere or not.
ReplayMark(k) ==
  /\ k \in marking
  /\ row' = [row EXCEPT ![First(todo[k])] = "SENT"]
  /\ todo' = [todo EXCEPT ![k] = @ \ {First(@)}]
  /\ marking' = marking \ {k}
  /\ UNCHANGED <<kind, stripped, enq, registered, sync, noticed, agent, wire,
                 acks, history>>

ReplayDone(k) ==
  /\ sync[k] = "replay" /\ k \notin marking /\ todo[k] = {}
  /\ sync' = [sync EXCEPT ![k] = "synced"]
  /\ UNCHANGED <<rows, enq, registered, todo, marking, noticed, agent, wire,
                 acks, history>>

\* Mutant: the close of an old call clears whatever is registered.
UnregisterAny(k) == None

\* registry.delete: only if this is still the call registered.
Unregister(k) == IF registered = k THEN None ELSE registered

\* The backend sees the call end (a FIN, a keepalive that was not answered,
\* or a heartbeat that stayed away), some time after it did.
CloseSeen(k) ==
  /\ k <= dialled /\ k \notin noticed /\ ~(open /\ k = dialled)
  /\ noticed' = noticed \cup {k}
  /\ registered' = Unregister(k)
  /\ UNCHANGED <<rows, enq, sync, todo, marking, agent, wire, acks, history>>

-----------------------------------------------------------------------------
(***************************************************************************)
(* Acks (handleCommandAck).                                                *)
(***************************************************************************)
MarkPending(c) ==
  enq[c] = "mark" \/ \E k \in marking : First(todo[k]) = c

\* A handler has read its row and has yet to write it, to a call or as SENT.
StillToWrite(c) == enq[c] # "over" \/ \E k \in Calls : c \in todo[k]

\* The outcome is stored and the credentials leave the row.
HandleAck(i) ==
  /\ MayRace("write_order", i = 1 /\ ~MarkPending(acks[i].cmd))
  /\ row' = [row EXCEPT ![acks[i].cmd] = acks[i].outcome]
  /\ stripped' = stripped \cup {acks[i].cmd}
  /\ acks' = RemoveAt(acks, i)
  /\ late' = IF StillToWrite(acks[i].cmd) THEN late \cup {acks[i].cmd} ELSE late
  /\ UNCHANGED <<kind, enq, memory, agent, wire>>

\* What a call that ended had not delivered is gone: its last acks.
LoseAck(i) ==
  /\ ~(open /\ acks[i].call = dialled)
  /\ \A j \in i + 1..Len(acks) : acks[j].call # acks[i].call
  /\ acks' = RemoveAt(acks, i)
  /\ UNCHANGED <<rows, enq, memory, agent, wire, history>>

-----------------------------------------------------------------------------
(***************************************************************************)
(* The agent (Run, runStream, receiveLoop).                                *)
(***************************************************************************)
Dial ==
  /\ ~open /\ dialled < MaxCalls
  /\ "slow_hello" \notin Races => \A k \in Calls \ noticed : sync[k] # "hello"
  /\ MayRace("overlap", ~Replaying /\ acks = <<>> /\ ~Working)
  /\ dialled' = dialled + 1
  /\ open' = TRUE
  /\ sync' = [sync EXCEPT ![dialled + 1] = "hello"]
  /\ UNCHANGED <<rows, enq, registered, todo, marking, noticed, wire, busy,
                 acks, node, executed, late>>

\* A call is lost, with what was on it.  Bound: the last one stays up.
Drop ==
  /\ open /\ dialled < MaxCalls
  /\ open' = FALSE
  /\ wire' = <<>>
  /\ UNCHANGED <<rows, enq, memory, dialled, busy, acks, node, executed, history>>

\* The agent stops, in the middle of a command or not, and starts again; the
\* engines it drives go on.
AgentStops ==
  /\ 0 < dialled /\ dialled < MaxCalls
  /\ open' = FALSE
  /\ wire' = <<>>
  /\ busy' = [k \in Calls |-> None]
  /\ UNCHANGED <<rows, enq, memory, dialled, acks, node, executed, history>>

Take ==
  /\ open /\ wire # <<>> /\ busy[dialled] = None
  /\ busy' = [busy EXCEPT ![dialled] = Head(wire)]
  /\ wire' = Tail(wire)
  /\ UNCHANGED <<rows, enq, memory, dialled, open, acks, node, executed, history>>

\* A command is carried out, or fails; the ack needs its call.
Finish(k, outcome) ==
  /\ busy[k] # None
  /\ node' = IF outcome = "ACKED" THEN kind[busy[k]] ELSE node
  /\ executed' = executed \cup {busy[k]}
  /\ acks' = IF open /\ k = dialled
             THEN Append(acks, [cmd |-> busy[k], outcome |-> outcome, call |-> k])
             ELSE acks
  /\ busy' = [busy EXCEPT ![k] = None]
  /\ UNCHANGED <<rows, enq, memory, dialled, open, wire, history>>

-----------------------------------------------------------------------------
\* The backend stops and starts again: everything in its memory is gone,
\* and with it every stream and whatever a handler was about to write.
Restart ==
  /\ 0 < dialled /\ dialled < MaxCalls
  /\ enq' = [c \in Commands |-> IF row[c] = "none" THEN "none" ELSE "over"]
  /\ registered' = None
  /\ sync' = [k \in Calls |-> IF k <= dialled THEN "ended" ELSE "none"]
  /\ todo' = [k \in Calls |-> {}]
  /\ marking' = {}
  /\ noticed' = 1..dialled
  /\ open' = FALSE
  /\ wire' = <<>>
  /\ acks' = <<>>
  /\ UNCHANGED <<rows, dialled, busy, node, executed, history>>

Backend ==
  \/ \E c \in Commands : WriteStored(c) \/ MarkSent(c)
  \/ \E k \in Calls : \/ HelloDone(k) \/ ReplayRead(k) \/ ReplayWrite(k)
                      \/ ReplayMark(k) \/ ReplayDone(k) \/ CloseSeen(k)
  \/ \E i \in DOMAIN acks : HandleAck(i) \/ LoseAck(i)

Agent ==
  \/ Dial
  \/ Take
  \/ \E k \in Calls, outcome \in Outcomes : Finish(k, outcome)

Next ==
  \/ \E c \in Commands, what \in Kinds : Enqueue(c, what)
  \/ Backend
  \/ Agent
  \/ Drop \/ AgentStops
  \/ Restart

\* The backend's promises and timers run, the agent redials for ever, and
\* what is on an open stream arrives.
Fairness ==
  /\ \A c \in Commands : WF_vars(WriteStored(c)) /\ WF_vars(MarkSent(c))
  /\ \A k \in Calls : /\ WF_vars(HelloDone(k)) /\ WF_vars(ReplayRead(k))
                      /\ WF_vars(ReplayWrite(k)) /\ WF_vars(ReplayMark(k))
                      /\ WF_vars(ReplayDone(k)) /\ WF_vars(CloseSeen(k))
                      /\ WF_vars(\E outcome \in Outcomes : Finish(k, outcome))
  /\ WF_vars(\E i \in DOMAIN acks : HandleAck(i))
  /\ WF_vars(Dial) /\ WF_vars(Take)

Spec == Init /\ [][Next]_vars
FairSpec == Spec /\ Fairness

-----------------------------------------------------------------------------
(***************************************************************************)
(* Properties.                                                             *)
(***************************************************************************)
Shape ==
  /\ row \in [Commands -> {"none", "QUEUED", "SENT", "ACKED", "FAILED"}]
  /\ kind \in [Commands -> {"on", "off"}]
  /\ stripped \subseteq Commands
  /\ enq \in [Commands -> {"none", "stored", "mark", "over"}]
  /\ registered \in (0..dialled) \ noticed
  /\ sync \in [Calls -> {"none", "hello", "registered", "replay", "synced",
                      "ended"}]
  /\ todo \in [Calls -> SUBSET Commands]
  /\ marking \subseteq {k \in Calls : todo[k] # {}}
  /\ noticed \subseteq 1..dialled
  /\ dialled \in 0..MaxCalls
  /\ open \in BOOLEAN /\ (open => dialled # 0)
  /\ wire \in Seq(Commands) /\ (~open => wire = <<>>)
  /\ busy \in [Calls -> Commands \cup {None}]
  /\ acks \in Seq([cmd : Commands, outcome : {"ACKED", "FAILED"}, call : Calls])
  /\ node \in {"on", "off"}
  /\ executed \subseteq Commands

\* Rows, in-memory state, streams and the node have the shapes the code
\* gives them; the open call is the last one dialled, and a call seen to
\* close is not registered: "a closed call must never be handed work".
TypeOK == Shape /\ late \subseteq Commands /\ orderly \in BOOLEAN

\* The agent's call, once its Hello is through, stays in the registry until
\* it ends: AgentConnectionRegistry "tracks which agents currently have a
\* live AgentSync stream open".
LiveCallRegistered ==
  open /\ sync[dialled] # "hello" => registered = dialled

\* Once a replay has read the outbox, every command the node never attempted
\* is on its way over the open call, whoever wrote it there: nothing waits
\* for a further reconnect.
NothingStranded ==
  open /\ sync[dialled] \in {"replay", "synced"} =>
    \A c \in Unacked \ executed :
      enq[c] = "stored"
      \/ c \in Range(wire) \cup {busy[dialled]} \cup todo[dialled]

\* Every command that is stored is attempted by the node, whatever was lost,
\* replayed or restarted on the way.
EveryCommandAttempted ==
  \A c \in Commands : row[c] # "none" ~> c \in executed

\* The last command issued for a credential decides what the node does with
\* it, if it was carried out at all: "in the order they were created".
LastCommandDecides ==
  Quiet => \A c \in Issued :
             c + 1 \notin Issued /\ row[c] = "ACKED" => node = kind[c]

\* The same as long as nothing overlapped since the outbox was last at rest
\* when a command was issued: whatever overlapped before does not linger.
LastOrderlyDecides == orderly => LastCommandDecides

\* A row whose credentials were removed is never replayed, "an acked or failed
\* command never needs its credentials again", unless its ack was recorded
\* while a handler that had read it before had yet to mark it.
StrippedNeverReplayed == Unacked \cap stripped \subseteq late

=============================================================================
