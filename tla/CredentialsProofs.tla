------------------------- MODULE CredentialsProofs -------------------------
(***************************************************************************)
(* Proofs about Credentials, for any number of credentials, operations and  *)
(* re-asserts: what a node is left with when everything is over.           *)
(***************************************************************************)
EXTENDS Credentials, SequenceTheorems, TLAPS

CONSTANT Aborts  \* whether a calm stretch may contain the race "abort"

Operation ==
  [kind : {"none", "disable", "enable", "create", "fetch", "remove", "hold", "off"},
   pc : {"idle", "rows", "lease", "next", "note", "send", "write"},
   todo : SUBSET Users, cur : SUBSET Users, lock : BOOLEAN,
   then : {"none", "create", "off"}]

Reassertion ==
  [kind : {"none", "periodic", "reconnect", "lift"},
   pc : {"idle", "read", "next", "send", "after", "repeat"},
   todo : SUBSET Users, cur : SUBSET Users, off : SUBSET Users, since : SUBSET Users]

RowsOK ==
  /\ row \in [Users -> {"none", "ACTIVE", "DISABLED", "gone"}]
  /\ paid \in BOOLEAN /\ enabled \in BOOLEAN
  /\ devices \subseteq Users /\ signedOut \subseteq devices
  /\ held \subseteq {u \in Users : Exists(u)}

OpOK == op \in [Ops -> Operation]
SweepOK == fresh \subseteq Users /\ sweep \in [Sweeps -> Reassertion]
WireOK == connected \in BOOLEAN /\ node \subseteq Users /\ wire \in Seq(Command)

TInv == RowsOK /\ OpOK /\ SweepOK /\ WireOK

LEMMA Types == TypeOK <=> TInv
BY DEF TypeOK, TInv, RowsOK, OpOK, SweepOK, WireOK, Operation, Reassertion

-----------------------------------------------------------------------------
(***************************************************************************)
(* What an action does to the operations.                                  *)
(***************************************************************************)
\* Operation p goes on, and the others stay where they are.
Goes(p, kind, pc, todo, cur) ==
  /\ OpOK' /\ \A o \in Ops \ {p} : op'[o] = op[o]
  /\ op'[p].kind = kind /\ op'[p].pc = pc /\ op'[p].todo = todo /\ op'[p].cur = cur
  /\ op'[p].lock = op[p].lock /\ op'[p].then = op[p].then

\* Operation p becomes another.
Turns(p, r) == OpOK' /\ op'[p] = r /\ \A o \in Ops \ {p} : op'[o] = op[o]

LEMMA Fields ==
  ASSUME OpOK, NEW p \in Ops
  PROVE  /\ op[p].kind \in {"none", "disable", "enable", "create", "fetch", "remove", "hold", "off"}
         /\ op[p].pc \in {"idle", "rows", "lease", "next", "note", "send", "write"}
         /\ op[p].todo \subseteq Users /\ op[p].cur \subseteq Users
         /\ op[p].lock \in BOOLEAN /\ op[p].then \in {"none", "create", "off"}
BY DEF OpOK, Operation

LEMMA Turned ==
  ASSUME OpOK, NEW p \in Ops, NEW r \in Operation, op' = [op EXCEPT ![p] = r]
  PROVE  Turns(p, r)
BY DEF OpOK, Turns

LEMMA IdleOp == Idle \in Operation
BY DEF Idle, Operation

LEMMA BegunOp ==
  ASSUME NEW kind \in {"disable", "enable", "create", "fetch", "remove", "hold", "off"},
         NEW U \in SUBSET Users, NEW lock \in BOOLEAN, NEW then \in {"none", "create", "off"}
  PROVE  Begun(kind, U, lock, then) \in Operation
BY DEF Begun, Operation

LEMMA BeginTurns ==
  ASSUME OpOK, NEW p \in Ops,
         NEW kind \in {"disable", "enable", "create", "fetch", "remove", "hold", "off"},
         NEW U \in SUBSET Users, NEW lock \in BOOLEAN, NEW then \in {"none", "create", "off"},
         Begin(p, kind, U, lock, then)
  PROVE  Turns(p, Begun(kind, U, lock, then))
BY BegunOp, Turned DEF Begin

LEMMA SwitchTurns ==
  ASSUME OpOK, NEW p \in Ops, NEW u \in Users, NEW kind, SetEnabled(p, u, kind)
  PROVE  Turns(p, [Begun(kind, {u}, FALSE, "none") EXCEPT !.pc = "next"])
<1>1. Begun(kind, {u}, FALSE, "none") \in Operation
  BY BegunOp DEF SetEnabled
<1>2. [Begun(kind, {u}, FALSE, "none") EXCEPT !.pc = "next"] \in Operation
  BY <1>1 DEF Operation
<1> QED  BY <1>2, Turned DEF SetEnabled

LEMMA ReadGoes ==
  ASSUME OpOK, NEW p \in Ops, ReadRows(p)
  PROVE  Goes(p, op[p].kind, IF op[p].kind = "hold" THEN "lease" ELSE "next",
              Matching(op[p].kind, op[p].todo), op[p].cur)
<1>1. Matching(op[p].kind, op[p].todo) \subseteq Users
  BY Fields DEF Matching
<1> QED  BY <1>1 DEF ReadRows, Goes, OpOK, Operation

LEMMA LeaseGoes ==
  ASSUME OpOK, NEW p \in Ops, Lease(p)
  PROVE  Goes(p, op[p].kind, "next", op[p].todo, op[p].cur)
BY DEF Lease, Goes, OpOK, Operation

LEMMA AtGoes ==
  ASSUME OpOK, NEW p \in Ops, NEW u \in Users, NEW pc \in {"note", "send", "write"}, At(p, u, pc)
  PROVE  Goes(p, op[p].kind, pc, op[p].todo \ {u}, {u})
<1> DEFINE r == [op[p] EXCEPT !.pc = pc, !.todo = @ \ {u}, !.cur = {u}]
<1>1. op[p] \in Operation
  BY DEF OpOK
<1>2. /\ r \in Operation /\ r.kind = op[p].kind /\ r.pc = pc /\ r.todo = op[p].todo \ {u}
      /\ r.cur = {u} /\ r.lock = op[p].lock /\ r.then = op[p].then
  BY <1>1 DEF Operation
<1>3. op' = [op EXCEPT ![p] = r]
  BY DEF At, OpOK
<1> HIDE DEF r
<1>4. Turns(p, r)
  BY <1>2, <1>3, Turned
<1> QED  BY <1>2, <1>4 DEF Turns, Goes

LEMMA NoteGoes ==
  ASSUME OpOK, NEW p \in Ops, NoteSwitchOn(p)
  PROVE  Goes(p, op[p].kind, "send", op[p].todo, op[p].cur)
BY DEF NoteSwitchOn, Goes, OpOK, Operation

LEMMA SendGoes ==
  ASSUME OpOK, NEW p \in Ops, SendCommand(p)
  PROVE  Goes(p, op[p].kind, "write", op[p].todo, op[p].cur)
BY DEF SendCommand, Goes, OpOK, Operation

LEMMA OnwardGoes ==
  ASSUME OpOK, NEW p \in Ops, Onward(p)
  PROVE  Goes(p, op[p].kind, "next", op[p].todo, {})
BY DEF Onward, Goes, OpOK, Operation

LEMMA RecheckGoes ==
  ASSUME OpOK, NEW p \in Ops, NEW u \in Users, Recheck(p, u), ~paid
  PROVE  Goes(p, "disable", "send", op[p].todo, op[p].cur)
BY DEF Recheck, Goes, OpOK, Operation

LEMMA SkipGoes ==
  ASSUME OpOK, NEW p \in Ops, NEW u, op' = [op EXCEPT ![p].todo = @ \ {u}]
  PROVE  Goes(p, op[p].kind, op[p].pc, op[p].todo \ {u}, op[p].cur)
BY DEF Goes, OpOK, Operation

\* What an operation is followed by.
Follow(p) ==
  CASE op[p].then = "create" -> Begun("create", Users \ devices, FALSE, "none")
    [] op[p].then = "off" -> Begun("off", Users, TRUE, "none")
    [] OTHER -> Idle

LEMMA EndTurns ==
  ASSUME OpOK, NEW p \in Ops, EndOp(p)
  PROVE  Turns(p, Follow(p))
<1>1. Follow(p) \in Operation
  BY BegunOp, IdleOp, Users \ devices \in SUBSET Users DEF Follow
<1> QED  BY <1>1, Turned DEF EndOp, Follow

-----------------------------------------------------------------------------
(***************************************************************************)
(* What an action does to the re-asserts.                                  *)
(***************************************************************************)
\* Where re-assert q is after the step.
SweepIs(q, kind, pc, todo, cur, off, since) ==
  /\ sweep'[q].kind = kind /\ sweep'[q].pc = pc /\ sweep'[q].todo = todo
  /\ sweep'[q].cur = cur /\ sweep'[q].off = off /\ sweep'[q].since = since

\* Re-assert q goes on, and the others stay where they are.
SweepGoes(q, kind, pc, todo, cur, off, since) ==
  /\ SweepOK' /\ SweepIs(q, kind, pc, todo, cur, off, since)
  /\ \A s \in Sweeps \ {q} : sweep'[s] = sweep[s]

\* A switch-off of u is noted, and one that switches it on.
IsNotedOff(q, u) ==
  /\ sweep'[q].kind = sweep[q].kind /\ sweep'[q].pc = sweep[q].pc
  /\ sweep'[q].todo = sweep[q].todo /\ sweep'[q].cur = sweep[q].cur
  /\ \A v \in Users : /\ v \in sweep'[q].off <=> v \in sweep[q].off \/ (v = u /\ sweep[q].pc # "idle")
                      /\ v \in sweep'[q].since <=> v \in sweep[q].since \/ (v = u /\ v \in sweep[q].cur)
IsNotedOn(q, u) ==
  SweepIs(q, sweep[q].kind, sweep[q].pc, sweep[q].todo, sweep[q].cur,
          sweep[q].off \ {u}, sweep[q].since \ {u})

LEMMA SweepFields ==
  ASSUME SweepOK, NEW q \in Sweeps
  PROVE  /\ sweep[q].kind \in {"none", "periodic", "reconnect", "lift"}
         /\ sweep[q].pc \in {"idle", "read", "next", "send", "after", "repeat"}
         /\ sweep[q].todo \subseteq Users /\ sweep[q].cur \subseteq Users
         /\ sweep[q].off \subseteq Users /\ sweep[q].since \subseteq Users
BY DEF SweepOK, Reassertion

LEMMA NotedOffRecord ==
  ASSUME NEW s \in Reassertion, NEW u \in Users
  PROVE  /\ NotedOff(s, u) \in Reassertion
         /\ NotedOff(s, u).kind = s.kind /\ NotedOff(s, u).pc = s.pc
         /\ NotedOff(s, u).todo = s.todo /\ NotedOff(s, u).cur = s.cur
BY DEF NotedOff, Reassertion

LEMMA NotedOffMarks ==
  ASSUME NEW s \in Reassertion, NEW u \in Users
  PROVE  \A v \in Users :
           /\ v \in NotedOff(s, u).off <=> v \in s.off \/ (v = u /\ s.pc # "idle")
           /\ v \in NotedOff(s, u).since <=> v \in s.since \/ (v = u /\ v \in s.cur)
BY DEF NotedOff, Reassertion

LEMMA NotedOnRecord ==
  ASSUME NEW s \in Reassertion, NEW u \in Users
  PROVE  /\ NotedOn(s, u) \in Reassertion
         /\ NotedOn(s, u).kind = s.kind /\ NotedOn(s, u).pc = s.pc
         /\ NotedOn(s, u).todo = s.todo /\ NotedOn(s, u).cur = s.cur
         /\ NotedOn(s, u).off = s.off \ {u} /\ NotedOn(s, u).since = s.since \ {u}
BY DEF NotedOn, Reassertion

LEMMA NoteOffGoes ==
  ASSUME SweepOK, NEW u \in Users, NoteOff(u)
  PROVE  /\ SweepOK' /\ fresh' = fresh \cup {u}
         /\ \A q \in Sweeps : IsNotedOff(q, u)
<1>1. \A q \in Sweeps : sweep[q] \in Reassertion /\ sweep'[q] = NotedOff(sweep[q], u)
  BY DEF NoteOff, SweepOK
<1>2. SweepOK'
  <2>1. \A q \in Sweeps : NotedOff(sweep[q], u) \in Reassertion
    BY <1>1, NotedOffRecord
  <2> QED  BY <2>1 DEF NoteOff, SweepOK
<1>3. ASSUME NEW q \in Sweeps PROVE IsNotedOff(q, u)
  <2>1. PICK s \in Reassertion : s = sweep[q]
    BY <1>1
  <2>2. sweep'[q] = NotedOff(s, u)
    BY <1>1, <2>1
  <2>3. /\ sweep'[q].kind = s.kind /\ sweep'[q].pc = s.pc
        /\ sweep'[q].todo = s.todo /\ sweep'[q].cur = s.cur
    BY <2>2, NotedOffRecord
  <2>4. \A v \in Users :
          /\ v \in sweep'[q].off <=> v \in s.off \/ (v = u /\ s.pc # "idle")
          /\ v \in sweep'[q].since <=> v \in s.since \/ (v = u /\ v \in s.cur)
    BY <2>2, NotedOffMarks
  <2> QED  BY <2>1, <2>3, <2>4 DEF IsNotedOff
<1> QED  BY <1>2, <1>3 DEF NoteOff

LEMMA NoteOnGoes ==
  ASSUME SweepOK, NEW u \in Users, NoteOn(u)
  PROVE  /\ SweepOK' /\ fresh' = fresh \ {u}
         /\ \A q \in Sweeps : IsNotedOn(q, u)
<1>1. \A q \in Sweeps : sweep[q] \in Reassertion /\ sweep'[q] = NotedOn(sweep[q], u)
  BY DEF NoteOn, SweepOK
<1>2. SweepOK'
  <2>1. \A q \in Sweeps : NotedOn(sweep[q], u) \in Reassertion
    BY <1>1, NotedOnRecord
  <2> QED  BY <2>1 DEF NoteOn, SweepOK
<1>3. ASSUME NEW q \in Sweeps PROVE IsNotedOn(q, u)
  BY <1>1, NotedOnRecord DEF IsNotedOn, SweepIs
<1> QED  BY <1>2, <1>3 DEF NoteOn

LEMMA StartGoes ==
  ASSUME SweepOK, NEW q \in Sweeps, NEW kind \in {"periodic", "reconnect", "lift"},
         NEW U \in SUBSET Users, StartSweep(q, kind, U), UNCHANGED fresh
  PROVE  SweepGoes(q, kind, "read", U, {}, fresh, {})
BY DEF StartSweep, SweepGoes, SweepIs, SweepOK, Reassertion

LEMMA ReadLiveGoes ==
  ASSUME SweepOK, NEW q \in Sweeps, ReadLive(q)
  PROVE  SweepGoes(q, sweep[q].kind, "next", sweep[q].todo \cap Live, sweep[q].cur,
                   sweep[q].off, sweep[q].since)
BY DEF ReadLive, SweepGoes, SweepIs, SweepOK, Reassertion

LEMMA PassGoes ==
  ASSUME SweepOK, NEW q \in Sweeps, NEW u, UNCHANGED fresh,
         sweep' = [sweep EXCEPT ![q].todo = @ \ {u}]
  PROVE  SweepGoes(q, sweep[q].kind, sweep[q].pc, sweep[q].todo \ {u}, sweep[q].cur,
                   sweep[q].off, sweep[q].since)
BY DEF SweepGoes, SweepIs, SweepOK, Reassertion

LEMMA LiftedGoes ==
  ASSUME SweepOK, NEW q \in Sweeps, NEW u \in Users, AssertLifted(q, u)
  PROVE  /\ SweepOK'
         /\ SweepIs(q, sweep[q].kind, sweep[q].pc, sweep[q].todo \ {u}, sweep[q].cur,
                    sweep[q].off, sweep[q].since)
         /\ \A s \in Sweeps \ {q} : IsNotedOn(s, u)
<1> DEFINE mine == [sweep[q] EXCEPT !.todo = @ \ {u}]
<1>1. sweep[q] \in Reassertion
  BY DEF SweepOK
<1>2. /\ mine \in Reassertion /\ mine.kind = sweep[q].kind /\ mine.pc = sweep[q].pc
      /\ mine.todo = sweep[q].todo \ {u} /\ mine.cur = sweep[q].cur
      /\ mine.off = sweep[q].off /\ mine.since = sweep[q].since
  BY <1>1 DEF Reassertion
<1>3. sweep' = [s \in Sweeps |-> IF s = q THEN mine ELSE NotedOn(sweep[s], u)]
  BY DEF AssertLifted
<1> HIDE DEF mine
<1>4. \A s \in Sweeps : sweep[s] \in Reassertion
  BY DEF SweepOK
<1>5. \A s \in Sweeps : NotedOn(sweep[s], u) \in Reassertion
  BY <1>4, NotedOnRecord
<1>6. SweepOK'
  BY <1>2, <1>3, <1>5 DEF SweepOK, AssertLifted
<1>7. SweepIs(q, sweep[q].kind, sweep[q].pc, sweep[q].todo \ {u}, sweep[q].cur,
              sweep[q].off, sweep[q].since)
  BY <1>2, <1>3 DEF SweepIs
<1>8. ASSUME NEW s \in Sweeps \ {q} PROVE IsNotedOn(s, u)
  BY <1>3, <1>4, NotedOnRecord DEF IsNotedOn, SweepIs
<1> QED  BY <1>6, <1>7, <1>8

LEMMA StoredGoes ==
  ASSUME SweepOK, NEW q \in Sweeps, NEW u \in Users, AssertStored(q, u)
  PROVE  /\ SweepOK'
         /\ SweepIs(q, sweep[q].kind, "send", sweep[q].todo \ {u}, {u},
                    sweep[q].off \ {u}, {})
         /\ \A s \in Sweeps \ {q} : IsNotedOn(s, u)
<1> DEFINE noted == NotedOn(sweep[q], u)
           mine == [noted EXCEPT !.pc = "send", !.todo = @ \ {u}, !.cur = {u}, !.since = {}]
<1>1. \A s \in Sweeps : sweep[s] \in Reassertion
  BY DEF SweepOK
<1>2. /\ noted \in Reassertion /\ noted.kind = sweep[q].kind
      /\ noted.todo = sweep[q].todo /\ noted.off = sweep[q].off \ {u}
  BY <1>1, NotedOnRecord
<1>3. sweep' = [s \in Sweeps |-> IF s = q THEN mine ELSE NotedOn(sweep[s], u)]
  BY DEF AssertStored
<1> HIDE DEF noted
<1>4. /\ mine \in Reassertion /\ mine.kind = sweep[q].kind /\ mine.pc = "send"
      /\ mine.todo = sweep[q].todo \ {u} /\ mine.cur = {u}
      /\ mine.off = sweep[q].off \ {u} /\ mine.since = {}
  BY <1>2 DEF Reassertion
<1> HIDE DEF mine
<1>5. \A s \in Sweeps : NotedOn(sweep[s], u) \in Reassertion
  BY <1>1, NotedOnRecord
<1>6. SweepOK'
  BY <1>3, <1>4, <1>5 DEF SweepOK, AssertStored
<1>7. SweepIs(q, sweep[q].kind, "send", sweep[q].todo \ {u}, {u}, sweep[q].off \ {u}, {})
  BY <1>3, <1>4 DEF SweepIs
<1>8. ASSUME NEW s \in Sweeps \ {q} PROVE IsNotedOn(s, u)
  BY <1>1, <1>3, NotedOnRecord DEF IsNotedOn, SweepIs
<1> QED  BY <1>6, <1>7, <1>8

LEMMA SentGoes ==
  ASSUME SweepOK, NEW q \in Sweeps, SendAssert(q)
  PROVE  SweepGoes(q, sweep[q].kind, "after", sweep[q].todo, sweep[q].cur, sweep[q].off, sweep[q].since)
BY DEF SendAssert, SweepGoes, SweepIs, SweepOK, Reassertion

LEMMA LookedGoes ==
  ASSUME SweepOK, NEW q \in Sweeps, LookAgain(q), sweep[q].cur \cap sweep[q].since = {}
  PROVE  SweepGoes(q, sweep[q].kind, "next", sweep[q].todo, {}, sweep[q].off, {}) /\ UNCHANGED fresh
BY DEF LookAgain, SweepGoes, SweepIs, SweepOK, Reassertion

LEMMA LooksAgain ==
  ASSUME SweepOK, NEW q \in Sweeps, NEW u \in Users, sweep[q].cur = {u}, LookAgain(q),
         u \in sweep[q].since
  PROVE  /\ SweepOK' /\ fresh' = fresh \cup {u}
         /\ SweepIs(q, sweep[q].kind, "repeat", sweep[q].todo, sweep[q].cur, sweep[q].off, sweep[q].since)
         /\ \A s \in Sweeps \ {q} : IsNotedOff(s, u)
<1> DEFINE mine == [sweep[q] EXCEPT !.pc = "repeat"]
<1>1. \A s \in Sweeps : sweep[s] \in Reassertion
  BY DEF SweepOK
<1>2. /\ mine \in Reassertion /\ mine.kind = sweep[q].kind /\ mine.pc = "repeat"
      /\ mine.todo = sweep[q].todo /\ mine.cur = sweep[q].cur
      /\ mine.off = sweep[q].off /\ mine.since = sweep[q].since
  BY <1>1 DEF Reassertion
<1>3. TheOne({u}) = u
  BY DEF TheOne
<1>4. /\ sweep' = [s \in Sweeps |-> IF s = q THEN mine ELSE NotedOff(sweep[s], u)]
      /\ fresh' = fresh \cup {u}
  BY <1>3 DEF LookAgain
<1> HIDE DEF mine
<1>5. \A s \in Sweeps : NotedOff(sweep[s], u) \in Reassertion
  BY <1>1, NotedOffRecord
<1>6. SweepOK'
  BY <1>2, <1>4, <1>5 DEF SweepOK
<1>7. SweepIs(q, sweep[q].kind, "repeat", sweep[q].todo, sweep[q].cur, sweep[q].off, sweep[q].since)
  BY <1>2, <1>4 DEF SweepIs
<1>8. ASSUME NEW s \in Sweeps \ {q} PROVE IsNotedOff(s, u)
  BY <1>1, <1>4, NotedOffRecord, NotedOffMarks DEF IsNotedOff
<1> QED  BY <1>4, <1>6, <1>7, <1>8

LEMMA RepeatGoes ==
  ASSUME SweepOK, NEW q \in Sweeps, Repeat(q)
  PROVE  SweepGoes(q, sweep[q].kind, "next", sweep[q].todo, {}, sweep[q].off, {})
BY DEF Repeat, SweepGoes, SweepIs, SweepOK, Reassertion

LEMMA EndGoes ==
  ASSUME SweepOK, NEW q \in Sweeps, EndSweep(q)
  PROVE  SweepGoes(q, "none", "idle", {}, {}, {}, {})
BY DEF EndSweep, Resting, SweepGoes, SweepIs, SweepOK, Reassertion

-----------------------------------------------------------------------------
(***************************************************************************)
(* What the node will serve.                                               *)
(***************************************************************************)
\* What joins the end of the wire, and what the node then has.
Joins(u, what, stored) ==
  wire' = Append(wire, [user |-> u, what |-> what, stored |-> stored])

LEMMA WireFields ==
  ASSUME WireOK, NEW i \in DOMAIN wire
  PROVE  /\ wire[i].user \in Users /\ wire[i].what \in {"on", "off", "lost"}
         /\ wire[i].stored \in BOOLEAN /\ i \in Nat /\ i > 0 /\ i <= Len(wire)
<1>1. wire[i] \in Command /\ i \in 1..Len(wire) /\ Len(wire) \in Nat
  BY DEF WireOK
<1> QED  BY <1>1 DEF Command

LEMMA JoinsOK ==
  ASSUME WireOK, NEW u \in Users, NEW what \in {"on", "off"}, NEW stored \in BOOLEAN,
         Joins(u, what, stored), UNCHANGED <<connected, node>>
  PROVE  /\ WireOK'
         /\ Len(wire') = Len(wire) + 1 /\ Len(wire) \in Nat
         /\ DOMAIN wire' = 1..Len(wire) + 1 /\ DOMAIN wire = 1..Len(wire)
         /\ \A i \in DOMAIN wire : wire'[i] = wire[i]
         /\ wire'[Len(wire) + 1].user = u /\ wire'[Len(wire) + 1].what = what
<1> DEFINE c == [user |-> u, what |-> what, stored |-> stored]
<1>1. c \in Command /\ c.user = u /\ c.what = what
  BY DEF Command
<1>2. wire' = Append(wire, c) /\ wire \in Seq(Command)
  BY DEF Joins, WireOK
<1> HIDE DEF c
<1>3. /\ wire' \in Seq(Command) /\ Len(wire') = Len(wire) + 1 /\ Len(wire) \in Nat
      /\ \A i \in 1..Len(wire) : wire'[i] = wire[i]
      /\ wire'[Len(wire) + 1] = c
  BY <1>1, <1>2, AppendProperties
<1>4. DOMAIN wire = 1..Len(wire) /\ DOMAIN wire' = 1..Len(wire')
  BY <1>2, <1>3
<1> QED  BY <1>1, <1>3, <1>4 DEF WireOK

LEMMA OnJoins ==
  ASSUME WireOK, NEW u \in Users, NEW stored \in BOOLEAN, Joins(u, "on", stored),
         UNCHANGED <<connected, node>>, NEW v \in Users, WillServe(v)'
  PROVE  WillServe(v) \/ v = u
<1> SUFFICES ASSUME v # u PROVE WillServe(v)
  OBVIOUS
<1>1. /\ DOMAIN wire' = 1..Len(wire) + 1 /\ DOMAIN wire = 1..Len(wire) /\ Len(wire) \in Nat
      /\ \A i \in DOMAIN wire : wire'[i] = wire[i]
      /\ wire'[Len(wire) + 1].user = u
  BY JoinsOK
<1>2. \A i \in DOMAIN wire' : Says(i, v, "on")' => i \in DOMAIN wire /\ Says(i, v, "on")
  BY <1>1 DEF Says
<1>3. \A i \in DOMAIN wire : i \in DOMAIN wire' /\ (Says(i, v, "off") => Says(i, v, "off")')
  BY <1>1 DEF Says
<1> QED  BY <1>2, <1>3 DEF WillServe

LEMMA OffJoins ==
  ASSUME WireOK, NEW u \in Users, NEW stored \in BOOLEAN, Joins(u, "off", stored),
         UNCHANGED <<connected, node>>, NEW v \in Users, WillServe(v)'
  PROVE  WillServe(v) /\ v # u
<1>1. /\ DOMAIN wire' = 1..Len(wire) + 1 /\ DOMAIN wire = 1..Len(wire) /\ Len(wire) \in Nat
      /\ \A i \in DOMAIN wire : wire'[i] = wire[i]
      /\ wire'[Len(wire) + 1].user = u /\ wire'[Len(wire) + 1].what = "off"
  BY JoinsOK
<1>2. \A i \in DOMAIN wire' : Says(i, v, "on")' => i \in DOMAIN wire /\ Says(i, v, "on")
  BY <1>1 DEF Says
<1>3. \A i \in DOMAIN wire : i \in DOMAIN wire' /\ (Says(i, v, "off") => Says(i, v, "off")')
  BY <1>1 DEF Says
<1>4. WillServe(v)
  BY <1>2, <1>3 DEF WillServe
<1>5. ASSUME v = u PROVE FALSE
  <2>1. PICK n \in Nat : n = Len(wire) + 1
    BY <1>1
  <2>2. n \in DOMAIN wire' /\ Says(n, v, "off")'
    BY <1>1, <1>5, <2>1 DEF Says
  <2>3. PICK j \in DOMAIN wire' : j > n
    BY <2>2 DEF WillServe
  <2> QED  BY <1>1, <2>1, <2>3
<1> QED  BY <1>4, <1>5

\* Only what is stored switches off.
OffsStored == \A i \in DOMAIN wire : wire[i].what = "off" => wire[i].stored

LEMMA Loses ==
  ASSUME WireOK, LoseUnstored, UNCHANGED node, connected' \in BOOLEAN
  PROVE  /\ WireOK' /\ (OffsStored => OffsStored')
         /\ OffsStored => \A v \in Users : WillServe(v)' => WillServe(v)
<1>1. /\ DOMAIN wire = 1..Len(wire) /\ Len(wire) \in Nat
      /\ \A i \in DOMAIN wire : wire[i] \in Command
  BY DEF WireOK
<1>2. ASSUME NEW i \in DOMAIN wire
      PROVE  /\ wire'[i] \in Command /\ wire'[i].user = wire[i].user
             /\ wire'[i].what = wire[i].what \/ wire'[i].what = "lost"
             /\ wire[i].stored => wire'[i] = wire[i]
             /\ wire'[i].stored = wire[i].stored
  BY <1>1, <1>2 DEF LoseUnstored, Command
<1>3. wire' \in Seq(Command) /\ DOMAIN wire' = DOMAIN wire
  BY <1>1, <1>2 DEF LoseUnstored
<1>4. \A i \in DOMAIN wire' : wire'[i].what = "off" => wire[i].what = "off"
  BY <1>2, <1>3
<1>5. OffsStored => OffsStored'
  BY <1>2, <1>3, <1>4 DEF OffsStored
<1>6. ASSUME OffsStored, NEW v \in Users, WillServe(v)' PROVE WillServe(v)
  <2>1. \A i \in DOMAIN wire : Says(i, v, "on")' => Says(i, v, "on")
    BY <1>2 DEF Says
  <2>2. \A i \in DOMAIN wire : Says(i, v, "off") => Says(i, v, "off")'
    BY <1>2, <1>6 DEF Says, OffsStored
  <2> QED  BY <1>3, <1>6, <2>1, <2>2 DEF WillServe
<1> QED  BY <1>3, <1>5, <1>6 DEF WireOK

\* What is carried out leaves it to serve what it would have served.
LEMMA Executes ==
  ASSUME WireOK, Execute
  PROVE  /\ WireOK' /\ (OffsStored => OffsStored')
         /\ \A v \in Users : WillServe(v)' => WillServe(v)
<1>1. /\ wire' = Tail(wire) /\ wire # <<>> /\ wire \in Seq(Command)
      /\ DOMAIN wire = 1..Len(wire) /\ Len(wire) \in Nat /\ Len(wire) > 0
  BY DEF WireOK, Execute
<1>2. /\ wire' \in Seq(Command) /\ Len(wire') = Len(wire) - 1
      /\ \A i \in 1..Len(wire') : wire'[i] = wire[i + 1]
      /\ Head(wire) = wire[1] /\ 1 \in DOMAIN wire
  BY <1>1, HeadTailProperties
<1>3. DOMAIN wire' = 1..Len(wire')
  BY <1>2
<1>4. /\ \A i \in DOMAIN wire' : i \in Nat /\ i > 0 /\ i + 1 \in DOMAIN wire /\ wire'[i] = wire[i + 1]
      /\ \A i \in DOMAIN wire : i \in Nat /\ i > 0 /\ (i # 1 => i - 1 \in DOMAIN wire' /\ wire'[i - 1] = wire[i])
  BY <1>1, <1>2, <1>3
<1>5. /\ wire[1].user \in Users /\ wire[1].what \in {"on", "off", "lost"}
      /\ node' = CASE wire[1].what = "on" -> node \cup {wire[1].user}
                   [] wire[1].what = "off" -> node \ {wire[1].user}
                   [] OTHER -> node
  BY <1>2, WireFields DEF Execute
<1>6. WireOK'
  BY <1>2, <1>5 DEF WireOK, Execute
<1>7. OffsStored => OffsStored'
  BY <1>4 DEF OffsStored
<1>8. ASSUME NEW v \in Users, WillServe(v)' PROVE WillServe(v)
  <2>1. v \in node' \/ \E i \in DOMAIN wire' : wire'[i].user = v /\ wire'[i].what = "on"
    BY <1>8 DEF WillServe, Says
  <2>2. \A i \in DOMAIN wire' : wire'[i].user = v /\ wire'[i].what = "off" =>
          \E j \in DOMAIN wire' : j > i /\ wire'[j].user = v /\ wire'[j].what = "on"
    BY <1>8 DEF WillServe, Says
  <2>3. v \in node \/ \E i \in DOMAIN wire : wire[i].user = v /\ wire[i].what = "on"
    BY <1>2, <1>4, <1>5, <2>1
  <2>4. ASSUME NEW i \in DOMAIN wire, wire[i].user = v, wire[i].what = "off"
        PROVE  \E j \in DOMAIN wire : j > i /\ wire[j].user = v /\ wire[j].what = "on"
    <3>1. CASE i = 1
      <4>1. v \notin node'
        BY <1>5, <2>4, <3>1
      <4>2. PICK k \in DOMAIN wire' : wire'[k].user = v /\ wire'[k].what = "on"
        BY <2>1, <4>1
      <4> QED  BY <1>4, <3>1, <4>2
    <3>2. CASE i # 1
      <4>1. /\ i - 1 \in DOMAIN wire' /\ wire'[i - 1] = wire[i]
        BY <1>4, <3>2
      <4>2. PICK j \in DOMAIN wire' : j > i - 1 /\ wire'[j].user = v /\ wire'[j].what = "on"
        BY <2>2, <2>4, <4>1
      <4>3. j + 1 \in DOMAIN wire /\ j + 1 > i /\ wire[j + 1] = wire'[j]
        BY <1>4, <4>2
      <4> QED  BY <4>2, <4>3
    <3> QED  BY <3>1, <3>2
  <2> QED  BY <2>3, <2>4 DEF WillServe, Says
<1> QED  BY <1>6, <1>7, <1>8

-----------------------------------------------------------------------------
(***************************************************************************)
(* Types.                                                                  *)
(***************************************************************************)
LEMMA RowsStay == ASSUME RowsOK, UNCHANGED rows PROVE RowsOK'
BY DEF RowsOK, rows, Exists

LEMMA OpsStay == ASSUME OpOK, UNCHANGED op PROVE OpOK'
BY DEF OpOK

LEMMA SweepsStay == ASSUME SweepOK, UNCHANGED <<sweep, fresh>> PROVE SweepOK'
BY DEF SweepOK

LEMMA WireStays == ASSUME WireOK, UNCHANGED <<wire, connected, node>> PROVE WireOK'
BY DEF WireOK

Kinds == {"disable", "enable", "create", "fetch", "remove", "hold", "off"}

LEMMA BeginsOK ==
  ASSUME TInv, NEW p \in Ops, Begins(p) \/ \E u \in Users : SweepSessions(p, u)
  PROVE  TInv'
<1> USE DEF TInv
<1>1. SweepOK' /\ WireOK'
  <2>1. UNCHANGED <<sweep, fresh>> /\ UNCHANGED <<wire, connected, node>>
    BY DEF Begins, SweepSessions, EndSubscription, Renew, DisableCustomer, EnableCustomer,
           SetEnabled, Provision, Remove, Fetch, SignOut, Hold
  <2> QED  BY <2>1, SweepsStay, WireStays
<1>2. OpOK' /\ RowsOK'
  <2>1. CASE EndSubscription(p)
    <3>1. OpOK'
      BY <2>1, BeginTurns DEF EndSubscription, Turns
    <3> QED  BY <2>1, <3>1 DEF EndSubscription, RowsOK, Exists
  <2>2. CASE Renew(p)
    <3>1. OpOK'
      BY <2>2, BeginTurns DEF Renew, Turns
    <3> QED  BY <2>2, <3>1 DEF Renew, RowsOK, Exists
  <2>3. CASE DisableCustomer(p)
    <3>1. OpOK'
      BY <2>3, BeginTurns DEF DisableCustomer, Turns, RowsOK
    <3> QED  BY <2>3, <3>1 DEF DisableCustomer, RowsOK, Exists
  <2>4. CASE EnableCustomer(p)
    <3>1. OpOK'
      BY <2>4, BeginTurns, OpsStay, Users \ devices \in SUBSET Users DEF EnableCustomer, Turns
    <3> QED  BY <2>4, <3>1 DEF EnableCustomer, RowsOK, Exists
  <2>5. ASSUME NEW u \in Users, NEW kind \in {"enable", "disable"}, SetEnabled(p, u, kind)
        PROVE  OpOK' /\ RowsOK'
    BY <2>5, SwitchTurns, RowsStay DEF SetEnabled, Turns
  <2>6. ASSUME NEW u \in Users, Provision(p, u) \/ Remove(p, u) \/ Fetch(p, u) \/ SweepSessions(p, u)
        PROVE  OpOK' /\ RowsOK'
    BY <2>6, BeginTurns, RowsStay, {u} \in SUBSET Users
    DEF Provision, Remove, Fetch, SweepSessions, Turns
  <2>7. ASSUME NEW u \in Users, SignOut(p, u) PROVE OpOK' /\ RowsOK'
    <3>1. OpOK'
      BY <2>7, BeginTurns, {u} \in SUBSET Users DEF SignOut, Turns
    <3> QED  BY <2>7, <3>1 DEF SignOut, RowsOK, Exists
  <2>8. ASSUME NEW U \in SUBSET Users, Hold(p, U) PROVE OpOK' /\ RowsOK'
    BY <2>8, BeginTurns, RowsStay DEF Hold, Turns
  <2> QED  BY <2>1, <2>2, <2>3, <2>4, <2>5, <2>6, <2>7, <2>8 DEF Begins
<1> QED  BY <1>1, <1>2

LEMMA RowWritten ==
  ASSUME RowsOK, NEW p, NEW u \in Users, NEW status \in {"ACTIVE", "DISABLED", "gone"},
         WriteRow(p, u, status)
  PROVE  RowsOK'
<1>1. row' \in [Users -> {"none", "ACTIVE", "DISABLED", "gone"}]
  BY DEF RowsOK, WriteRow
<1>2. held' \subseteq {v \in Users : Exists(v)'}
  BY DEF RowsOK, WriteRow, Exists
<1> QED  BY <1>1, <1>2 DEF RowsOK, WriteRow

LEMMA StepsOK ==
  ASSUME TInv, NEW p \in Ops, Step(p) \/ RemoveFails(p)
  PROVE  TInv'
<1> USE DEF TInv
<1>1. CASE ReadRows(p)
  BY <1>1, ReadGoes, RowsStay, SweepsStay, WireStays DEF ReadRows, Goes
<1>2. CASE Lease(p)
  <2>1. OpOK'
    BY <1>2, LeaseGoes DEF Goes
  <2>2. RowsOK'
    BY <1>2, Fields DEF Lease, RowsOK, Exists
  <2> QED  BY <1>2, <2>1, <2>2, SweepsStay, WireStays DEF Lease
<1>3. CASE NoteSwitchOn(p)
  <2>1. PICK u \in op[p].cur : NoteOn(u)
    BY <1>3 DEF NoteSwitchOn
  <2>2. u \in Users
    BY <2>1, Fields
  <2> QED  BY <1>3, <2>1, <2>2, NoteGoes, NoteOnGoes, RowsStay, WireStays DEF NoteSwitchOn, Goes
<1>4. CASE SendCommand(p)
  <2>1. PICK u \in op[p].cur, what \in {"on", "off"} : Send(u, what)
    BY <1>4 DEF SendCommand
  <2>2. u \in Users /\ Joins(u, what, TRUE)
    BY <2>1, Fields DEF Send, Joins
  <2>3. WireOK'
    BY <1>4, <2>2, JoinsOK DEF SendCommand
  <2> QED  BY <1>4, <2>3, SendGoes, RowsStay, SweepsStay DEF SendCommand, Goes
<1>5. CASE EndOp(p)
  BY <1>5, EndTurns, RowsStay, SweepsStay, WireStays DEF EndOp, Turns
<1>6. ASSUME NEW u \in Users, SwitchOff(p, u) PROVE TInv'
  BY <1>6, AtGoes, NoteOffGoes, RowsStay, WireStays DEF SwitchOff, Goes
<1>7. ASSUME NEW u \in Users, SwitchOn(p, u) PROVE TInv'
  <2>1. PICK pc \in {"note", "send", "write"} : At(p, u, pc)
    BY <1>7 DEF SwitchOn
  <2> QED  BY <1>7, <2>1, AtGoes, RowsStay, SweepsStay, WireStays DEF SwitchOn, Goes
<1>8. ASSUME NEW u \in Users, Insert(p, u) PROVE TInv'
  <2>1. OpOK'
    BY <1>8, AtGoes DEF Insert, Goes
  <2>2. RowsOK'
    BY <1>8 DEF Insert, RowsOK, Exists
  <2> QED  BY <1>8, <2>1, <2>2, SweepsStay, WireStays DEF Insert
<1>9. ASSUME NEW u \in Users, Finished(p, u) PROVE TInv'
  <2>1. OpOK'
    BY <1>9, OnwardGoes DEF Finished, WriteRow, Goes
  <2>2. RowsOK'
    BY <1>9, RowWritten, RowsStay DEF Finished
  <2> QED  BY <1>9, <2>1, <2>2, SweepsStay, WireStays DEF Finished, WriteRow
<1>10. ASSUME NEW u \in Users, Abort(p, u) PROVE TInv'
  BY <1>10, Turned, IdleOp, RowsStay, SweepsStay, WireStays DEF Abort, Turns
<1>11. ASSUME NEW u \in Users, Recheck(p, u) PROVE TInv'
  <2>1. CASE paid
    BY <1>11, <2>1, OnwardGoes, RowsStay, SweepsStay, WireStays DEF Recheck, Goes
  <2>2. CASE ~paid
    BY <1>11, <2>2, RecheckGoes, NoteOffGoes, RowsStay, WireStays DEF Recheck, Goes
  <2> QED  BY <2>1, <2>2
<1>12. CASE RemoveFails(p)
  <2>1. OpOK'
    BY <1>12, SkipGoes, OnwardGoes DEF RemoveFails, Goes
  <2> QED  BY <1>12, <2>1, RowsStay, SweepsStay, WireStays DEF RemoveFails
<1> QED  BY <1>1, <1>2, <1>3, <1>4, <1>5, <1>6, <1>7, <1>8, <1>9, <1>10, <1>11, <1>12 DEF Step

LEMMA WroteReassert ==
  ASSUME WireOK, NEW u \in Users, WriteReassert(u), UNCHANGED <<connected, node>>
  PROVE  WireOK' /\ (Joins(u, "on", FALSE) \/ UNCHANGED wire)
<1>1. CASE connected
  <2>1. Joins(u, "on", FALSE)
    BY <1>1 DEF WriteReassert, Joins
  <2> QED  BY <2>1, JoinsOK
<1>2. CASE ~connected
  BY <1>2 DEF WriteReassert, WireOK
<1> QED  BY <1>1, <1>2 DEF WireOK

LEMMA SweepsOK ==
  ASSUME TInv, NEW q \in Sweeps, SweepStep(q)
  PROVE  TInv'
<1> USE DEF TInv
<1>1. CASE ReadLive(q)
  BY <1>1, ReadLiveGoes, RowsStay, OpsStay, WireStays DEF ReadLive, SweepGoes
<1>2. CASE SendAssert(q)
  <2>1. PICK u \in sweep[q].cur : Send(u, "on")
    BY <1>2 DEF SendAssert
  <2>2. u \in Users /\ Joins(u, "on", TRUE)
    BY <2>1, SweepFields DEF Send, Joins
  <2>3. WireOK'
    BY <1>2, <2>2, JoinsOK DEF SendAssert
  <2> QED  BY <1>2, <2>3, SentGoes, RowsStay, OpsStay DEF SendAssert, SweepGoes
<1>3. CASE LookAgain(q)
  <2>1. SweepOK'
    <3>1. CASE sweep[q].cur \cap sweep[q].since = {}
      BY <1>3, <3>1, LookedGoes DEF SweepGoes
    <3>2. CASE sweep[q].cur \cap sweep[q].since # {}
      <4>1. PICK u : u = TheOne(sweep[q].cur)
        OBVIOUS
      <4>2. u \in sweep[q].cur
        BY <3>2, <4>1 DEF TheOne
      <4>3. /\ fresh' = fresh \cup sweep[q].cur
            /\ sweep' = [s \in Sweeps |-> IF s = q THEN [sweep[q] EXCEPT !.pc = "repeat"]
                                                  ELSE NotedOff(sweep[s], u)]
        BY <1>3, <3>2, <4>1 DEF LookAgain
      <4>4. [sweep[q] EXCEPT !.pc = "repeat"] \in Reassertion
        BY DEF SweepOK, Reassertion
      <4>5. \A s \in Sweeps : NotedOff(sweep[s], u) \in Reassertion
        BY <4>2, SweepFields, NotedOffRecord DEF SweepOK
      <4> QED  BY <4>3, <4>4, <4>5, SweepFields DEF SweepOK
    <3> QED  BY <3>1, <3>2
  <2> QED  BY <1>3, <2>1, RowsStay, OpsStay, WireStays DEF LookAgain
<1>4. CASE Repeat(q)
  <2>1. PICK u \in sweep[q].cur : Send(u, "off")
    BY <1>4 DEF Repeat
  <2>2. u \in Users /\ Joins(u, "off", TRUE)
    BY <2>1, SweepFields DEF Send, Joins
  <2>3. WireOK'
    BY <1>4, <2>2, JoinsOK DEF Repeat
  <2> QED  BY <1>4, <2>3, RepeatGoes, RowsStay, OpsStay DEF Repeat, SweepGoes
<1>5. CASE EndSweep(q)
  BY <1>5, EndGoes, RowsStay, OpsStay, WireStays DEF EndSweep, SweepGoes
<1>6. ASSUME NEW u \in Users, Skip(q, u) PROVE TInv'
  BY <1>6, PassGoes, RowsStay, OpsStay, WireStays DEF Skip, SweepGoes
<1>7. ASSUME NEW u \in Users, AssertNow(q, u) PROVE TInv'
  BY <1>7, PassGoes, WroteReassert, RowsStay, OpsStay DEF AssertNow, SweepGoes
<1>8. ASSUME NEW u \in Users, AssertLifted(q, u) PROVE TInv'
  BY <1>8, LiftedGoes, WroteReassert, RowsStay, OpsStay DEF AssertLifted
<1>9. ASSUME NEW u \in Users, AssertStored(q, u) PROVE TInv'
  BY <1>9, StoredGoes, RowsStay, OpsStay, WireStays DEF AssertStored
<1> QED  BY <1>1, <1>2, <1>3, <1>4, <1>5, <1>6, <1>7, <1>8, <1>9 DEF SweepStep

LEMMA RestingSweep == Resting \in Reassertion
BY DEF Resting, Reassertion

LEMMA RestOK ==
  ASSUME TInv,
         \/ \E u \in Users : Lapse(u) \/ Age(u)
         \/ \E q \in Sweeps : Periodic(q) \/ Reconnect(q) \/ \E U \in SUBSET Users : LiftHold(q, U)
         \/ Execute \/ Disconnect \/ EngineRestarts \/ Restart
  PROVE  TInv'
<1> USE DEF TInv
<1>1. ASSUME NEW u \in Users, Lapse(u) PROVE TInv'
  <2>1. RowsOK'
    BY <1>1 DEF Lapse, RowsOK, Exists
  <2> QED  BY <1>1, <2>1, OpsStay, SweepsStay, WireStays DEF Lapse
<1>2. ASSUME NEW u \in Users, Age(u) PROVE TInv'
  <2>1. SweepOK'
    BY <1>2 DEF Age, SweepOK
  <2> QED  BY <1>2, <2>1, RowsStay, OpsStay, WireStays DEF Age
<1>3. ASSUME NEW q \in Sweeps, Periodic(q) PROVE TInv'
  BY <1>3, StartGoes, RowsStay, OpsStay, WireStays DEF Periodic, SweepGoes
<1>4. ASSUME NEW q \in Sweeps, Reconnect(q) PROVE TInv'
  <2>1. SweepOK'
    BY <1>4, StartGoes DEF Reconnect, SweepGoes
  <2>2. WireOK'
    BY <1>4 DEF Reconnect, WireOK
  <2> QED  BY <1>4, <2>1, <2>2, RowsStay, OpsStay DEF Reconnect
<1>5. ASSUME NEW q \in Sweeps, NEW U \in SUBSET Users, LiftHold(q, U) PROVE TInv'
  <2>1. SweepOK'
    BY <1>5, StartGoes DEF LiftHold, SweepGoes
  <2>2. RowsOK'
    BY <1>5 DEF LiftHold, RowsOK, Exists
  <2> QED  BY <1>5, <2>1, <2>2, OpsStay, WireStays DEF LiftHold
<1>6. CASE Execute
  BY <1>6, Executes, RowsStay, OpsStay, SweepsStay DEF Execute
<1>7. CASE Disconnect
  BY <1>7, Loses, RowsStay, OpsStay, SweepsStay DEF Disconnect
<1>8. CASE EngineRestarts
  <2>1. WireOK'
    BY <1>8 DEF EngineRestarts, WireOK
  <2> QED  BY <1>8, <2>1, RowsStay, OpsStay, SweepsStay DEF EngineRestarts
<1>9. CASE Restart
  <2>1. WireOK'
    BY <1>9, Loses DEF Restart
  <2>2. OpOK' /\ SweepOK'
    BY <1>9, IdleOp, RestingSweep DEF Restart, OpOK, SweepOK
  <2> QED  BY <1>9, <2>1, <2>2, RowsStay DEF Restart
<1> QED  BY <1>1, <1>2, <1>3, <1>4, <1>5, <1>6, <1>7, <1>8, <1>9

LEMMA TypesStay == ASSUME TInv, [Next]_vars PROVE TInv'
<1>1. CASE UNCHANGED vars
  BY <1>1, RowsStay, OpsStay, SweepsStay, WireStays DEF TInv, vars, rows
<1>2. CASE Next
  BY <1>2, BeginsOK, StepsOK, SweepsOK, RestOK DEF Next
<1> QED  BY <1>1, <1>2

LEMMA TypesBegin == ASSUME Init PROVE TInv
<1>1. <<>> \in Seq(Command)
  OBVIOUS
<1>2. OpOK /\ SweepOK
  BY IdleOp, RestingSweep DEF Init, OpOK, SweepOK
<1> QED  BY <1>1, <1>2 DEF Init, TInv, RowsOK, WireOK, Exists

\* Whatever operations, re-asserts, lost streams and restarts come together,
\* rows, operations, re-asserts and commands keep the shapes the code gives them,
\* and what is held is a credential that exists.
THEOREM TypeCorrect == Spec => []TypeOK
<1>1. Init => TInv
  BY TypesBegin
<1>2. TInv /\ [Next]_vars => TInv'
  BY TypesStay
<1>3. TInv => TypeOK
  BY Types
<1> QED  BY <1>1, <1>2, <1>3, PTL DEF Spec

-----------------------------------------------------------------------------
(***************************************************************************)
(* The operations among themselves, and the rows they work through.        *)
(***************************************************************************)
OffKinds == {"disable", "off", "hold", "remove"}
OnKinds == {"enable", "create", "fetch"}

\* An operation by itself: it is at one credential, or between two.
Formed(r) ==
  /\ r.pc = "idle" <=> r.kind = "none"
  /\ (r.cur # {}) <=> r.pc \in {"note", "send", "write"}
  /\ \A u, v \in r.cur : u = v
  /\ r.pc = "lease" => r.kind = "hold"
  /\ r.pc = "note" => r.kind \in OnKinds
  /\ r.kind \in {"fetch", "off"} => r.lock
  /\ r.kind = "disable" /\ r.lock => r.todo = {}
  /\ r.then = "create" => r.kind = "enable"
  /\ r.then = "off" => r.kind = "remove" /\ r.lock

\* What it makes has no row before and a live one after; what it switches on or
\* removes has one.
Making(p) ==
  op[p].kind \in {"create", "fetch"} /\ op[p].pc # "rows" =>
    /\ \A u \in op[p].todo : row[u] = "none"
    /\ \A u \in op[p].cur : Exists(u) /\ u \notin held /\ (paid => row[u] = "ACTIVE")

Creating(p) ==
  op[p].kind = "create" =>
    /\ (op[p].todo \cup op[p].cur) \cap devices = {}
    /\ op[p].pc # "rows" /\ op[p].todo \cup op[p].cur # {} => paid /\ enabled

FetchingOne(p) ==
  op[p].kind = "fetch" =>
    /\ op[p].todo \cup op[p].cur \subseteq devices
    /\ \A u, v \in op[p].todo \cup op[p].cur : u = v
    /\ op[p].todo = {} \/ op[p].cur = {}

Enabling(p) ==
  op[p].kind = "enable" /\ op[p].pc # "rows" =>
    /\ \A u \in op[p].todo \cup op[p].cur : Exists(u)
    /\ op[p].pc \in {"note", "send"} => \A u \in op[p].cur : LiveOnceActive(u)

SwitchingOff(p) ==
  /\ op[p].kind = "disable" /\ op[p].pc = "rows" => ~paid
  /\ op[p].kind \in OffKinds /\ op[p].pc # "rows" =>
       \A u \in op[p].todo \cup op[p].cur : row[u] # "none"
  /\ ~Aborts /\ op[p].kind = "disable" /\ ~op[p].lock /\ op[p].pc # "rows" =>
       \A u \in op[p].todo \cup op[p].cur : Exists(u)

Removing(p) ==
  op[p].kind = "remove" =>
    IF op[p].lock THEN op[p].todo \cup op[p].cur \subseteq signedOut
                  ELSE \A u \in op[p].todo \cup op[p].cur : row[u] # "none"

RowsFit(p) ==
  Making(p) /\ Creating(p) /\ FetchingOne(p) /\ Enabling(p) /\ SwitchingOff(p) /\ Removing(p)

\* Two operations: one that switches on runs alone, the lock is one's, and a
\* credential that is being fetched is disabled at most, by the end of its
\* subscription.
Together(p, o) ==
  /\ p # o /\ op[p].kind \in {"enable", "create"} => op[o].kind = "none"
  /\ ~(op[p].kind = "fetch" /\ op[o].kind = "hold")
  /\ ~Aborts /\ op[p].kind = "disable" /\ op[o].kind = "remove" => op[p].lock
  /\ Locked(p) /\ Locked(o) => p = o
  /\ op[o].kind = "fetch" =>
       \A u \in op[o].cur :
         /\ op[p].kind \in OffKinds /\ op[p].pc # "rows" /\ u \in op[p].todo \cup op[p].cur =>
              ~paid /\ op[p].kind = "disable"
         /\ op[p].kind = "remove" /\ ~op[p].lock => u \notin op[p].todo \cup op[p].cur

Customer == ~enabled => signedOut = devices

LEMMA CustomerStays == ASSUME TInv, Customer, [Next]_vars PROVE Customer'
<1>1. CASE UNCHANGED <<devices, enabled, signedOut>>
  BY <1>1 DEF Customer
<1>2. ASSUME NEW p \in Ops, DisableCustomer(p) \/ EnableCustomer(p) PROVE Customer'
  BY <1>2 DEF Customer, DisableCustomer, EnableCustomer
<1>3. ASSUME NEW p \in Ops, NEW u \in Users, SignOut(p, u) PROVE Customer'
  BY <1>3 DEF Customer, SignOut
<1>4. ASSUME NEW p \in Ops, Begins(p) PROVE Customer'
  <2>1. CASE EndSubscription(p) \/ Renew(p)
    BY <1>1, <2>1 DEF EndSubscription, Renew
  <2>2. ASSUME NEW u \in Users, NEW kind \in {"enable", "disable"}, SetEnabled(p, u, kind)
        PROVE  Customer'
    BY <1>1, <2>2 DEF SetEnabled, rows
  <2>3. ASSUME NEW u \in Users, Provision(p, u) \/ Remove(p, u) \/ Fetch(p, u) PROVE Customer'
    BY <1>1, <2>3 DEF Provision, Remove, Fetch, rows
  <2>4. ASSUME NEW U \in SUBSET Users, Hold(p, U) PROVE Customer'
    BY <1>1, <2>4 DEF Hold, rows
  <2> QED  BY <1>2, <1>3, <1>4, <2>1, <2>2, <2>3, <2>4 DEF Begins
<1>5. ASSUME NEW p \in Ops, Step(p) \/ RemoveFails(p) PROVE Customer'
  <2>1. CASE ReadRows(p) \/ Lease(p) \/ NoteSwitchOn(p) \/ SendCommand(p) \/ EndOp(p) \/ RemoveFails(p)
    BY <1>1, <2>1 DEF ReadRows, Lease, NoteSwitchOn, SendCommand, EndOp, RemoveFails, rows
  <2>2. ASSUME NEW u \in Users, SwitchOff(p, u) \/ SwitchOn(p, u) \/ Insert(p, u) PROVE Customer'
    BY <1>1, <2>2 DEF SwitchOff, SwitchOn, Insert, rows
  <2>3. ASSUME NEW u \in Users, Finished(p, u) \/ Abort(p, u) \/ Recheck(p, u) PROVE Customer'
    BY <1>1, <2>3 DEF Finished, WriteRow, Abort, Recheck, rows
  <2> QED  BY <1>5, <2>1, <2>2, <2>3 DEF Step
<1>6. ASSUME NEW q \in Sweeps, SweepStep(q) PROVE Customer'
  <2>1. CASE ReadLive(q) \/ SendAssert(q) \/ LookAgain(q) \/ Repeat(q) \/ EndSweep(q)
    BY <1>1, <2>1 DEF ReadLive, SendAssert, LookAgain, Repeat, EndSweep, rows
  <2>2. ASSUME NEW u \in Users, Skip(q, u) \/ AssertNow(q, u) \/ AssertLifted(q, u) \/ AssertStored(q, u)
        PROVE  Customer'
    BY <1>1, <2>2 DEF Skip, AssertNow, AssertLifted, AssertStored, rows
  <2> QED  BY <1>6, <2>1, <2>2 DEF SweepStep
<1>7. ASSUME NEW q \in Sweeps, Periodic(q) \/ Reconnect(q) \/ \E U \in SUBSET Users : LiftHold(q, U)
      PROVE  Customer'
  BY <1>1, <1>7 DEF Periodic, Reconnect, LiftHold, rows
<1>8. ASSUME NEW u \in Users, Lapse(u) \/ Age(u) \/ \E p \in Ops : SweepSessions(p, u) PROVE Customer'
  BY <1>1, <1>8 DEF Lapse, Age, SweepSessions, rows
<1>9. CASE Execute \/ Disconnect \/ EngineRestarts \/ Restart
  BY <1>1, <1>9 DEF Execute, Disconnect, EngineRestarts, Restart, rows
<1>10. CASE UNCHANGED vars
  BY <1>1, <1>10 DEF vars, rows
<1> QED  BY <1>4, <1>5, <1>6, <1>7, <1>8, <1>9, <1>10 DEF Next

\* Nothing is under way, and what the node serves is live, or is for the hourly
\* sweep to remove: so it is at the start, and again whenever all that was begun
\* has come out right, whatever came before.
InOrder ==
  /\ \A p \in Ops : op[p] = Idle
  /\ \A q \in Sweeps : sweep[q] = Resting
  /\ wire = <<>>
  /\ \A u \in node : u \in Live \/ SweepDue(u)

OInv ==
  /\ Customer
  /\ \A p \in Ops : Formed(op[p]) /\ RowsFit(p)
  /\ \A p, o \in Ops : Together(p, o)

LEMMA Gathered ==
  ASSUME OInv, NEW p \in Ops, \A o \in Ops \ {p} : op'[o] = op[o], paid' => paid, Customer',
         Formed(op[p])', \A o \in Ops : RowsFit(o)',
         \A o \in Ops : Together(p, o)' /\ Together(o, p)'
  PROVE  OInv'
<1>1. \A o \in Ops : Formed(op[o])'
  BY DEF OInv, Formed
<1>2. ASSUME NEW o \in Ops \ {p}, NEW r \in Ops \ {p} PROVE Together(o, r)'
  <2>1. Together(o, r) /\ op'[o] = op[o] /\ op'[r] = op[r]
    BY DEF OInv
  <2> QED  BY <2>1 DEF Together, Locked
<1> QED  BY <1>1, <1>2 DEF OInv

\* While the rows stay, so do the operations that do.
LEMMA RowsFitStays ==
  ASSUME UNCHANGED rows, NEW o \in Ops, op'[o] = op[o], RowsFit(o)
  PROVE  RowsFit(o)'
BY DEF rows, RowsFit, Making, Creating, FetchingOne, Enabling, SwitchingOff, Removing,
       Exists, LiveOnceActive

LEMMA GatheredHere ==
  ASSUME OInv, NEW p \in Ops, \A o \in Ops \ {p} : op'[o] = op[o], UNCHANGED rows,
         Formed(op[p])', RowsFit(p)',
         \A o \in Ops : Together(p, o)' /\ Together(o, p)'
  PROVE  OInv'
<1>1. \A o \in Ops : RowsFit(o)'
  BY RowsFitStays DEF OInv
<1>2. Customer' /\ (paid' => paid)
  BY DEF OInv, Customer, rows
<1> QED  BY <1>1, <1>2, Gathered

\* An operation that goes on with what it has keeps its place among the others.
LEMMA Narrows ==
  ASSUME OInv, NEW p \in Ops, NEW pc \in {"next", "note", "send", "write"}, NEW todo, NEW cur,
         Goes(p, op[p].kind, pc, todo, cur), op[p].pc \notin {"idle", "rows"}, paid' => paid,
         todo \cup cur \subseteq op[p].todo \cup op[p].cur,
         op[p].kind = "fetch" => cur \subseteq op[p].cur
  PROVE  \A o \in Ops : Together(p, o)' /\ Together(o, p)'
<1> TAKE o \in Ops
<1>1. Together(p, o) /\ Together(o, p) /\ Together(p, p)
  BY DEF OInv
<1>2. Locked(p)' <=> Locked(p)
  BY DEF Locked, Goes
<1>3. CASE o = p
  BY <1>1, <1>3 DEF Together, Goes
<1>4. CASE o # p
  <2>1. op'[o] = op[o] /\ (Locked(o)' <=> Locked(o))
    BY <1>4 DEF Goes, Locked
  <2>2. Together(p, o)'
    BY <1>1, <1>2, <1>4, <2>1 DEF Together, Goes
  <2>3. Together(o, p)'
    BY <1>1, <1>2, <1>4, <2>1 DEF Together, Goes
  <2> QED  BY <2>2, <2>3
<1> QED  BY <1>3, <1>4

-----------------------------------------------------------------------------
(***************************************************************************)
(* A calm step overlaps nothing it could be disturbed by, whatever Races    *)
(* admits: it is said of the steps of a behaviour, not of its schedule.     *)
(***************************************************************************)
Overlap(kind, other) ==
  LET both == {kind, other} IN
  \/ "enable" \in both \/ "create" \in both \/ both = {"fetch", "hold"}
  \/ ~Aborts /\ both = {"remove", "disable"}

\* An operation that begins overlaps none that runs, and where it is for one
\* credential nobody is making one.
BeginsApart(p) ==
  IsIdle(p) /\ op'[p].kind # "none" =>
    /\ \A o \in Ops : ~IsIdle(o) => ~Overlap(op'[p].kind, op[o].kind)
    /\ op'[p].pc = "next" \/ (op'[p].kind = "remove" /\ ~op'[p].lock) =>
         \A o \in Ops : op[o].kind # "fetch"

\* A switch-off is noted while no held device is being let in again, and one is
\* let in while no switch-off runs.
NotesApart(p) ==
  op[p].pc # "send" /\ op'[p].pc = "send" /\ op'[p].kind \in OffKinds =>
    \A q \in Sweeps : sweep[q].kind # "lift"

LiftsApart(q) ==
  sweep[q].pc = "idle" /\ sweep'[q].kind = "lift" => \A p \in Ops : op[p].kind \notin OffKinds

\* A restart cuts nothing short but a sign-out.
CutsNothing ==
  Restart => /\ \A p \in Ops : IsIdle(p) \/ SigningOut(p)
             /\ \A q \in Sweeps : sweep[q].cur = {}

Calm ==
  /\ \A p \in Ops : BeginsApart(p) /\ NotesApart(p)
  /\ \A q \in Sweeps : LiftsApart(q)
  /\ CutsNothing

\* Operation p begins.
Starts(p, kind) == IsIdle(p) /\ op'[p].kind = kind

LEMMA BegunStarts ==
  ASSUME TInv, NEW p \in Ops, NEW kind \in Kinds, NEW U \in SUBSET Users, NEW lock \in BOOLEAN,
         NEW then \in {"none", "create", "off"}, Begin(p, kind, U, lock, then)
  PROVE  Starts(p, kind)
<1>1. Turns(p, Begun(kind, U, lock, then))
  BY BeginTurns DEF Kinds, TInv
<1>2. op'[p].kind = kind
  BY <1>1 DEF Turns, Begun
<1> QED  BY <1>2 DEF Starts, Begin, MayBegin

LEMMA IdleNone ==
  ASSUME OInv, NEW o \in Ops
  PROVE  /\ IsIdle(o) <=> op[o].kind = "none"
         /\ IsIdle(o) => ~Locked(o) /\ op[o].cur = {}
BY DEF OInv, Formed, IsIdle, Locked

LEMMA Company ==
  ASSUME TInv, OInv, Calm, NEW p \in Ops, NEW kind \in Kinds, Starts(p, kind), NEW o \in Ops,
         op[o].kind # "none"
  PROVE  /\ o # p
         /\ kind \notin {"enable", "create"} /\ op[o].kind \notin {"enable", "create"}
         /\ ~(kind = "fetch" /\ op[o].kind = "hold") /\ ~(kind = "hold" /\ op[o].kind = "fetch")
         /\ ~Aborts => ~(kind = "disable" /\ op[o].kind = "remove")
                       /\ ~(kind = "remove" /\ op[o].kind = "disable")
<1>1. ~IsIdle(o) /\ o # p
  BY IdleNone DEF Starts
<1>2. kind # "none" /\ op'[p].kind = kind /\ IsIdle(p)
  BY DEF Kinds, Starts
<1>3. ~Overlap(kind, op[o].kind)
  BY <1>1, <1>2 DEF Calm, BeginsApart
<1>4. "enable" \notin {kind, op[o].kind} /\ "create" \notin {kind, op[o].kind}
  BY <1>3 DEF Overlap
<1>5. {kind, op[o].kind} # {"fetch", "hold"}
  BY <1>3 DEF Overlap
<1>6. ~Aborts => {kind, op[o].kind} # {"remove", "disable"}
  BY <1>3 DEF Overlap
<1> QED  BY <1>1, <1>4, <1>5, <1>6

LEMMA BegunTogether ==
  ASSUME TInv, OInv, Calm, NEW p \in Ops, NEW kind \in Kinds, Starts(p, kind),
         NEW r, Turns(p, r), r.kind = kind, r.cur = {}, r.pc \in {"rows", "next"},
         r.pc = "next" => ~r.lock,
         r.pc = "next" \/ (kind = "remove" /\ ~r.lock) => \A o \in Ops : op[o].kind # "fetch",
         NEW o \in Ops
  PROVE  Together(p, o)' /\ Together(o, p)'
<1>1. op'[p] = r /\ op[p].kind = "none" /\ ~Locked(p)'
  BY IdleNone DEF Turns, Starts, Locked
<1>2. CASE o = p
  BY <1>1, <1>2 DEF Together
<1>3. CASE o # p
  <2>1. op'[o] = op[o] /\ (Locked(o)' <=> Locked(o))
    BY <1>3 DEF Turns, Locked
  <2>2. CASE op[o].kind = "none"
    BY <1>1, <1>3, <2>1, <2>2, IdleNone DEF Together, IsIdle, Locked, OffKinds
  <2>3. CASE op[o].kind # "none"
    <3>1. Together(p, o)'
      BY <1>1, <1>3, <2>1, <2>3, Company DEF Together
    <3>2. Together(o, p)'
      BY <1>1, <1>3, <2>1, <2>3, Company DEF Together
    <3> QED  BY <3>1, <3>2
  <2> QED  BY <2>2, <2>3
<1> QED  BY <1>2, <1>3

LEMMA BegunFits ==
  ASSUME NEW p \in Ops, NEW kind \in Kinds, NEW U \in SUBSET Users, NEW lock \in BOOLEAN,
         NEW then \in {"none", "create", "off"}, Turns(p, Begun(kind, U, lock, then)),
         kind = "create" => U \cap devices' = {},
         kind = "fetch" => U \subseteq devices' /\ lock /\ \A u, v \in U : u = v,
         kind = "off" => lock,
         kind = "disable" => ~paid' /\ ~lock,
         kind = "remove" => IF lock THEN U \subseteq signedOut' ELSE \A u \in U : row'[u] # "none",
         then = "create" => kind = "enable",
         then = "off" => kind = "remove" /\ lock
  PROVE  Formed(op[p])' /\ RowsFit(p)'
<1>1. /\ op'[p].kind = kind /\ op'[p].pc = "rows" /\ op'[p].todo = U /\ op'[p].cur = {}
      /\ op'[p].lock = lock /\ op'[p].then = then
  BY DEF Turns, Begun
<1>2. Formed(op[p])'
  BY <1>1 DEF Formed, Kinds
<1>3. RowsFit(p)'
  BY <1>1 DEF RowsFit, Making, Creating, FetchingOne, Enabling, SwitchingOff, Removing
<1> QED  BY <1>2, <1>3

LEMMA BegunFields ==
  ASSUME NEW kind, NEW U, NEW lock, NEW then
  PROVE  LET r == Begun(kind, U, lock, then) IN
         /\ r.kind = kind /\ r.pc = "rows" /\ r.todo = U /\ r.cur = {} /\ r.lock = lock /\ r.then = then
BY DEF Begun

\* While some that are idle are, nothing depends on the rows.
LEMMA NoneFits ==
  ASSUME NEW o \in Ops, op'[o].kind = "none" PROVE RowsFit(o)'
BY DEF RowsFit, Making, Creating, FetchingOne, Enabling, SwitchingOff, Removing, OffKinds

\* An operation begins, among the others.
LEMMA BeginsThere ==
  ASSUME TInv, OInv, Calm, NEW p \in Ops, NEW kind \in Kinds, NEW U \in SUBSET Users,
         NEW lock \in BOOLEAN, NEW then \in {"none", "create", "off"},
         Begin(p, kind, U, lock, then),
         kind = "remove" /\ ~lock => \A o \in Ops : op[o].kind # "fetch"
  PROVE  /\ Turns(p, Begun(kind, U, lock, then))
         /\ op'[p].kind = kind /\ op'[p].pc = "rows" /\ op'[p].todo = U /\ op'[p].cur = {}
         /\ \A o \in Ops : Together(p, o)' /\ Together(o, p)'
<1>1. Turns(p, Begun(kind, U, lock, then))
  BY BeginTurns DEF Kinds, TInv
<1>2. \A o \in Ops : Together(p, o)' /\ Together(o, p)'
  BY <1>1, BegunTogether, BegunFields, BegunStarts
<1> QED  BY <1>1, <1>2, BegunFields DEF Turns

\* An operation begins, the rows as they are.
LEMMA BeginsHere ==
  ASSUME TInv, OInv, Calm, NEW p \in Ops, NEW kind \in Kinds, NEW U \in SUBSET Users,
         NEW lock \in BOOLEAN, NEW then \in {"none", "create", "off"},
         Begin(p, kind, U, lock, then), UNCHANGED rows,
         kind = "create" => U \cap devices = {},
         kind = "fetch" => U \subseteq devices /\ lock /\ \A u, v \in U : u = v,
         kind = "off" => lock, kind # "disable",
         kind = "remove" /\ lock => U \subseteq signedOut,
         kind = "remove" /\ ~lock => \A u \in U : row[u] # "none",
         kind = "remove" /\ ~lock => \A o \in Ops : op[o].kind # "fetch",
         then = "create" => kind = "enable",
         then = "off" => kind = "remove" /\ lock
  PROVE  OInv'
<1>1. /\ Turns(p, Begun(kind, U, lock, then))
      /\ \A o \in Ops : Together(p, o)' /\ Together(o, p)'
  <2>1. Turns(p, Begun(kind, U, lock, then))
    BY BeginTurns DEF Kinds, TInv
  <2>2. Starts(p, kind)
    BY BegunStarts
  <2>3. \A o \in Ops : Together(p, o)' /\ Together(o, p)'
    BY <2>1, <2>2, BegunTogether, BegunFields
  <2> QED  BY <2>1, <2>3
<1>2. Formed(op[p])' /\ RowsFit(p)'
  <2>1. devices' = devices /\ signedOut' = signedOut /\ row' = row
    BY DEF rows
  <2> QED  BY <1>1, <2>1, BegunFits
<1> QED  BY <1>1, <1>2, GatheredHere DEF Turns

LEMMA EndSubscriptionO ==
  ASSUME TInv, OInv, Calm, NEW p \in Ops, EndSubscription(p) PROVE OInv'
<1>1. /\ Turns(p, Begun("disable", Users, FALSE, "none"))
      /\ \A o \in Ops : Together(p, o)' /\ Together(o, p)'
  BY BeginsThere DEF EndSubscription, Kinds
<1>2. Formed(op[p])' /\ RowsFit(p)'
  BY <1>1, BegunFits DEF EndSubscription, Kinds
<1>4. ASSUME NEW o \in Ops PROVE RowsFit(o)'
  <2>1. CASE o = p
    BY <1>2, <2>1
  <2>2. CASE o # p /\ op[o].kind = "none"
    BY <1>1, <2>2, NoneFits DEF Turns
  <2>3. CASE o # p /\ op[o].kind # "none"
    <3>1. op[o].kind \notin {"enable", "create"}
      BY <2>3, Company, BegunStarts DEF EndSubscription, Kinds
    <3>2. op'[o] = op[o] /\ RowsFit(o)
      BY <1>1, <2>3 DEF Turns, OInv
    <3> QED
      BY <3>1, <3>2 DEF EndSubscription, RowsFit, Making, Creating, FetchingOne, Enabling,
                        SwitchingOff, Removing, Exists
  <2> QED  BY <2>1, <2>2, <2>3
<1>5. Customer'
  BY DEF OInv, Customer, EndSubscription
<1> QED  BY <1>1, <1>2, <1>4, <1>5, Gathered DEF EndSubscription, Turns

LEMMA RenewO ==
  ASSUME TInv, OInv, Calm, NEW p \in Ops, Renew(p) PROVE OInv'
<1>1. Turns(p, Begun("enable", Users, FALSE, "create"))
  BY BeginTurns DEF Renew, TInv
<1>2. Formed(op[p])' /\ RowsFit(p)'
  BY <1>1, BegunFits DEF Kinds
<1>3. \A o \in Ops \ {p} : op'[o] = op[o] /\ op[o].kind = "none" /\ ~Locked(o)
  BY <1>1, Company, IdleNone, BegunStarts DEF Renew, Turns, Kinds
<1>4. \A o \in Ops : Formed(op[o])' /\ RowsFit(o)'
  <2> TAKE o \in Ops
  <2>1. CASE o = p
    BY <1>2, <2>1
  <2>2. CASE o # p
    BY <1>3, <2>2, NoneFits DEF OInv, Formed
  <2> QED  BY <2>1, <2>2
<1>5. op'[p].kind = "enable" /\ ~Locked(p)'
  BY <1>1 DEF Turns, Begun, Locked
<1>6. \A o, r \in Ops : Together(o, r)'
  BY <1>3, <1>5 DEF Together, Locked, OffKinds
<1>7. Customer'
  BY DEF OInv, Customer, Renew
<1> QED  BY <1>4, <1>6, <1>7 DEF OInv

LEMMA SignsOut ==
  ASSUME TInv, OInv, Calm, NEW p \in Ops, NEW U \in SUBSET Users, NEW then \in {"none", "off"},
         Begin(p, "remove", U, TRUE, then), U \subseteq signedOut', signedOut \subseteq signedOut',
         UNCHANGED <<devices, row, paid, held>>, Customer'
  PROVE  OInv'
<1>1. /\ Turns(p, Begun("remove", U, TRUE, then))
      /\ \A o \in Ops : Together(p, o)' /\ Together(o, p)'
  BY BeginsThere DEF Kinds
<1>2. Formed(op[p])' /\ RowsFit(p)'
  BY <1>1, BegunFits DEF Kinds
<1>4. ASSUME NEW o \in Ops PROVE RowsFit(o)'
  <2>1. CASE o = p
    BY <1>2, <2>1
  <2>2. CASE o # p /\ op[o].kind = "none"
    BY <1>1, <2>2, NoneFits DEF Turns
  <2>3. CASE o # p /\ op[o].kind # "none"
    <3>1. op[o].kind \notin {"enable", "create"}
      BY <2>3, Company, BegunStarts DEF Kinds
    <3>2. op'[o] = op[o] /\ RowsFit(o)
      BY <1>1, <2>3 DEF Turns, OInv
    <3>3. Making(o)' /\ Creating(o)' /\ FetchingOne(o)' /\ Enabling(o)'
      BY <3>1, <3>2 DEF RowsFit, Making, Creating, FetchingOne, Enabling, Exists
    <3>4. SwitchingOff(o)' /\ Removing(o)'
      BY <3>1, <3>2 DEF RowsFit, SwitchingOff, Removing, Exists
    <3> QED  BY <3>3, <3>4 DEF RowsFit
  <2> QED  BY <2>1, <2>2, <2>3
<1> QED  BY <1>1, <1>2, <1>4, Gathered DEF Turns

LEMMA EnableCustomerO ==
  ASSUME TInv, OInv, Calm, NEW p \in Ops, EnableCustomer(p) PROVE OInv'
<1>1. Customer' /\ UNCHANGED <<devices, row, paid, signedOut, held>> /\ enabled'
  BY DEF EnableCustomer, Customer
<1>2. CASE UNCHANGED op
  <2>1. ASSUME NEW o \in Ops PROVE Formed(op[o])' /\ RowsFit(o)'
    <3>1. Formed(op[o]) /\ RowsFit(o) /\ op'[o] = op[o]
      BY <1>2 DEF OInv
    <3>2. RowsFit(o)'
      BY <1>1, <3>1 DEF RowsFit, Making, Creating, FetchingOne, Enabling, SwitchingOff, Removing,
                        Exists, LiveOnceActive
    <3> QED  BY <3>1, <3>2 DEF Formed
  <2>2. \A o, r \in Ops : Together(o, r)'
    BY <1>1, <1>2 DEF OInv, Together, Locked
  <2> QED  BY <1>1, <2>1, <2>2 DEF OInv
<1>3. CASE Begin(p, "create", Users \ devices, FALSE, "none")
  <2>1. /\ Turns(p, Begun("create", Users \ devices, FALSE, "none"))
        /\ \A o \in Ops : Together(p, o)' /\ Together(o, p)'
    BY <1>3, BeginsThere, Users \ devices \in SUBSET Users DEF Kinds
  <2>2. Formed(op[p])' /\ RowsFit(p)'
    BY <1>1, <2>1, BegunFits, Users \ devices \in SUBSET Users DEF Kinds
  <2>4. ASSUME NEW o \in Ops PROVE RowsFit(o)'
    <3>1. o = p \/ (o # p /\ op[o].kind = "none")
      BY <1>3, Company, BegunStarts, Users \ devices \in SUBSET Users DEF Kinds
    <3> QED  BY <2>1, <2>2, <3>1, NoneFits DEF Turns
  <2> QED  BY <1>1, <2>1, <2>2, <2>4, Gathered DEF Turns
<1> QED  BY <1>2, <1>3 DEF EnableCustomer

LEMMA SetEnabledO ==
  ASSUME TInv, OInv, Calm, NEW p \in Ops, NEW u \in Users, NEW kind \in {"enable", "disable"},
         SetEnabled(p, u, kind)
  PROVE  OInv'
<1> DEFINE r == [Begun(kind, {u}, FALSE, "none") EXCEPT !.pc = "next"]
<1>1. Turns(p, r)
  BY SwitchTurns DEF TInv
<1>2. r.kind = kind /\ r.pc = "next" /\ r.todo = {u} /\ r.cur = {} /\ ~r.lock /\ r.then = "none"
  BY DEF Begun
<1> HIDE DEF r
<1>3. Starts(p, kind) /\ kind \in Kinds
  BY <1>1, <1>2 DEF SetEnabled, MayBegin, Kinds, Starts, Turns
<1>4. \A o \in Ops : op[o].kind # "fetch"
  BY <1>1, <1>2, <1>3 DEF Calm, BeginsApart, Starts, Turns
<1>5. \A o \in Ops : Together(p, o)' /\ Together(o, p)'
  BY <1>1, <1>2, <1>3, <1>4, BegunTogether
<1>6. /\ op'[p].kind = kind /\ op'[p].pc = "next" /\ op'[p].todo = {u} /\ op'[p].cur = {}
      /\ ~op'[p].lock /\ op'[p].then = "none"
  BY <1>1, <1>2 DEF Turns
<1>7. Formed(op[p])'
  BY <1>6 DEF Formed
<1>8. row'[u] \in {"ACTIVE", "DISABLED"}
  BY DEF SetEnabled, rows
<1>9. RowsFit(p)'
  BY <1>6, <1>8 DEF RowsFit, Making, Creating, FetchingOne, Enabling, SwitchingOff, Removing, Exists
<1> QED  BY <1>1, <1>5, <1>7, <1>9, GatheredHere DEF Turns, SetEnabled

LEMMA BeginsO ==
  ASSUME TInv, OInv, Calm, NEW p \in Ops, Begins(p) \/ \E u \in Users : SweepSessions(p, u)
  PROVE  OInv'
<1>1. ASSUME DisableCustomer(p) PROVE OInv'
  <2>1. devices \subseteq Users /\ signedOut \subseteq devices
    BY DEF TInv, RowsOK
  <2> QED  BY <1>1, <2>1, SignsOut DEF DisableCustomer, Customer
<1>2. ASSUME NEW u \in Users, SignOut(p, u) PROVE OInv'
  <2>1. Customer'
    BY <1>2 DEF SignOut, OInv, Customer
  <2>2. {u} \in SUBSET Users /\ {u} \subseteq signedOut' /\ signedOut \subseteq signedOut'
    BY <1>2 DEF SignOut
  <2> QED  BY <1>2, <2>1, <2>2, SignsOut DEF SignOut
<1>3. ASSUME NEW u \in Users, Provision(p, u) PROVE OInv'
  <2>1. {u} \in SUBSET Users /\ {u} \cap devices = {}
    BY <1>3 DEF Provision
  <2> QED  BY <1>3, <2>1, BeginsHere DEF Provision, Kinds
<1>4. ASSUME NEW u \in Users, Remove(p, u) PROVE OInv'
  <2>1. \A o \in Ops : op[o].kind # "fetch"
    <3>1. Begin(p, "remove", {u}, FALSE, "none") /\ {u} \in SUBSET Users
      BY <1>4 DEF Remove
    <3>2. Turns(p, Begun("remove", {u}, FALSE, "none")) /\ Starts(p, "remove")
      BY <3>1, BeginTurns, BegunStarts DEF Kinds, TInv
    <3>3. op'[p].kind = "remove" /\ ~op'[p].lock /\ IsIdle(p)
      BY <3>2 DEF Turns, Begun, Starts
    <3> QED  BY <3>3 DEF Calm, BeginsApart
  <2>2. {u} \in SUBSET Users /\ \A v \in {u} : row[v] # "none"
    BY <1>4 DEF Remove
  <2> QED  BY <1>4, <2>1, <2>2, BeginsHere DEF Remove, Kinds
<1>5. ASSUME NEW u \in Users, Fetch(p, u) PROVE OInv'
  <2>1. {u} \in SUBSET Users /\ {u} \subseteq devices
    BY <1>5 DEF Fetch
  <2> QED  BY <1>5, <2>1, BeginsHere DEF Fetch, Kinds
<1>6. ASSUME NEW u \in Users, SweepSessions(p, u) PROVE OInv'
  <2>1. {u} \in SUBSET Users /\ {u} \subseteq signedOut
    BY <1>6 DEF SweepSessions
  <2> QED  BY <1>6, <2>1, BeginsHere DEF SweepSessions, Kinds
<1>7. ASSUME NEW U \in SUBSET Users, Hold(p, U) PROVE OInv'
  BY <1>7, BeginsHere DEF Hold, Kinds
<1> QED  BY <1>1, <1>2, <1>3, <1>4, <1>5, <1>6, <1>7, EndSubscriptionO, RenewO, EnableCustomerO,
            SetEnabledO DEF Begins

\* An operation that goes on with what it has, the rows as they are.
LEMMA GoesOn ==
  ASSUME TInv, OInv, NEW p \in Ops, NEW pc \in {"next", "note", "send", "write"}, NEW todo, NEW cur,
         Goes(p, op[p].kind, pc, todo, cur), UNCHANGED rows, op[p].pc \notin {"idle", "rows"},
         todo \subseteq op[p].todo, cur \subseteq op[p].todo \cup op[p].cur,
         op[p].kind \in {"create", "fetch"} => cur \subseteq op[p].cur,
         op[p].kind = "enable" /\ pc \in {"note", "send"} => \A u \in cur : LiveOnceActive(u),
         cur # {} <=> pc # "next", \A u, v \in cur : u = v, pc = "note" => op[p].kind \in OnKinds
  PROVE  OInv'
<1>1. paid' => paid
  BY DEF rows
<1>2. \A o \in Ops : Together(p, o)' /\ Together(o, p)'
  BY <1>1, Narrows
<1>3. Formed(op[p]) /\ RowsFit(p)
  BY DEF OInv
<1>4. Formed(op[p])'
  BY <1>3 DEF Formed, Goes
<1>5. /\ op'[p].kind = op[p].kind /\ op'[p].pc = pc /\ op'[p].todo = todo /\ op'[p].cur = cur
      /\ op'[p].lock = op[p].lock
  BY DEF Goes
<1>6. Making(p)' /\ Creating(p)' /\ FetchingOne(p)'
  BY <1>3, <1>5 DEF RowsFit, Making, Creating, FetchingOne, rows, Exists
<1>7. Enabling(p)'
  BY <1>3, <1>5 DEF RowsFit, Enabling, rows, Exists, LiveOnceActive
<1>8. SwitchingOff(p)' /\ Removing(p)'
  BY <1>3, <1>5 DEF RowsFit, SwitchingOff, Removing, rows, Exists, OffKinds
<1>9. RowsFit(p)'
  BY <1>6, <1>7, <1>8 DEF RowsFit
<1> QED  BY <1>2, <1>4, <1>9, GatheredHere DEF Goes

\* What an operation that is somewhere says of its place.
LEMMA Here ==
  ASSUME OInv, NEW p \in Ops
  PROVE  /\ op[p].pc = "next" => op[p].cur = {}
         /\ op[p].pc \in {"note", "send", "write"} => op[p].cur # {}
         /\ \A u, v \in op[p].cur : u = v
         /\ op[p].pc = "note" => op[p].kind \in OnKinds
         /\ op[p].pc = "lease" => op[p].kind = "hold" /\ op[p].cur = {}
         /\ op[p].pc = "rows" => op[p].cur = {}
         /\ op[p].pc = "idle" <=> op[p].kind = "none"
BY DEF OInv, Formed

LEMMA NoteSwitchOnO ==
  ASSUME TInv, OInv, NEW p \in Ops, NoteSwitchOn(p) PROVE OInv'
<1>1. op[p].pc = "note" /\ Goes(p, op[p].kind, "send", op[p].todo, op[p].cur) /\ UNCHANGED rows
  BY NoteGoes DEF NoteSwitchOn, TInv
<1>2. op[p].kind = "enable" => \A u \in op[p].cur : LiveOnceActive(u)
  BY <1>1 DEF OInv, RowsFit, Enabling
<1>3. /\ op[p].cur # {} /\ \A u, v \in op[p].cur : u = v
      /\ op[p].todo \subseteq op[p].todo /\ op[p].cur \subseteq op[p].todo \cup op[p].cur
      /\ op[p].cur \subseteq op[p].cur /\ op[p].pc \notin {"idle", "rows"}
      /\ "send" \in {"next", "note", "send", "write"}
      /\ (op[p].cur # {}) <=> ("send" # "next")
  BY <1>1, Here
<1> QED  BY <1>1, <1>2, <1>3, GoesOn

LEMMA SendCommandO ==
  ASSUME TInv, OInv, NEW p \in Ops, SendCommand(p) PROVE OInv'
<1>1. op[p].pc = "send" /\ Goes(p, op[p].kind, "write", op[p].todo, op[p].cur) /\ UNCHANGED rows
  BY SendGoes DEF SendCommand, TInv
<1>2. /\ op[p].cur # {} /\ \A u, v \in op[p].cur : u = v
      /\ op[p].todo \subseteq op[p].todo /\ op[p].cur \subseteq op[p].todo \cup op[p].cur
      /\ op[p].cur \subseteq op[p].cur /\ op[p].pc \notin {"idle", "rows"}
  BY <1>1, Here
<1> QED  BY <1>1, <1>2, GoesOn

LEMMA SwitchOffO ==
  ASSUME TInv, OInv, NEW p \in Ops, NEW u \in Users, SwitchOff(p, u) PROVE OInv'
<1>1. /\ op[p].pc = "next" /\ u \in op[p].todo /\ op[p].kind \in OffKinds /\ UNCHANGED rows
      /\ Goes(p, op[p].kind, "send", op[p].todo \ {u}, {u})
  BY AtGoes DEF SwitchOff, TInv, OffKinds
<1>2. /\ op[p].kind \notin {"enable", "create", "fetch"} /\ op[p].pc \notin {"idle", "rows"}
      /\ op[p].todo \ {u} \subseteq op[p].todo /\ {u} \subseteq op[p].todo \cup op[p].cur
      /\ {u} # {} /\ \A v, w \in {u} : v = w
  BY <1>1 DEF OffKinds
<1> QED  BY <1>1, <1>2, GoesOn

LEMMA SwitchOnO ==
  ASSUME TInv, OInv, NEW p \in Ops, NEW u \in Users, SwitchOn(p, u) PROVE OInv'
<1> DEFINE pc == IF LiveOnceActive(u) THEN "note" ELSE "write"
<1>1. /\ op[p].pc = "next" /\ u \in op[p].todo /\ op[p].kind = "enable" /\ UNCHANGED rows
      /\ Goes(p, op[p].kind, pc, op[p].todo \ {u}, {u})
  BY AtGoes DEF SwitchOn, TInv
<1>2. /\ pc \in {"next", "note", "send", "write"} /\ pc # "next"
      /\ pc \in {"note", "send"} => \A v \in {u} : LiveOnceActive(v)
  OBVIOUS
<1>3. /\ op[p].kind \notin {"create", "fetch"} /\ op[p].pc \notin {"idle", "rows"}
      /\ op[p].todo \ {u} \subseteq op[p].todo /\ {u} \subseteq op[p].todo \cup op[p].cur
      /\ {u} # {} /\ (\A v, w \in {u} : v = w) /\ op[p].kind \in OnKinds
  BY <1>1 DEF OnKinds
<1> HIDE DEF pc
<1> QED  BY <1>1, <1>2, <1>3, GoesOn

LEMMA GoesOnward ==
  ASSUME TInv, OInv, NEW p \in Ops, Onward(p), op[p].pc = "write", UNCHANGED rows PROVE OInv'
<1>1. PICK none : none = {}
  OBVIOUS
<1>2. Goes(p, op[p].kind, "next", op[p].todo, none)
  BY <1>1, OnwardGoes DEF TInv
<1>3. /\ op[p].todo \subseteq op[p].todo /\ none \subseteq op[p].todo \cup op[p].cur
      /\ none \subseteq op[p].cur /\ op[p].pc \notin {"idle", "rows"} /\ \A v, w \in none : v = w
  BY <1>1
<1> QED  BY <1>1, <1>2, <1>3, GoesOn

LEMMA RemoveFailsO ==
  ASSUME TInv, OInv, NEW p \in Ops, RemoveFails(p) PROVE OInv'
<1>1. CASE op[p].pc = "write" /\ Onward(p)
  BY <1>1, GoesOnward DEF RemoveFails
<1>2. ASSUME op[p].pc = "next", NEW u \in op[p].todo, op' = [op EXCEPT ![p].todo = @ \ {u}]
      PROVE  OInv'
  <2>1. Goes(p, op[p].kind, "next", op[p].todo \ {u}, op[p].cur)
    BY <1>2, SkipGoes DEF TInv
  <2>2. UNCHANGED rows
    BY DEF RemoveFails
  <2>3. /\ op[p].cur = {} /\ \A v, w \in op[p].cur : v = w
        /\ op[p].todo \ {u} \subseteq op[p].todo /\ op[p].cur \subseteq op[p].todo \cup op[p].cur
        /\ op[p].cur \subseteq op[p].cur /\ op[p].pc \notin {"idle", "rows"}
    BY <1>2, Here
  <2> QED  BY <1>2, <2>1, <2>2, <2>3, GoesOn
<1> QED  BY <1>1, <1>2 DEF RemoveFails

LEMMA ReadRowsO ==
  ASSUME TInv, OInv, NEW p \in Ops, ReadRows(p) PROVE OInv'
<1> DEFINE pc == IF op[p].kind = "hold" THEN "lease" ELSE "next"
<1>1. PICK todo : todo = Matching(op[p].kind, op[p].todo)
  OBVIOUS
<1>2. /\ op[p].pc = "rows" /\ UNCHANGED rows
      /\ op[p].lock => \A o \in Ops : ~Locked(o)
      /\ Goes(p, op[p].kind, pc, todo, op[p].cur)
  BY <1>1, ReadGoes DEF ReadRows, TInv, rows
<1>3. pc \in {"next", "lease"} /\ (pc = "lease" <=> op[p].kind = "hold")
  OBVIOUS
<1> HIDE DEF pc
<1>4. /\ op'[p].kind = op[p].kind /\ op'[p].pc = pc /\ op'[p].todo = todo /\ op'[p].cur = op[p].cur
      /\ op'[p].lock = op[p].lock /\ op'[p].then = op[p].then
      /\ \A o \in Ops \ {p} : op'[o] = op[o]
  BY <1>2 DEF Goes
<1>5. Formed(op[p]) /\ RowsFit(p) /\ op[p].cur = {} /\ op[p].kind # "none"
  BY <1>2, Here DEF OInv
<1>6. Formed(op[p])'
  <2>1. op[p].todo = {} => todo = {}
    BY <1>1 DEF Matching
  <2> QED  BY <1>2, <1>3, <1>4, <1>5, <2>1 DEF Formed
<1>7. RowsFit(p)'
  <2>1. todo \subseteq op[p].todo
    BY <1>1 DEF Matching
  <2>2. Making(p)' /\ Creating(p)' /\ FetchingOne(p)'
    BY <1>1, <1>2, <1>4, <1>5, <2>1 DEF RowsFit, Making, Creating, FetchingOne, rows, Matching
  <2>3. Enabling(p)'
    BY <1>1, <1>2, <1>3, <1>4, <1>5 DEF Enabling, rows, Matching, Exists
  <2>4. SwitchingOff(p)'
    BY <1>1, <1>2, <1>3, <1>4, <1>5 DEF SwitchingOff, rows, Matching, Exists, OffKinds
  <2>5. Removing(p)'
    BY <1>1, <1>2, <1>4, <1>5, <2>1 DEF RowsFit, Removing, rows
  <2> QED  BY <2>2, <2>3, <2>4, <2>5 DEF RowsFit
<1>8. ASSUME NEW o \in Ops PROVE Together(p, o)' /\ Together(o, p)'
  <2>1. Together(p, o) /\ Together(o, p) /\ Formed(op[o])
    BY DEF OInv
  <2>2. CASE o = p
    BY <1>4, <1>5, <2>1, <2>2 DEF Together
  <2>3. CASE o # p
    <3>1. op'[o] = op[o] /\ (Locked(o)' <=> Locked(o)) /\ (Locked(o) => ~Locked(p)')
      BY <1>2, <1>4, <2>3 DEF Locked
    <3>2. Together(o, p)'
      BY <1>4, <1>5, <2>1, <2>3, <3>1 DEF Together
    <3>3. ASSUME op[o].kind = "fetch", NEW u \in op[o].cur
          PROVE  /\ op[p].kind \in OffKinds /\ u \in todo => paid' = FALSE /\ op[p].kind = "disable"
                 /\ op[p].kind = "remove" /\ ~op[p].lock => u \notin todo
      <4>1. Locked(o) /\ ~op[p].lock
        BY <1>2, <2>1, <3>3 DEF Formed, Locked
      <4>2. op[p].kind # "off" /\ op[p].kind # "hold"
        BY <1>5, <2>1, <3>3, <4>1 DEF Formed, Together
      <4>3. op[p].kind = "remove" => u \notin op[p].todo
        BY <2>1, <3>3, <4>1 DEF Together
      <4>4. op[p].kind = "disable" => paid' = FALSE
        BY <1>2, <1>5 DEF RowsFit, SwitchingOff, rows, TInv, RowsOK
      <4>5. todo \subseteq op[p].todo
        BY <1>1 DEF Matching
      <4> QED  BY <4>2, <4>3, <4>4, <4>5 DEF OffKinds
    <3>4. Together(p, o)'
      BY <1>4, <1>5, <2>1, <2>3, <3>1, <3>3 DEF Together
    <3> QED  BY <3>2, <3>4
  <2> QED  BY <2>2, <2>3
<1> QED  BY <1>2, <1>4, <1>6, <1>7, <1>8, GatheredHere

LEMMA LeaseO ==
  ASSUME TInv, OInv, NEW p \in Ops, Lease(p) PROVE OInv'
<1>1. op[p].pc = "lease" /\ op[p].kind = "hold" /\ Goes(p, op[p].kind, "next", op[p].todo, op[p].cur)
  BY LeaseGoes, Here DEF Lease, TInv
<1>2. /\ op'[p].kind = op[p].kind /\ op'[p].pc = "next" /\ op'[p].todo = op[p].todo
      /\ op'[p].cur = op[p].cur /\ op'[p].lock = op[p].lock /\ op'[p].then = op[p].then
      /\ \A o \in Ops \ {p} : op'[o] = op[o]
  BY <1>1 DEF Goes
<1>3. devices' = devices /\ row' = row /\ paid' = paid /\ enabled' = enabled /\ signedOut' = signedOut
  BY DEF Lease
<1>4. \A o \in Ops : Together(p, o)' /\ Together(o, p)'
  <2>1. op[p].pc \notin {"idle", "rows"} /\ (paid' => paid) /\ op[p].kind # "fetch"
        /\ op[p].todo \cup op[p].cur \subseteq op[p].todo \cup op[p].cur
    BY <1>1, <1>3
  <2> QED  BY <1>1, <2>1, Narrows
<1>5. Formed(op[p])'
  BY <1>1, <1>2 DEF OInv, Formed
<1>6. ASSUME NEW o \in Ops PROVE RowsFit(o)'
  <2>1. RowsFit(o) /\ Together(o, p)
    BY DEF OInv
  <2>2. CASE o = p
    BY <1>1, <1>2, <1>3, <2>1, <2>2 DEF RowsFit, Making, Creating, FetchingOne, Enabling,
       SwitchingOff, Removing, Exists
  <2>3. CASE o # p
    <3>1. op'[o] = op[o] /\ op[o].kind \notin {"enable", "create", "fetch"}
      BY <1>1, <1>2, <2>1, <2>3 DEF Together
    <3> QED  BY <1>3, <2>1, <3>1 DEF RowsFit, Making, Creating, FetchingOne, Enabling,
                SwitchingOff, Removing, Exists
  <2> QED  BY <2>2, <2>3
<1>7. Customer'
  BY <1>3 DEF OInv, Customer
<1> QED  BY <1>2, <1>3, <1>4, <1>5, <1>6, <1>7, Gathered

\* One that makes a credential runs among operations that it does not concern.
LEMMA InsertO ==
  ASSUME TInv, OInv, NEW p \in Ops, NEW u \in Users, Insert(p, u) PROVE OInv'
<1>1. /\ op[p].pc = "next" /\ u \in op[p].todo /\ op[p].kind \in {"create", "fetch"}
      /\ Goes(p, op[p].kind, "note", op[p].todo \ {u}, {u})
  BY AtGoes DEF Insert, TInv
<1>2. /\ op'[p].kind = op[p].kind /\ op'[p].pc = "note" /\ op'[p].todo = op[p].todo \ {u}
      /\ op'[p].cur = {u} /\ op'[p].lock = op[p].lock /\ op'[p].then = op[p].then
      /\ \A o \in Ops \ {p} : op'[o] = op[o]
  BY <1>1 DEF Goes
<1>3. devices' = devices /\ held' = held /\ paid' = paid /\ enabled' = enabled /\ signedOut' = signedOut
  BY DEF Insert
<1>4. row'[u] = "ACTIVE" /\ \A v \in Users \ {u} : row'[v] = row[v]
  BY DEF Insert, TInv, RowsOK
<1>5. RowsFit(p) /\ Formed(op[p]) /\ op[p].todo \subseteq Users
  BY Fields DEF OInv, TInv
<1>6. row[u] = "none" /\ u \notin held
  BY <1>1, <1>5 DEF RowsFit, Making, TInv, RowsOK, Exists
<1>7. Formed(op[p])'
  BY <1>1, <1>2, <1>5 DEF Formed, OnKinds
<1>8. RowsFit(p)'
  <2>1. Making(p)'
    BY <1>1, <1>2, <1>3, <1>4, <1>5, <1>6 DEF RowsFit, Making, Exists
  <2>2. Creating(p)' /\ FetchingOne(p)'
    BY <1>1, <1>2, <1>3, <1>5 DEF RowsFit, Creating, FetchingOne
  <2>3. Enabling(p)' /\ SwitchingOff(p)' /\ Removing(p)'
    BY <1>1, <1>2 DEF Enabling, SwitchingOff, Removing, OffKinds
  <2> QED  BY <2>1, <2>2, <2>3 DEF RowsFit
<1>9. ASSUME NEW o \in Ops, o # p
      PROVE  RowsFit(o)' /\ Together(p, o)' /\ Together(o, p)'
  <2>1. Together(p, o) /\ Together(o, p) /\ RowsFit(o) /\ Formed(op[o]) /\ op'[o] = op[o]
    BY <1>2, <1>9 DEF OInv
  <2>2. op[o].todo \subseteq Users /\ op[o].cur \subseteq Users
    BY Fields DEF TInv
  <2>3. CASE op[p].kind = "create"
    <3>1. op[o].kind = "none" /\ ~Locked(o)
      BY <1>9, <2>1, <2>3 DEF Together, Formed, Locked
    <3> QED  BY <1>2, <2>1, <2>3, <3>1, NoneFits DEF Together, OffKinds, Locked
  <2>4. CASE op[p].kind = "fetch"
    <3>1. Locked(p) /\ ~Locked(o) /\ (Locked(o)' <=> Locked(o)) /\ op[o].kind \notin {"enable", "create"}
      BY <1>1, <1>5, <1>9, <2>1, <2>4 DEF Together, Formed, Locked
    <3>2. op[o].kind = "fetch" => op[o].pc = "rows" /\ op[o].cur = {}
      BY <2>1, <3>1 DEF Formed, Locked
    <3>3. Making(o)' /\ Creating(o)' /\ FetchingOne(o)' /\ Enabling(o)'
      BY <1>3, <2>1, <3>1, <3>2 DEF RowsFit, Making, Creating, FetchingOne, Enabling
    <3>4. \A v \in op[o].todo \cup op[o].cur :
            /\ row[v] # "none" => row'[v] # "none"
            /\ Exists(v) => Exists(v)'
      BY <1>4, <2>2 DEF Exists
    <3>5. SwitchingOff(o)' /\ Removing(o)'
      BY <1>3, <2>1, <3>4 DEF RowsFit, SwitchingOff, Removing
    <3>6. /\ op[o].kind \in OffKinds /\ op[o].pc # "rows" => u \notin op[o].todo \cup op[o].cur
          /\ op[o].kind = "remove" /\ ~op[o].lock => u \notin op[o].todo \cup op[o].cur
      BY <1>6, <2>1 DEF RowsFit, SwitchingOff, Removing
    <3>7. Together(p, o)'
      BY <1>2, <1>3, <2>1, <2>4, <3>1, <3>2 DEF Together, OffKinds
    <3>8. Together(o, p)'
      BY <1>2, <1>3, <2>1, <2>4, <3>1, <3>6 DEF Together
    <3> QED  BY <3>3, <3>5, <3>7, <3>8 DEF RowsFit
  <2> QED  BY <1>1, <2>3, <2>4
<1>10. Together(p, p)'
  BY <1>1, <1>2 DEF Together, OffKinds
<1>11. Customer'
  BY <1>3 DEF OInv, Customer
<1> QED  BY <1>2, <1>3, <1>7, <1>8, <1>9, <1>10, <1>11, Gathered

\* After the command, the row.
LEMMA WriteRowO ==
  ASSUME TInv, OInv, NEW p \in Ops, NEW u \in Users, NEW status \in {"ACTIVE", "DISABLED", "gone"},
         op[p].pc = "write", u \in op[p].cur, WriteRow(p, u, status),
         status \in {"ACTIVE", "DISABLED"} => Exists(u),
         \/ op[p].kind = "disable" /\ status = "DISABLED"
         \/ op[p].kind = "enable" /\ status = "ACTIVE"
         \/ op[p].kind = "remove" /\ status = "gone"
  PROVE  OInv'
<1>1. PICK none : none = {}
  OBVIOUS
<1>2. Goes(p, op[p].kind, "next", op[p].todo, none)
  BY <1>1, OnwardGoes DEF WriteRow, TInv
<1>3. /\ op'[p].kind = op[p].kind /\ op'[p].pc = "next" /\ op'[p].todo = op[p].todo
      /\ op'[p].cur = {} /\ op'[p].lock = op[p].lock /\ op'[p].then = op[p].then
      /\ \A o \in Ops \ {p} : op'[o] = op[o]
  BY <1>1, <1>2 DEF Goes
<1>4. devices' = devices /\ paid' = paid /\ enabled' = enabled /\ signedOut' = signedOut
  BY DEF WriteRow
<1>5. row'[u] = status /\ (\A v \in Users \ {u} : row'[v] = row[v]) /\ held' \subseteq held
  BY DEF WriteRow, TInv, RowsOK
<1>6. RowsFit(p) /\ Formed(op[p])
  BY DEF OInv
<1>7. row[u] # "none"
  BY <1>6 DEF RowsFit, SwitchingOff, Enabling, Exists, OffKinds
<1>8. \A o \in Ops : Together(p, o)' /\ Together(o, p)'
  <2>1. op[p].pc \notin {"idle", "rows"} /\ (paid' => paid)
        /\ op[p].todo \cup none \subseteq op[p].todo \cup op[p].cur /\ none \subseteq op[p].cur
    BY <1>1, <1>4
  <2> QED  BY <1>2, <2>1, Narrows
<1>9. Formed(op[p])'
  BY <1>3, <1>6 DEF Formed
<1>10. ASSUME NEW o \in Ops PROVE RowsFit(o)'
  <2>1. Together(p, o) /\ Together(o, p) /\ RowsFit(o) /\ Formed(op[o])
        /\ op[o].todo \subseteq Users /\ op[o].cur \subseteq Users
    BY Fields DEF OInv, TInv
  <2>2. \A v \in op[o].todo \cup op[o].cur : row[v] # "none" => row'[v] # "none"
    BY <1>5, <2>1
  <2>3. \A v \in op[o].todo \cup op[o].cur : status # "gone" /\ Exists(v) => Exists(v)'
    BY <1>5, <2>1 DEF Exists
  <2>4. CASE o = p
    <3>1. Making(p)' /\ Creating(p)' /\ FetchingOne(p)'
      BY <1>3 DEF Making, Creating, FetchingOne
    <3>2. Enabling(p)'
      BY <1>3, <2>3, <2>4, <1>6 DEF Enabling, RowsFit
    <3>3. SwitchingOff(p)' /\ Removing(p)'
      BY <1>3, <1>4, <2>2, <2>3, <2>4, <1>6 DEF SwitchingOff, Removing, RowsFit
    <3> QED  BY <2>4, <3>1, <3>2, <3>3 DEF RowsFit
  <2>5. CASE o # p /\ op[o].kind = "none"
    BY <1>3, <2>5, NoneFits
  <2>6. CASE o # p /\ op[o].kind # "none"
    <3>1. op'[o] = op[o] /\ op[o].kind \notin {"enable", "create"} /\ op[p].kind # "enable"
      BY <1>3, <2>1, <2>6, Here DEF Together
    <3>2. \A v \in op[o].todo : row[v] = "none" => row'[v] = "none"
      BY <1>5, <1>7, <2>1
    <3>3. op[o].kind = "fetch" /\ u \in op[o].cur => op[p].kind = "disable" /\ ~paid
      BY <2>1 DEF Together, OffKinds
    <3>4. op[o].kind = "fetch" => \A v \in op[o].cur :
            Exists(v) /\ (paid => row[v] = "ACTIVE") => Exists(v)' /\ (paid => row'[v] = "ACTIVE")
      BY <1>5, <2>1, <3>3 DEF Exists
    <3>5. Making(o)'
      BY <1>4, <1>5, <2>1, <3>1, <3>2, <3>4 DEF RowsFit, Making
    <3>6. Creating(o)' /\ FetchingOne(o)' /\ Enabling(o)'
      BY <1>4, <2>1, <3>1 DEF RowsFit, Creating, FetchingOne, Enabling
    <3>7. ~Aborts /\ op[o].kind = "disable" /\ ~op[o].lock => status # "gone"
      BY <2>1, <2>6 DEF Together
    <3>8. SwitchingOff(o)' /\ Removing(o)'
      BY <1>4, <2>1, <2>2, <2>3, <3>1, <3>7 DEF RowsFit, SwitchingOff, Removing
    <3> QED  BY <3>5, <3>6, <3>8 DEF RowsFit
  <2> QED  BY <2>4, <2>5, <2>6
<1>11. Customer'
  BY <1>4 DEF OInv, Customer
<1> QED  BY <1>3, <1>4, <1>8, <1>9, <1>10, <1>11, Gathered

LEMMA FinishedO ==
  ASSUME TInv, OInv, NEW p \in Ops, NEW u \in Users, Finished(p, u) PROVE OInv'
<1>1. op[p].pc = "write" /\ u \in op[p].cur
  BY DEF Finished
<1>2. CASE op[p].kind = "disable" /\ Exists(u) /\ WriteRow(p, u, "DISABLED")
  BY <1>1, <1>2, WriteRowO
<1>3. CASE op[p].kind = "enable" /\ Exists(u) /\ WriteRow(p, u, "ACTIVE")
  BY <1>1, <1>3, WriteRowO
<1>4. CASE op[p].kind = "remove" /\ WriteRow(p, u, "gone")
  BY <1>1, <1>4, WriteRowO
<1>5. CASE Onward(p) /\ UNCHANGED rows
  BY <1>1, <1>5, GoesOnward
<1> QED  BY <1>2, <1>3, <1>4, <1>5 DEF Finished

LEMMA AbortO ==
  ASSUME TInv, OInv, NEW p \in Ops, NEW u \in Users, Abort(p, u) PROVE OInv'
<1>1. Turns(p, Idle) /\ UNCHANGED rows
  BY IdleOp, Turned DEF Abort, TInv
<1>2. op'[p].kind = "none" /\ op'[p].cur = {} /\ ~Locked(p)' /\ Formed(op[p])' /\ RowsFit(p)'
  BY <1>1, NoneFits DEF Turns, Idle, Locked, Formed
<1>3. ASSUME NEW o \in Ops PROVE Together(p, o)' /\ Together(o, p)'
  <2>1. o # p => op'[o] = op[o]
    BY <1>1 DEF Turns
  <2>2. Together(p, o)'
    BY <1>2 DEF Together, OffKinds
  <2>3. Together(o, p)'
    BY <1>2 DEF Together, OffKinds
  <2> QED  BY <2>2, <2>3
<1> QED  BY <1>1, <1>2, <1>3, GatheredHere DEF Turns

LEMMA RecheckO ==
  ASSUME TInv, OInv, NEW p \in Ops, NEW u \in Users, Recheck(p, u) PROVE OInv'
<1>1. op[p].pc = "write" /\ u \in op[p].cur /\ op[p].kind = "fetch" /\ UNCHANGED rows
  BY DEF Recheck
<1>2. CASE paid
  BY <1>1, <1>2, GoesOnward DEF Recheck
<1>3. CASE ~paid
  <2>1. /\ op'[p].kind = "disable" /\ op'[p].pc = "send" /\ op'[p].todo = op[p].todo
        /\ op'[p].cur = op[p].cur /\ op'[p].lock = op[p].lock /\ op'[p].then = op[p].then
        /\ \A o \in Ops \ {p} : op'[o] = op[o]
    BY <1>3, RecheckGoes DEF Goes, TInv
  <2>2. Formed(op[p]) /\ RowsFit(p) /\ op[p].lock /\ op[p].todo = {} /\ paid' = FALSE
    BY <1>1, <1>3 DEF OInv, RowsFit, FetchingOne, Formed, rows
  <2>3. Formed(op[p])'
    BY <1>1, <2>1, <2>2 DEF Formed
  <2>4. RowsFit(p)'
    <3>1. \A v \in op[p].cur : row'[v] # "none"
      BY <1>1, <2>2 DEF RowsFit, Making, Exists, rows
    <3> QED
      BY <2>1, <2>2, <3>1 DEF RowsFit, Making, Creating, FetchingOne, Enabling, SwitchingOff, Removing
  <2>5. ASSUME NEW o \in Ops PROVE Together(p, o)' /\ Together(o, p)'
    <3>1. Together(p, o) /\ Together(o, p) /\ Formed(op[o])
      BY DEF OInv
    <3>2. CASE o = p
      BY <2>1, <3>2 DEF Together
    <3>3. CASE o # p
      <4>1. /\ op'[o] = op[o] /\ (Locked(o)' <=> Locked(o)) /\ Locked(p) /\ ~Locked(o)
            /\ op[o].kind \notin {"enable", "create"}
        BY <1>1, <2>1, <2>2, <3>1, <3>3 DEF Together, Locked
      <4>2. op[o].kind = "fetch" => op[o].cur = {}
        BY <3>1, <4>1 DEF Formed, Locked
      <4>3. Together(p, o)'
        BY <2>1, <2>2, <3>3, <4>1, <4>2 DEF Together
      <4>4. Together(o, p)'
        BY <2>1, <2>2, <3>3, <4>1 DEF Together
      <4> QED  BY <4>3, <4>4
    <3> QED  BY <3>2, <3>3
  <2> QED  BY <1>1, <2>1, <2>3, <2>4, <2>5, GatheredHere
<1> QED  BY <1>2, <1>3 DEF TInv, RowsOK

LEMMA EndOpO ==
  ASSUME TInv, OInv, NEW p \in Ops, EndOp(p) PROVE OInv'
<1>1. Turns(p, Follow(p)) /\ UNCHANGED rows /\ op[p].pc = "next"
  BY EndTurns DEF EndOp, TInv
<1>2. Formed(op[p]) /\ op[p].kind # "none"
  BY <1>1 DEF OInv, Formed
<1>3. /\ Formed(op[p])' /\ RowsFit(p)' /\ ~Locked(p)' /\ op'[p].cur = {}
      /\ op'[p].kind \in {"create", "off", "none"}
      /\ op'[p].kind = "create" => op[p].kind = "enable"
      /\ op'[p].kind = "off" => op'[p].pc = "rows"
  <2>1. CASE op[p].then = "create"
    <3>1. Turns(p, Begun("create", Users \ devices, FALSE, "none")) /\ op[p].kind = "enable"
      BY <1>1, <1>2, <2>1 DEF Follow, Formed
    <3>2. Formed(op[p])' /\ RowsFit(p)'
      BY <1>1, <3>1, BegunFits DEF Kinds, rows
    <3> QED  BY <3>1, <3>2 DEF Turns, Begun, Locked
  <2>2. CASE op[p].then = "off"
    <3>1. Turns(p, Begun("off", Users, TRUE, "none"))
      BY <1>1, <2>2 DEF Follow
    <3>2. Formed(op[p])' /\ RowsFit(p)'
      BY <3>1, BegunFits DEF Kinds
    <3> QED  BY <3>1, <3>2 DEF Turns, Begun, Locked
  <2>3. CASE op[p].then \notin {"create", "off"}
    <3>1. Turns(p, Idle)
      BY <1>1, <2>3 DEF Follow
    <3> QED  BY <3>1, NoneFits DEF Turns, Idle, Locked, Formed
  <2> QED  BY <2>1, <2>2, <2>3
<1>4. ASSUME NEW o \in Ops PROVE Together(p, o)' /\ Together(o, p)'
  <2>1. Together(p, o) /\ Together(o, p) /\ Formed(op[o])
    BY DEF OInv
  <2>2. CASE o = p
    BY <1>3, <2>2 DEF Together, OffKinds
  <2>3. CASE o # p
    <3>1. op'[o] = op[o] /\ (Locked(o)' <=> Locked(o)) /\ op[o].kind \notin {"enable", "create"}
      BY <1>1, <1>2, <2>1, <2>3 DEF Together, Locked, Turns
    <3>2. op'[p].kind = "create" => op[o].kind = "none"
      BY <1>3, <2>1, <2>3 DEF Together
    <3>3. Together(p, o)'
      BY <1>3, <2>3, <3>1, <3>2 DEF Together, OffKinds
    <3>4. Together(o, p)'
      BY <1>3, <2>3, <3>1, <3>2 DEF Together
    <3> QED  BY <3>3, <3>4
  <2> QED  BY <2>2, <2>3
<1> QED  BY <1>1, <1>3, <1>4, GatheredHere DEF Turns

\* A lease that ends disturbs no operation.
LEMMA LeaseEnds ==
  ASSUME OInv, UNCHANGED <<devices, row, paid, enabled, signedOut, op>>, held' \subseteq held
  PROVE  OInv'
<1>1. ASSUME NEW o \in Ops, NEW r \in Ops PROVE Formed(op[o])' /\ Together(o, r)'
  <2>1. Formed(op[o]) /\ Together(o, r)
    BY DEF OInv
  <2>2. Formed(op[o])'
    BY <2>1 DEF Formed
  <2>3. Together(o, r)'
    BY <2>1 DEF Together, Locked
  <2> QED  BY <2>2, <2>3
<1>2. Customer'
  BY DEF OInv, Customer
<1>3. ASSUME NEW o \in Ops PROVE RowsFit(o)'
  BY DEF OInv, RowsFit, Making, Creating, FetchingOne, Enabling, SwitchingOff, Removing,
     Exists, LiveOnceActive
<1> QED  BY <1>1, <1>2, <1>3 DEF OInv

LEMMA RestartO ==
  ASSUME OInv, Restart PROVE OInv'
<1>1. UNCHANGED rows /\ \A o \in Ops : op'[o] = Idle
  BY DEF Restart
<1>2. \A o \in Ops : op'[o].kind = "none" /\ op'[o].cur = {} /\ op'[o].pc = "idle"
  BY <1>1 DEF Idle
<1>3. \A o \in Ops : Formed(op[o])'
  BY <1>1 DEF Formed, Idle
<1>4. \A o, r \in Ops : Together(o, r)'
  BY <1>2 DEF Together, Locked, OffKinds
<1>5. \A o \in Ops : RowsFit(o)'
  BY <1>2, NoneFits
<1>6. Customer'
  BY <1>1 DEF OInv, Customer, rows
<1> QED  BY <1>3, <1>4, <1>5, <1>6 DEF OInv

LEMMA OpsUnmoved ==
  ASSUME OInv, UNCHANGED <<rows, op>> PROVE OInv'
BY LeaseEnds DEF rows

LEMMA OInvStays == ASSUME TInv, OInv, Calm, [Next]_vars PROVE OInv'
<1>1. CASE UNCHANGED vars
  BY <1>1, OpsUnmoved DEF vars, rows
<1>2. ASSUME NEW p \in Ops, Step(p) PROVE OInv'
  BY <1>2, ReadRowsO, LeaseO, NoteSwitchOnO, SendCommandO, EndOpO, SwitchOffO, SwitchOnO, InsertO,
     FinishedO, AbortO, RecheckO DEF Step
<1>3. ASSUME NEW p \in Ops, Begins(p) \/ RemoveFails(p) \/ \E u \in Users : SweepSessions(p, u)
      PROVE OInv'
  BY <1>3, BeginsO, RemoveFailsO
<1>4. ASSUME NEW q \in Sweeps, SweepStep(q) \/ Periodic(q) \/ Reconnect(q) PROVE OInv'
  BY <1>4, OpsUnmoved DEF SweepStep, Periodic, Reconnect, ReadLive, SendAssert, LookAgain, Repeat,
     EndSweep, Skip, AssertNow, AssertLifted, AssertStored
<1>5. ASSUME NEW q \in Sweeps, NEW U \in SUBSET Users, LiftHold(q, U) PROVE OInv'
  BY <1>5, LeaseEnds DEF LiftHold
<1>6. ASSUME NEW u \in Users, Lapse(u) \/ Age(u) PROVE OInv'
  <2>1. CASE Lapse(u)
    BY <2>1, LeaseEnds DEF Lapse
  <2>2. CASE Age(u)
    BY <2>2, OpsUnmoved DEF Age
  <2> QED  BY <1>6, <2>1, <2>2
<1>7. CASE Execute \/ Disconnect \/ EngineRestarts
  BY <1>7, OpsUnmoved DEF Execute, Disconnect, EngineRestarts
<1>8. CASE Restart
  BY <1>8, RestartO
<1> QED  BY <1>1, <1>2, <1>3, <1>4, <1>5, <1>6, <1>7, <1>8 DEF Next

LEMMA OInvBegins == ASSUME Customer, InOrder PROVE OInv
<1>1. \A o \in Ops : op[o] = Idle
  BY DEF InOrder
<1>2. \A o \in Ops : Formed(op[o])
  BY <1>1 DEF Formed, Idle
<1>3. \A o \in Ops : RowsFit(o)
  BY <1>1 DEF Idle, RowsFit, Making, Creating, FetchingOne, Enabling, SwitchingOff, Removing, OffKinds
<1>4. \A o, r \in Ops : Together(o, r)
  BY <1>1 DEF Together, Locked, Idle, OffKinds
<1> QED  BY <1>2, <1>3, <1>4 DEF OInv

-----------------------------------------------------------------------------
(***************************************************************************)
(* The re-asserts by themselves.                                           *)
(***************************************************************************)
\* One that stores its commands is at one credential, or between two.
SweepFormed(s) ==
  /\ s.pc = "idle" <=> s.kind = "none"
  /\ (s.cur # {}) <=> s.pc \in {"send", "after", "repeat"}
  /\ \A u, v \in s.cur : u = v
  /\ s.kind = "lift" => s.pc \in {"read", "next"}

\* Nothing that is being switched off is being let in again.
NoLiftBeside(p) ==
  op[p].kind \in OffKinds /\ op[p].cur # {} => \A q \in Sweeps : sweep[q].kind # "lift"

SInv ==
  /\ \A q \in Sweeps : SweepFormed(sweep[q])
  /\ \A p \in Ops : NoLiftBeside(p)
  /\ OffsStored

LEMMA SweepsAsFormed ==
  ASSUME SInv, NEW q \in Sweeps,
         sweep'[q].kind = sweep[q].kind, sweep'[q].pc = sweep[q].pc, sweep'[q].cur = sweep[q].cur
  PROVE  SweepFormed(sweep[q])'
BY DEF SInv, SweepFormed

\* What is stored, and whatever else switches on, leaves the stored ones so.
LEMMA JoinsStored ==
  ASSUME WireOK, OffsStored, NEW u \in Users, NEW what \in {"on", "off"}, NEW stored \in BOOLEAN,
         Joins(u, what, stored), what = "off" => stored, UNCHANGED <<connected, node>>
  PROVE  OffsStored'
<1> DEFINE c == [user |-> u, what |-> what, stored |-> stored]
<1>1. c \in Command /\ c.what = what /\ c.stored = stored
  BY DEF Command
<1>2. wire' = Append(wire, c) /\ wire \in Seq(Command)
  BY DEF Joins, WireOK
<1> HIDE DEF c
<1>3. /\ DOMAIN wire' = 1..Len(wire) + 1 /\ DOMAIN wire = 1..Len(wire) /\ Len(wire) \in Nat
      /\ \A i \in DOMAIN wire : wire'[i] = wire[i]
  BY JoinsOK
<1>4. wire'[Len(wire) + 1] = c
  BY <1>1, <1>2, AppendProperties
<1>5. ASSUME NEW i \in DOMAIN wire', wire'[i].what = "off" PROVE wire'[i].stored
  <2>1. CASE i \in DOMAIN wire
    BY <1>3, <1>5, <2>1 DEF OffsStored
  <2>2. CASE i = Len(wire) + 1
    BY <1>1, <1>4, <1>5, <2>2
  <2> QED  BY <1>3, <2>1, <2>2
<1> QED  BY <1>5 DEF OffsStored

\* The re-asserts stay as they are, and no operation starts on another.
LEMMA SweepsStand ==
  ASSUME SInv, OffsStored',
         \A q \in Sweeps : /\ sweep'[q].kind = sweep[q].kind /\ sweep'[q].pc = sweep[q].pc
                           /\ sweep'[q].cur = sweep[q].cur,
         \A p \in Ops : op'[p].kind \in OffKinds /\ op'[p].cur # {} =>
                          \/ op[p].kind \in OffKinds /\ op[p].cur # {}
                          \/ \A q \in Sweeps : sweep[q].kind # "lift"
  PROVE  SInv'
<1>1. \A q \in Sweeps : SweepFormed(sweep[q])'
  BY SweepsAsFormed
<1>2. ASSUME NEW p \in Ops PROVE NoLiftBeside(p)'
  <2>1. CASE op[p].kind \in OffKinds /\ op[p].cur # {}
    BY <2>1 DEF SInv, NoLiftBeside
  <2>2. CASE \A q \in Sweeps : sweep[q].kind # "lift"
    BY <2>2 DEF NoLiftBeside
  <2> QED  BY <2>1, <2>2 DEF NoLiftBeside
<1> QED  BY <1>1, <1>2 DEF SInv

\* What operation p does concerns no other.
LEMMA OthersStand ==
  ASSUME SInv, OffsStored', NEW p \in Ops, \A o \in Ops \ {p} : op'[o] = op[o],
         \A q \in Sweeps : /\ sweep'[q].kind = sweep[q].kind /\ sweep'[q].pc = sweep[q].pc
                           /\ sweep'[q].cur = sweep[q].cur,
         op'[p].kind \in OffKinds /\ op'[p].cur # {} =>
           \/ op[p].kind \in OffKinds /\ op[p].cur # {}
           \/ \A q \in Sweeps : sweep[q].kind # "lift"
  PROVE  SInv'
<1>1. ASSUME NEW o \in Ops, op'[o].kind \in OffKinds /\ op'[o].cur # {}
      PROVE  \/ op[o].kind \in OffKinds /\ op[o].cur # {}
             \/ \A q \in Sweeps : sweep[q].kind # "lift"
  BY <1>1
<1> QED  BY <1>1, SweepsStand

LEMMA NoLift ==
  ASSUME Calm, NEW p \in Ops, op[p].pc # "send", op'[p].pc = "send", op'[p].kind \in OffKinds,
         NEW q \in Sweeps
  PROVE  sweep[q].kind # "lift"
BY DEF Calm, NotesApart

LEMMA WireStored == ASSUME OffsStored, UNCHANGED wire PROVE OffsStored'
BY DEF OffsStored

\* An operation begins with no credential, and rests with none.
LEMMA TurnsS ==
  ASSUME TInv, SInv, NEW p \in Ops, NEW r, Turns(p, r), r.cur = {}, UNCHANGED <<sweep, wire>>
  PROVE  SInv'
<1>1. op'[p] = r /\ \A o \in Ops \ {p} : op'[o] = op[o]
  BY DEF Turns
<1>2. OffsStored'
  BY WireStored DEF SInv
<1> QED  BY <1>1, <1>2, OthersStand

\* Beginning is all that it does, but for the rows of the customer.
LEMMA BeginsShape ==
  ASSUME TInv, NEW p \in Ops, Begins(p) \/ \E u \in Users : SweepSessions(p, u)
  PROVE  /\ UNCHANGED <<row, sweep, fresh, wire, connected, node>>
         /\ UNCHANGED op \/ (IsIdle(p) /\ \E r : Turns(p, r) /\ r.cur = {})
<1>1. ASSUME NEW kind \in Kinds, NEW U \in SUBSET Users, NEW lock \in BOOLEAN,
             NEW then \in {"none", "create", "off"}, Begin(p, kind, U, lock, then)
      PROVE  IsIdle(p) /\ \E r : Turns(p, r) /\ r.cur = {}
  <2>1. PICK r : r = Begun(kind, U, lock, then)
    OBVIOUS
  <2>2. Turns(p, r)
    BY <1>1, <2>1, BeginTurns DEF Kinds, TInv
  <2>3. r.cur = {}
    BY <2>1 DEF Begun
  <2> QED  BY <1>1, <2>2, <2>3 DEF Begin, MayBegin
<1>2. CASE EndSubscription(p)
  BY <1>1, <1>2 DEF EndSubscription, Kinds
<1>3. CASE Renew(p)
  BY <1>1, <1>3 DEF Renew, Kinds
<1>4. CASE DisableCustomer(p)
  <2>1. devices \in SUBSET Users
    BY DEF TInv, RowsOK
  <2> QED  BY <1>1, <1>4, <2>1 DEF DisableCustomer, Kinds
<1>5. CASE EnableCustomer(p)
  <2>1. Users \ devices \in SUBSET Users
    OBVIOUS
  <2> QED  BY <1>1, <1>5, <2>1 DEF EnableCustomer, Kinds
<1>6. ASSUME NEW u \in Users, NEW kind \in {"enable", "disable"}, SetEnabled(p, u, kind)
      PROVE  /\ UNCHANGED <<row, sweep, fresh, wire, connected, node>>
             /\ IsIdle(p) /\ \E r : Turns(p, r) /\ r.cur = {}
  <2>1. PICK b \in Operation : b = Begun(kind, {u}, FALSE, "none")
    BY BegunOp
  <2>2. PICK r : r = [b EXCEPT !.pc = "next"]
    OBVIOUS
  <2>3. Turns(p, r)
    BY <1>6, <2>1, <2>2, SwitchTurns DEF TInv
  <2>4. r.cur = b.cur /\ b.cur = {}
    BY <2>1, <2>2 DEF Operation, Begun
  <2> QED  BY <1>6, <2>3, <2>4 DEF SetEnabled, MayBegin, rows
<1>7. ASSUME NEW u \in Users,
             Provision(p, u) \/ Remove(p, u) \/ Fetch(p, u) \/ SignOut(p, u) \/ SweepSessions(p, u)
      PROVE  /\ UNCHANGED <<row, sweep, fresh, wire, connected, node>>
             /\ IsIdle(p) /\ \E r : Turns(p, r) /\ r.cur = {}
  <2>1. {u} \in SUBSET Users
    OBVIOUS
  <2>2. CASE Provision(p, u)
    BY <1>1, <2>1, <2>2 DEF Provision, Kinds, rows
  <2>3. CASE Remove(p, u)
    BY <1>1, <2>1, <2>3 DEF Remove, Kinds, rows
  <2>4. CASE Fetch(p, u)
    BY <1>1, <2>1, <2>4 DEF Fetch, Kinds, rows
  <2>5. CASE SignOut(p, u)
    BY <1>1, <2>1, <2>5 DEF SignOut, Kinds
  <2>6. CASE SweepSessions(p, u)
    BY <1>1, <2>1, <2>6 DEF SweepSessions, Kinds, rows
  <2> QED  BY <1>7, <2>2, <2>3, <2>4, <2>5, <2>6
<1>8. ASSUME NEW U \in SUBSET Users, Hold(p, U)
      PROVE  /\ UNCHANGED <<row, sweep, fresh, wire, connected, node>>
             /\ IsIdle(p) /\ \E r : Turns(p, r) /\ r.cur = {}
  BY <1>1, <1>8 DEF Hold, Kinds, rows
<1> QED  BY <1>2, <1>3, <1>4, <1>5, <1>6, <1>7, <1>8 DEF Begins

LEMMA BeginsS ==
  ASSUME TInv, SInv, NEW p \in Ops, Begins(p) \/ \E u \in Users : SweepSessions(p, u)
  PROVE  SInv'
<1>1. CASE UNCHANGED op
  BY <1>1, BeginsShape, SweepsStand, WireStored DEF SInv
<1>2. CASE \E r : Turns(p, r) /\ r.cur = {}
  BY <1>2, BeginsShape, TurnsS
<1> QED  BY <1>1, <1>2, BeginsShape

\* An operation that goes on keeps the credential it is at, or leaves it.
LEMMA GoesS ==
  ASSUME TInv, SInv, NEW p \in Ops, NEW pc, NEW todo, NEW cur, Goes(p, op[p].kind, pc, todo, cur),
         cur = {} \/ op[p].cur # {} \/ op[p].kind \notin OffKinds, OffsStored',
         \A q \in Sweeps : /\ sweep'[q].kind = sweep[q].kind /\ sweep'[q].pc = sweep[q].pc
                           /\ sweep'[q].cur = sweep[q].cur
  PROVE  SInv'
<1>1. /\ \A o \in Ops \ {p} : op'[o] = op[o]
      /\ op'[p].kind = op[p].kind /\ op'[p].cur = cur
  BY DEF Goes
<1>2. op'[p].kind \in OffKinds /\ op'[p].cur # {} => op[p].kind \in OffKinds /\ op[p].cur # {}
  BY <1>1
<1> QED  BY <1>1, <1>2, OthersStand

LEMMA GoesQuietly ==
  ASSUME TInv, SInv, NEW p \in Ops, NEW pc, NEW todo, NEW cur, Goes(p, op[p].kind, pc, todo, cur),
         cur = {} \/ cur = op[p].cur \/ op[p].kind \notin OffKinds, UNCHANGED <<sweep, wire>>
  PROVE  SInv'
<1>1. OffsStored'
  BY WireStored DEF SInv
<1> QED  BY <1>1, GoesS

LEMMA StepsS ==
  ASSUME TInv, OInv, SInv, Calm, NEW p \in Ops, Step(p) \/ RemoveFails(p)
  PROVE  SInv'
<1>1. CASE ReadRows(p)
  <2>1. UNCHANGED <<sweep, wire>>
    BY <1>1 DEF ReadRows
  <2>2. PICK pc, todo : Goes(p, op[p].kind, pc, todo, op[p].cur)
    BY <1>1, ReadGoes DEF TInv
  <2> QED  BY <2>1, <2>2, GoesQuietly
<1>2. CASE Lease(p)
  <2>1. UNCHANGED <<sweep, wire>>
    BY <1>2 DEF Lease
  <2>2. Goes(p, op[p].kind, "next", op[p].todo, op[p].cur)
    BY <1>2, LeaseGoes DEF TInv
  <2> QED  BY <2>1, <2>2, GoesQuietly
<1>3. CASE NoteSwitchOn(p)
  <2>1. PICK u \in op[p].cur : NoteOn(u)
    BY <1>3 DEF NoteSwitchOn
  <2>2. u \in Users
    BY <2>1, Fields DEF TInv
  <2>3. \A q \in Sweeps : /\ sweep'[q].kind = sweep[q].kind /\ sweep'[q].pc = sweep[q].pc
                          /\ sweep'[q].cur = sweep[q].cur
    BY <2>1, <2>2, NoteOnGoes DEF TInv, IsNotedOn, SweepIs
  <2>4. Goes(p, op[p].kind, "send", op[p].todo, op[p].cur) /\ op[p].cur # {}
    BY <1>3, <2>1, NoteGoes DEF TInv
  <2>5. OffsStored'
    BY <1>3, WireStored DEF NoteSwitchOn, SInv
  <2> QED  BY <2>3, <2>4, <2>5, GoesS
<1>4. CASE SendCommand(p)
  <2>1. PICK u \in op[p].cur, what \in {"on", "off"} : Send(u, what)
    BY <1>4 DEF SendCommand
  <2>2. u \in Users /\ Joins(u, what, TRUE)
    BY <2>1, Fields DEF Send, Joins, TInv
  <2>3. OffsStored'
    BY <1>4, <2>2, JoinsStored DEF SendCommand, SInv, TInv
  <2>4. Goes(p, op[p].kind, "write", op[p].todo, op[p].cur) /\ op[p].cur # {} /\ UNCHANGED sweep
    BY <1>4, <2>1, SendGoes DEF TInv, SendCommand
  <2> QED  BY <2>3, <2>4, GoesS
<1>5. CASE EndOp(p)
  <2>1. PICK r : r = Follow(p)
    OBVIOUS
  <2>2. Turns(p, r) /\ UNCHANGED <<sweep, wire>>
    BY <1>5, <2>1, EndTurns DEF TInv, EndOp
  <2>3. r.cur = {}
    BY <2>1 DEF Follow, Begun, Idle
  <2> QED  BY <2>2, <2>3, TurnsS
<1>6. ASSUME NEW u \in Users, SwitchOff(p, u) PROVE SInv'
  <2>1. \A q \in Sweeps : /\ sweep'[q].kind = sweep[q].kind /\ sweep'[q].pc = sweep[q].pc
                          /\ sweep'[q].cur = sweep[q].cur
    BY <1>6, NoteOffGoes DEF SwitchOff, TInv, IsNotedOff
  <2>2. \A q \in Sweeps : sweep[q].kind # "lift"
    <3>1. Goes(p, op[p].kind, "send", op[p].todo \ {u}, {u})
      BY <1>6, AtGoes DEF SwitchOff, TInv
    <3>2. op[p].pc # "send" /\ op'[p].pc = "send" /\ op'[p].kind \in OffKinds
      BY <1>6, <3>1 DEF SwitchOff, Goes, OffKinds
    <3> QED  BY <3>2, NoLift
  <2>3. \A o \in Ops \ {p} : op'[o] = op[o]
    BY <1>6, AtGoes DEF SwitchOff, TInv, Goes
  <2>4. OffsStored'
    BY <1>6, WireStored DEF SwitchOff, SInv
  <2> QED  BY <2>1, <2>2, <2>3, <2>4, OthersStand
<1>7. ASSUME NEW u \in Users, SwitchOn(p, u) PROVE SInv'
  <2>1. PICK pc \in {"note", "send", "write"} : At(p, u, pc)
    BY <1>7 DEF SwitchOn
  <2>2. Goes(p, op[p].kind, pc, op[p].todo \ {u}, {u})
    BY <2>1, AtGoes DEF TInv
  <2>3. op[p].kind \notin OffKinds /\ UNCHANGED <<sweep, wire>>
    BY <1>7 DEF SwitchOn, OffKinds
  <2> QED  BY <2>2, <2>3, GoesQuietly
<1>8. ASSUME NEW u \in Users, Insert(p, u) PROVE SInv'
  <2>1. Goes(p, op[p].kind, "note", op[p].todo \ {u}, {u})
    BY <1>8, AtGoes DEF TInv, Insert
  <2>2. op[p].kind \notin OffKinds /\ UNCHANGED <<sweep, wire>>
    BY <1>8 DEF Insert, OffKinds
  <2> QED  BY <2>1, <2>2, GoesQuietly
<1>9. ASSUME Onward(p), UNCHANGED <<sweep, wire>> PROVE SInv'
  <2>1. PICK none : none = {}
    OBVIOUS
  <2>2. Goes(p, op[p].kind, "next", op[p].todo, none)
    BY <1>9, <2>1, OnwardGoes DEF TInv
  <2> QED  BY <1>9, <2>1, <2>2, GoesQuietly
<1>10. ASSUME NEW u \in Users, Finished(p, u) PROVE SInv'
  BY <1>9, <1>10 DEF Finished, WriteRow
<1>11. ASSUME NEW u \in Users, Abort(p, u) PROVE SInv'
  <2>1. PICK r : r = Idle
    OBVIOUS
  <2>2. Turns(p, r) /\ UNCHANGED <<sweep, wire>>
    BY <1>11, <2>1, Turned, IdleOp DEF Abort, TInv
  <2>3. r.cur = {}
    BY <2>1 DEF Idle
  <2> QED  BY <2>2, <2>3, TurnsS
<1>12. ASSUME NEW u \in Users, Recheck(p, u) PROVE SInv'
  <2>1. CASE paid
    BY <1>9, <1>12, <2>1 DEF Recheck
  <2>2. CASE ~paid
    <3>1. \A q \in Sweeps : /\ sweep'[q].kind = sweep[q].kind /\ sweep'[q].pc = sweep[q].pc
                            /\ sweep'[q].cur = sweep[q].cur
      BY <1>12, <2>2, NoteOffGoes DEF Recheck, TInv, IsNotedOff
    <3>2. \A q \in Sweeps : sweep[q].kind # "lift"
      <4>1. op[p].pc # "send" /\ op'[p].pc = "send" /\ op'[p].kind \in OffKinds
        BY <1>12, <2>2, RecheckGoes DEF Recheck, TInv, Goes, OffKinds
      <4> QED  BY <4>1, NoLift
    <3>3. \A o \in Ops \ {p} : op'[o] = op[o]
      BY <1>12, <2>2, RecheckGoes DEF TInv, Goes
    <3>4. OffsStored'
      BY <1>12, WireStored DEF Recheck, SInv
    <3> QED  BY <3>1, <3>2, <3>3, <3>4, OthersStand
  <2> QED  BY <2>1, <2>2
<1>13. CASE RemoveFails(p)
  <2>1. CASE Onward(p)
    BY <1>9, <1>13, <2>1 DEF RemoveFails
  <2>2. ASSUME NEW u \in op[p].todo, op' = [op EXCEPT ![p].todo = @ \ {u}] PROVE SInv'
    <3>1. Goes(p, op[p].kind, op[p].pc, op[p].todo \ {u}, op[p].cur)
      BY <2>2, SkipGoes DEF TInv
    <3> QED  BY <1>13, <3>1, GoesQuietly DEF RemoveFails
  <2> QED  BY <1>13, <2>1, <2>2 DEF RemoveFails
<1> QED  BY <1>1, <1>2, <1>3, <1>4, <1>5, <1>6, <1>7, <1>8, <1>10, <1>11, <1>12, <1>13 DEF Step

\* Re-assert q goes on, and the operations stay.
LEMMA MovesS ==
  ASSUME SInv, NEW q \in Sweeps, UNCHANGED op, OffsStored',
         \A s \in Sweeps \ {q} : /\ sweep'[s].kind = sweep[s].kind /\ sweep'[s].pc = sweep[s].pc
                                 /\ sweep'[s].cur = sweep[s].cur,
         SweepFormed(sweep[q])',
         sweep'[q].kind = "lift" => sweep[q].kind = "lift" \/ \A p \in Ops : op[p].kind \notin OffKinds
  PROVE  SInv'
<1>1. \A s \in Sweeps : SweepFormed(sweep[s])'
  <2> TAKE s \in Sweeps
  <2>1. CASE s = q
    BY <2>1
  <2>2. CASE s # q
    BY <2>2, SweepsAsFormed
  <2> QED  BY <2>1, <2>2
<1>2. ASSUME NEW p \in Ops PROVE NoLiftBeside(p)'
  BY DEF SInv, NoLiftBeside
<1> QED  BY <1>1, <1>2 DEF SInv

LEMMA SweepStepsS ==
  ASSUME TInv, SInv, NEW q \in Sweeps, SweepStep(q) PROVE SInv'
<1> USE DEF TInv
<1>1. SweepFormed(sweep[q])
  BY DEF SInv
<1>2. ASSUME NEW pc, NEW todo, NEW cur, NEW off, NEW since,
             SweepGoes(q, sweep[q].kind, pc, todo, cur, off, since), UNCHANGED op, OffsStored',
             pc \in {"next", "send", "after", "repeat"}, sweep[q].pc # "idle",
             (cur # {}) <=> pc # "next", cur \subseteq sweep[q].cur,
             sweep[q].kind = "lift" => pc = "next"
      PROVE  SInv'
  <2>1. SweepFormed(sweep[q])'
    BY <1>1, <1>2 DEF SweepGoes, SweepIs, SweepFormed
  <2>2. sweep'[q].kind = sweep[q].kind /\ \A s \in Sweeps \ {q} : sweep'[s] = sweep[s]
    BY <1>2 DEF SweepGoes, SweepIs
  <2> QED  BY <1>2, <2>1, <2>2, MovesS
<1>3. UNCHANGED wire => OffsStored'
  BY WireStored DEF SInv
<1>4. PICK none : none = {}
  OBVIOUS
<1>5. CASE ReadLive(q)
  <2>1. sweep[q].cur = {} /\ sweep[q].pc = "read" /\ UNCHANGED <<op, wire>>
    BY <1>1, <1>5 DEF ReadLive, SweepFormed
  <2>2. PICK todo : SweepGoes(q, sweep[q].kind, "next", todo, sweep[q].cur, sweep[q].off, sweep[q].since)
    BY <1>5, ReadLiveGoes
  <2> QED  BY <1>2, <1>3, <2>1, <2>2
<1>6. CASE SendAssert(q)
  <2>1. PICK u \in sweep[q].cur : Send(u, "on")
    BY <1>6 DEF SendAssert
  <2>2. u \in Users /\ Joins(u, "on", TRUE)
    BY <2>1, SweepFields DEF Send, Joins
  <2>3. OffsStored'
    BY <1>6, <2>2, JoinsStored DEF SendAssert, SInv
  <2>4. SweepGoes(q, sweep[q].kind, "after", sweep[q].todo, sweep[q].cur, sweep[q].off, sweep[q].since)
    BY <1>6, SentGoes
  <2>5. sweep[q].pc = "send" /\ sweep[q].cur # {} /\ sweep[q].kind # "lift" /\ UNCHANGED op
    BY <1>1, <1>6, <2>1 DEF SendAssert, SweepFormed
  <2> QED  BY <1>2, <2>3, <2>4, <2>5
<1>7. CASE LookAgain(q)
  <2>1. sweep[q].pc = "after" /\ UNCHANGED <<op, wire>> /\ sweep[q].kind # "lift"
    BY <1>1, <1>7 DEF LookAgain, SweepFormed
  <2>2. CASE sweep[q].cur \cap sweep[q].since = {}
    <3>1. SweepGoes(q, sweep[q].kind, "next", sweep[q].todo, none, sweep[q].off, none)
      BY <1>4, <1>7, <2>2, LookedGoes
    <3> QED  BY <1>2, <1>3, <1>4, <2>1, <3>1
  <2>3. CASE sweep[q].cur \cap sweep[q].since # {}
    <3>1. PICK u \in Users : u \in sweep[q].cur /\ u \in sweep[q].since
      BY <2>3, SweepFields
    <3>2. sweep[q].cur = {u}
      BY <1>1, <3>1 DEF SweepFormed
    <3>3. /\ sweep'[q].kind = sweep[q].kind /\ sweep'[q].pc = "repeat" /\ sweep'[q].cur = sweep[q].cur
          /\ \A s \in Sweeps \ {q} : /\ sweep'[s].kind = sweep[s].kind /\ sweep'[s].pc = sweep[s].pc
                                     /\ sweep'[s].cur = sweep[s].cur
      BY <1>7, <3>1, <3>2, LooksAgain DEF SweepIs, IsNotedOff
    <3>4. SweepFormed(sweep[q])'
      BY <1>1, <2>1, <3>1, <3>3 DEF SweepFormed
    <3> QED  BY <1>3, <2>1, <3>3, <3>4, MovesS
  <2> QED  BY <2>2, <2>3
<1>8. CASE Repeat(q)
  <2>1. PICK u \in sweep[q].cur : Send(u, "off")
    BY <1>8 DEF Repeat
  <2>2. u \in Users /\ Joins(u, "off", TRUE)
    BY <2>1, SweepFields DEF Send, Joins
  <2>3. OffsStored'
    BY <1>8, <2>2, JoinsStored DEF Repeat, SInv
  <2>4. SweepGoes(q, sweep[q].kind, "next", sweep[q].todo, none, sweep[q].off, none)
    BY <1>4, <1>8, RepeatGoes
  <2>5. sweep[q].pc = "repeat" /\ UNCHANGED op
    BY <1>8 DEF Repeat
  <2> QED  BY <1>2, <1>4, <2>3, <2>4, <2>5
<1>9. CASE EndSweep(q)
  <2>1. SweepGoes(q, "none", "idle", {}, {}, {}, {}) /\ UNCHANGED <<op, wire>>
    BY <1>9, EndGoes DEF EndSweep
  <2>2. SweepFormed(sweep[q])' /\ sweep'[q].kind # "lift" /\ \A s \in Sweeps \ {q} : sweep'[s] = sweep[s]
    BY <2>1 DEF SweepGoes, SweepIs, SweepFormed
  <2> QED  BY <1>3, <2>1, <2>2, MovesS
<1>10. ASSUME NEW u \in Users, SweepGoes(q, sweep[q].kind, sweep[q].pc, sweep[q].todo \ {u}, sweep[q].cur,
                                         sweep[q].off, sweep[q].since), UNCHANGED op, OffsStored'
       PROVE  SInv'
  <2>1. /\ sweep'[q].kind = sweep[q].kind /\ sweep'[q].pc = sweep[q].pc /\ sweep'[q].cur = sweep[q].cur
        /\ \A s \in Sweeps \ {q} : sweep'[s] = sweep[s]
    BY <1>10 DEF SweepGoes, SweepIs
  <2>2. SweepFormed(sweep[q])'
    BY <2>1, SweepsAsFormed
  <2> QED  BY <1>10, <2>1, <2>2, MovesS
<1>11. ASSUME NEW u \in Users, Skip(q, u) PROVE SInv'
  BY <1>3, <1>10, <1>11, PassGoes DEF Skip
<1>12. ASSUME NEW u \in Users, WriteReassert(u), UNCHANGED <<connected, node>> PROVE OffsStored'
  BY <1>3, <1>12, WroteReassert, JoinsStored DEF SInv
<1>13. ASSUME NEW u \in Users, AssertNow(q, u) PROVE SInv'
  <2>1. OffsStored' /\ UNCHANGED op
    BY <1>12, <1>13 DEF AssertNow
  <2> QED  BY <1>10, <1>13, <2>1, PassGoes DEF AssertNow
<1>14. ASSUME NEW u \in Users, AssertLifted(q, u) PROVE SInv'
  <2>1. OffsStored' /\ UNCHANGED op
    BY <1>12, <1>14 DEF AssertLifted
  <2>2. /\ sweep'[q].kind = sweep[q].kind /\ sweep'[q].pc = sweep[q].pc /\ sweep'[q].cur = sweep[q].cur
        /\ \A s \in Sweeps \ {q} : /\ sweep'[s].kind = sweep[s].kind /\ sweep'[s].pc = sweep[s].pc
                                   /\ sweep'[s].cur = sweep[s].cur
    BY <1>14, LiftedGoes DEF SweepIs, IsNotedOn
  <2>3. SweepFormed(sweep[q])'
    BY <2>2, SweepsAsFormed
  <2> QED  BY <2>1, <2>2, <2>3, MovesS
<1>15. ASSUME NEW u \in Users, AssertStored(q, u) PROVE SInv'
  <2>1. OffsStored' /\ UNCHANGED op /\ sweep[q].kind = "reconnect"
    BY <1>3, <1>15 DEF AssertStored
  <2>2. /\ sweep'[q].kind = sweep[q].kind /\ sweep'[q].pc = "send" /\ sweep'[q].cur = {u}
        /\ \A s \in Sweeps \ {q} : /\ sweep'[s].kind = sweep[s].kind /\ sweep'[s].pc = sweep[s].pc
                                   /\ sweep'[s].cur = sweep[s].cur
    BY <1>15, StoredGoes DEF SweepIs, IsNotedOn
  <2>3. SweepFormed(sweep[q])'
    BY <2>1, <2>2 DEF SweepFormed
  <2> QED  BY <2>1, <2>2, <2>3, MovesS
<1> QED  BY <1>5, <1>6, <1>7, <1>8, <1>9, <1>11, <1>13, <1>14, <1>15 DEF SweepStep

\* A re-assert starts, and a lift with no switch-off running.
LEMMA StartsS ==
  ASSUME TInv, SInv, NEW q \in Sweeps, NEW kind \in {"periodic", "reconnect", "lift"},
         NEW U \in SUBSET Users, StartSweep(q, kind, U), UNCHANGED <<fresh, op, wire>>,
         kind = "lift" => \A p \in Ops : op[p].kind \notin OffKinds
  PROVE  SInv'
<1>1. SweepGoes(q, kind, "read", U, {}, fresh, {})
  BY StartGoes DEF TInv
<1>2. SweepFormed(sweep[q])' /\ sweep'[q].kind = kind /\ \A s \in Sweeps \ {q} : sweep'[s] = sweep[s]
  BY <1>1 DEF SweepGoes, SweepIs, SweepFormed
<1>3. OffsStored'
  BY WireStored DEF SInv
<1> QED  BY <1>2, <1>3, MovesS

LEMMA SInvStays == ASSUME TInv, OInv, SInv, Calm, [Next]_vars PROVE SInv'
<1>1. CASE UNCHANGED vars
  BY <1>1, SweepsStand, WireStored DEF vars, SInv
<1>2. ASSUME NEW u \in Users, Lapse(u) \/ Age(u) PROVE SInv'
  <2>1. UNCHANGED <<op, sweep, wire>>
    BY <1>2 DEF Lapse, Age
  <2> QED  BY <2>1, SweepsStand, WireStored DEF SInv
<1>3. CASE EngineRestarts
  BY <1>3, SweepsStand, WireStored DEF SInv, EngineRestarts
<1>4. ASSUME NEW q \in Sweeps, Periodic(q) PROVE SInv'
  BY <1>4, StartsS DEF Periodic
<1>5. ASSUME NEW q \in Sweeps, Reconnect(q) PROVE SInv'
  BY <1>5, StartsS DEF Reconnect
<1>6. ASSUME NEW q \in Sweeps, NEW U \in SUBSET Users, LiftHold(q, U) PROVE SInv'
  <2>1. \A p \in Ops : op[p].kind \notin OffKinds
    <3>1. sweep[q].pc = "idle" /\ SweepGoes(q, "lift", "read", U, {}, fresh, {})
      BY <1>6, StartGoes DEF LiftHold, StartSweep, TInv
    <3> QED  BY <3>1 DEF Calm, LiftsApart, SweepGoes, SweepIs
  <2> QED  BY <1>6, <2>1, StartsS DEF LiftHold
<1>7. CASE Execute
  <2>1. OffsStored' /\ UNCHANGED <<op, sweep>>
    BY <1>7, Executes DEF Execute, TInv, SInv
  <2> QED  BY <2>1, SweepsStand
<1>8. CASE Disconnect
  <2>1. OffsStored' /\ UNCHANGED <<op, sweep>>
    BY <1>8, Loses DEF Disconnect, TInv, SInv
  <2> QED  BY <2>1, SweepsStand
<1>9. CASE Restart
  <2>1. OffsStored'
    BY <1>9, Loses DEF Restart, TInv, SInv
  <2>2. \A q \in Sweeps : SweepFormed(sweep[q])'
    BY <1>9 DEF Restart, Resting, SweepFormed
  <2>3. \A p \in Ops : NoLiftBeside(p)'
    BY <1>9 DEF Restart, Idle, NoLiftBeside
  <2> QED  BY <2>1, <2>2, <2>3 DEF SInv
<1> QED  BY <1>1, <1>2, <1>3, <1>4, <1>5, <1>6, <1>7, <1>8, <1>9, BeginsS, StepsS, SweepStepsS DEF Next

LEMMA SInvBegins == ASSUME InOrder PROVE SInv
<1>1. \A q \in Sweeps : SweepFormed(sweep[q])
  BY DEF InOrder, Resting, SweepFormed
<1>2. \A p \in Ops : NoLiftBeside(p)
  BY DEF InOrder, Idle, NoLiftBeside
<1>3. OffsStored
  BY DEF InOrder, OffsStored
<1> QED  BY <1>1, <1>2, <1>3 DEF SInv

-----------------------------------------------------------------------------
(***************************************************************************)
(* A credential and the switch-offs of it: a re-assert that is not over    *)
(* knows of each, or the credential is only being made.                    *)
(***************************************************************************)
Off(p, u) == op[p].kind \in OffKinds /\ u \in op[p].cur

Fetching(u) == \E o \in Ops : op[o].kind = "fetch" /\ u \in op[o].cur

\* It is new, and its subscription over: it is about to be switched off.
LockedOff(u) ==
  \E o \in Ops : /\ op[o].kind = "disable" /\ op[o].lock /\ op[o].pc = "send"
                 /\ u \in op[o].cur

\* A re-assert that is at u will take it back.
Told(q, u) == u \in sweep[q].cur => u \in sweep[q].since \/ sweep[q].pc = "repeat"

Noted(u) ==
  /\ u \in fresh
  /\ \A q \in Sweeps : Told(q, u) /\ (sweep[q].pc # "idle" => u \in sweep[q].off)

Undoes(q, u) ==
  u \in sweep[q].cur /\ (sweep[q].pc = "repeat" \/ (sweep[q].pc = "after" /\ u \in sweep[q].since))

Undone(u) == \E q \in Sweeps : Undoes(q, u)

\* No re-assert will be sent for u.
Passes(q, u) ==
  sweep[q].pc \notin {"idle", "read"} /\ u \in sweep[q].todo =>
    u \in sweep[q].off /\ sweep[q].kind # "lift"

Cleared(u) == \A q \in Sweeps : Told(q, u) /\ Passes(q, u)

OffKnown(u) == \A p \in Ops : Off(p, u) => Fetching(u) \/ Noted(u)

OffSent(u) ==
  \A p \in Ops : Off(p, u) /\ op[p].pc = "write" =>
    \/ ~WillServe(u) \/ Undone(u)
    \/ op[p].kind # "remove" /\ (Fetching(u) \/ LockedOff(u))

GoneStaysOff(u) == row[u] = "gone" => Cleared(u) /\ (WillServe(u) => Undone(u))

Minded(u) == OffKnown(u) /\ OffSent(u) /\ GoneStaysOff(u)

GInv == \A u \in Users : Minded(u)

\* What re-assert q does does not concern u.
QuietAt(q, u) ==
  /\ Told(q, u) => Told(q, u)'
  /\ Undoes(q, u) => Undoes(q, u)'
  /\ sweep'[q].pc # "idle" =>
       IF sweep[q].pc = "idle" THEN u \in fresh => u \in sweep'[q].off
                               ELSE u \in sweep[q].off => u \in sweep'[q].off
  /\ sweep'[q].pc \notin {"idle", "read"} /\ u \in sweep'[q].todo =>
       \/ u \in sweep[q].todo /\ sweep[q].pc \notin {"idle", "read"} /\ sweep'[q].kind = sweep[q].kind
       \/ u \in Live

StaysFresh(u) == u \in fresh => u \in fresh' \/ \A p \in Ops : u \notin op'[p].cur

\* What the operations do does not concern u.
OpsQuiet(u) ==
  /\ \A p \in Ops : Off(p, u)' =>
       /\ Off(p, u) /\ op'[p].kind = op[p].kind
       /\ op'[p].pc = "write" => op[p].pc = "write"
  /\ Fetching(u) => Fetching(u)'
  /\ LockedOff(u) => LockedOff(u)'

\* What is known of u while it is quiet around it.
LEMMA QuietSweeps ==
  ASSUME NEW u \in Users, \A q \in Sweeps : QuietAt(q, u)
  PROVE  /\ StaysFresh(u) /\ Noted(u) => Noted(u)' \/ \A p \in Ops : u \notin op'[p].cur
         /\ Undone(u) => Undone(u)'
         /\ row[u] = "gone" /\ Cleared(u) => Cleared(u)'
<1>1. \A q \in Sweeps : (Told(q, u) => Told(q, u)') /\ (Undoes(q, u) => Undoes(q, u)')
  BY DEF QuietAt
<1>2. \A q \in Sweeps : Undoes(q, u) => Undoes(q, u)'
  BY <1>1
<1>3. ASSUME NEW q \in Sweeps, row[u] = "gone", Passes(q, u) PROVE Passes(q, u)'
  <2>1. u \notin Live
    BY <1>3 DEF Live
  <2> QED  BY <1>3, <2>1 DEF QuietAt, Passes
<1>4. ASSUME StaysFresh(u), Noted(u), NEW p \in Ops, u \in op'[p].cur PROVE Noted(u)'
  <2>1. u \in fresh'
    BY <1>4 DEF StaysFresh, Noted
  <2>2. \A q \in Sweeps : sweep'[q].pc # "idle" => u \in sweep'[q].off
    BY <1>4 DEF QuietAt, Noted
  <2> QED  BY <1>1, <1>4, <2>1, <2>2 DEF Noted
<1> QED  BY <1>1, <1>2, <1>3, <1>4 DEF Undone, Cleared

LEMMA QuietOffs ==
  ASSUME NEW u \in Users, Minded(u), OpsQuiet(u), StaysFresh(u), \A q \in Sweeps : QuietAt(q, u),
         WillServe(u)' => WillServe(u)
  PROVE  OffKnown(u)' /\ OffSent(u)'
<1>1. OffKnown(u) /\ OffSent(u)
  BY DEF Minded
<1>2. Noted(u) => Noted(u)' \/ \A p \in Ops : ~Off(p, u)'
  BY QuietSweeps DEF Off
<1>3. Undone(u) => Undone(u)'
  BY QuietSweeps
<1>4. OffKnown(u)'
  BY <1>1, <1>2 DEF OffKnown, OpsQuiet
<1>5. OffSent(u)'
  BY <1>1, <1>3 DEF OffSent, OpsQuiet
<1> QED  BY <1>4, <1>5

LEMMA QuietGone ==
  ASSUME NEW u \in Users, GoneStaysOff(u), row'[u] = "gone" => row[u] = "gone",
         \A q \in Sweeps : QuietAt(q, u), WillServe(u)' => WillServe(u)
  PROVE  GoneStaysOff(u)'
BY QuietSweeps DEF GoneStaysOff

LEMMA Quiet ==
  ASSUME NEW u \in Users, Minded(u), OpsQuiet(u), StaysFresh(u), \A q \in Sweeps : QuietAt(q, u),
         WillServe(u)' => WillServe(u), row'[u] = "gone" => row[u] = "gone"
  PROVE  Minded(u)'
<1>1. GoneStaysOff(u)
  BY DEF Minded
<1>2. OffKnown(u)' /\ OffSent(u)'
  BY QuietOffs
<1>3. GoneStaysOff(u)'
  BY <1>1, QuietGone
<1> QED  BY <1>2, <1>3 DEF Minded

\* Which actions are quiet for whom.
LEMMA SameQuiet ==
  ASSUME NEW q \in Sweeps, sweep'[q] = sweep[q], NEW u \in Users PROVE QuietAt(q, u)
BY DEF QuietAt, Told, Undoes

LEMMA NoteOffQuiet ==
  ASSUME NEW q \in Sweeps, NEW v \in Users, IsNotedOff(q, v), NEW u \in Users PROVE QuietAt(q, u)
BY DEF QuietAt, IsNotedOff, Told, Undoes

LEMMA NoteOnQuiet ==
  ASSUME NEW q \in Sweeps, NEW v \in Users, IsNotedOn(q, v), NEW u \in Users, u # v
  PROVE  QuietAt(q, u)
BY DEF QuietAt, IsNotedOn, SweepIs, Told, Undoes

LEMMA StartQuiet ==
  ASSUME TInv, SInv, NEW q \in Sweeps, NEW kind \in {"periodic", "reconnect", "lift"},
         NEW U \in SUBSET Users, StartSweep(q, kind, U), UNCHANGED fresh,
         NEW s \in Sweeps, NEW u \in Users
  PROVE  QuietAt(s, u)
<1>1. SweepGoes(q, kind, "read", U, {}, fresh, {})
  BY StartGoes DEF TInv
<1>2. sweep[q].pc = "idle" /\ sweep[q].cur = {}
  BY DEF StartSweep, SInv, SweepFormed
<1>3. QuietAt(q, u)
  BY <1>1, <1>2 DEF SweepGoes, SweepIs, QuietAt, Told, Undoes
<1>4. s # q => sweep'[s] = sweep[s]
  BY <1>1 DEF SweepGoes
<1> QED  BY <1>3, <1>4, SameQuiet

\* A re-assert goes on, and nothing that it knew of u is lost.
LEMMA MoveQuiet ==
  ASSUME NEW q \in Sweeps, NEW pc, NEW todo, NEW cur, NEW off, NEW since, NEW u \in Users,
         SweepIs(q, sweep[q].kind, pc, todo, cur, off, since), sweep[q].pc # "idle",
         u \in sweep[q].off => u \in off,
         u \in todo => (u \in sweep[q].todo /\ sweep[q].pc # "read") \/ u \in Live,
         Told(q, u) => Told(q, u)', Undoes(q, u) => Undoes(q, u)'
  PROVE  QuietAt(q, u)
BY DEF SweepIs, QuietAt

\* One that only has less to do.
LEMMA PassQuiet ==
  ASSUME NEW q \in Sweeps, NEW v, NEW u \in Users,
         SweepIs(q, sweep[q].kind, sweep[q].pc, sweep[q].todo \ {v}, sweep[q].cur,
                 sweep[q].off, sweep[q].since)
  PROVE  QuietAt(q, u)
BY DEF SweepIs, QuietAt, Told, Undoes

LEMMA SameOps ==
  ASSUME NEW u \in Users, UNCHANGED op
  PROVE  OpsQuiet(u)
BY DEF OpsQuiet, Off, Fetching, LockedOff

LEMMA TurnsQuiet ==
  ASSUME NEW p \in Ops, NEW r, Turns(p, r), r.cur = {}, NEW u \in Users,
         u \in op[p].cur => op[p].kind # "fetch" /\ op[p].pc # "send"
  PROVE  OpsQuiet(u)
<1>1. op'[p].cur = {} /\ \A o \in Ops \ {p} : op'[o] = op[o]
  BY DEF Turns
<1>2. \A o \in Ops : Off(o, u)' => Off(o, u) /\ op'[o] = op[o]
  BY <1>1 DEF Off
<1>3. Fetching(u) => Fetching(u)'
  BY <1>1 DEF Fetching
<1>4. LockedOff(u) => LockedOff(u)'
  BY <1>1 DEF LockedOff
<1> QED  BY <1>2, <1>3, <1>4 DEF OpsQuiet

LEMMA GoesQuiet ==
  ASSUME NEW p \in Ops, NEW pc, NEW todo, NEW cur, Goes(p, op[p].kind, pc, todo, cur), NEW u \in Users,
         u \in cur /\ op[p].kind \in OffKinds => u \in op[p].cur /\ (pc = "write" => op[p].pc = "write"),
         u \in op[p].cur => u \in cur \/ (op[p].kind # "fetch" /\ op[p].pc # "send"),
         u \in op[p].cur /\ op[p].pc = "send" => pc = "send" \/ op[p].kind # "disable"
  PROVE  OpsQuiet(u)
<1>1. /\ op'[p].kind = op[p].kind /\ op'[p].pc = pc /\ op'[p].cur = cur /\ op'[p].lock = op[p].lock
      /\ \A o \in Ops \ {p} : op'[o] = op[o]
  BY DEF Goes
<1>2. ASSUME NEW o \in Ops, Off(o, u)'
      PROVE  /\ Off(o, u) /\ op'[o].kind = op[o].kind
             /\ op'[o].pc = "write" => op[o].pc = "write"
  BY <1>1, <1>2 DEF Off
<1>3. Fetching(u) => Fetching(u)'
  BY <1>1 DEF Fetching
<1>4. LockedOff(u) => LockedOff(u)'
  BY <1>1 DEF LockedOff
<1> QED  BY <1>2, <1>3, <1>4 DEF OpsQuiet

\* Nothing that the node is told concerns u.
LEMMA SameWire ==
  ASSUME UNCHANGED wire, node' \subseteq node, NEW u \in Users, WillServe(u)' PROVE WillServe(u)
BY DEF WillServe, Says

\* What a running switch-off, and a removal, say of those that switch it on.
LEMMA OnlyFetching ==
  ASSUME OInv, NEW p \in Ops, NEW o \in Ops, NEW u \in Users, Off(p, u), op[o].kind \in OnKinds,
         u \in op[o].cur
  PROVE  op[o].kind = "fetch" /\ op[p].kind = "disable" /\ ~paid
<1>1. Together(o, p) /\ Together(p, o) /\ p # o /\ op[p].kind # "none" /\ op[p].pc # "rows"
  BY Here DEF OInv, Off, OffKinds, OnKinds
<1> QED  BY <1>1 DEF Together, Off, OnKinds

LEMMA MadeExists ==
  ASSUME OInv, NEW o \in Ops, op[o].kind \in OnKinds, NEW u \in op[o].cur
  PROVE  Exists(u)
BY Here DEF OInv, RowsFit, Making, Enabling, OnKinds

LEMMA BeginsG ==
  ASSUME TInv, SInv, OInv, NEW p \in Ops, Begins(p) \/ \E v \in Users : SweepSessions(p, v),
         NEW u \in Users, Minded(u)
  PROVE  Minded(u)'
<1>1. UNCHANGED <<row, sweep, fresh, wire, node>>
  BY BeginsShape
<1>2. \A q \in Sweeps : QuietAt(q, u)
  BY <1>1, SameQuiet
<1>3. OpsQuiet(u)
  <2>1. CASE UNCHANGED op
    BY <2>1, SameOps
  <2>2. ASSUME IsIdle(p), NEW r, Turns(p, r), r.cur = {} PROVE OpsQuiet(u)
    <3>1. u \notin op[p].cur
      BY <2>2, IdleNone
    <3> QED  BY <2>2, <3>1, TurnsQuiet
  <2> QED  BY <2>1, <2>2, BeginsShape
<1>4. StaysFresh(u) /\ (WillServe(u)' => WillServe(u))
  BY <1>1, SameWire DEF StaysFresh
<1> QED  BY <1>1, <1>2, <1>3, <1>4, Quiet

\* Operation p goes on, and no re-assert, nor the node, is told.
LEMMA GoesG ==
  ASSUME NEW u \in Users, Minded(u), OpsQuiet(u), UNCHANGED <<sweep, fresh, wire, node>>,
         row'[u] = "gone" => row[u] = "gone"
  PROVE  Minded(u)'
<1>1. \A q \in Sweeps : QuietAt(q, u)
  BY SameQuiet
<1>2. StaysFresh(u) /\ (WillServe(u)' => WillServe(u))
  BY SameWire DEF StaysFresh
<1> QED  BY <1>1, <1>2, Quiet

LEMMA OnwardQuiet ==
  ASSUME TInv, NEW p \in Ops, Onward(p), op[p].pc = "write" \/ op[p].cur = {},
         NEW u \in Users, u \in op[p].cur => op[p].kind # "fetch"
  PROVE  OpsQuiet(u)
<1>1. PICK none : none = {}
  OBVIOUS
<1>2. Goes(p, op[p].kind, "next", op[p].todo, none)
  BY <1>1, OnwardGoes DEF TInv
<1> QED  BY <1>1, <1>2, GoesQuiet

LEMMA PlainStepsG ==
  ASSUME TInv, SInv, OInv, NEW p \in Ops,
         \/ ReadRows(p) \/ Lease(p) \/ EndOp(p) \/ RemoveFails(p)
         \/ \E v \in Users : SwitchOn(p, v) \/ Insert(p, v) \/ Abort(p, v),
         NEW u \in Users, Minded(u)
  PROVE  Minded(u)'
<1>1. CASE ReadRows(p)
  <2>1. PICK pc, todo : /\ Goes(p, op[p].kind, pc, todo, op[p].cur) /\ pc \in {"lease", "next"}
    BY <1>1, ReadGoes DEF TInv
  <2>2. op[p].cur = {}
    BY <1>1, Here DEF ReadRows
  <2>3. OpsQuiet(u)
    BY <2>1, <2>2, GoesQuiet
  <2> QED  BY <1>1, <2>3, GoesG DEF ReadRows, rows
<1>2. CASE Lease(p)
  <2>1. Goes(p, op[p].kind, "next", op[p].todo, op[p].cur)
    BY <1>2, LeaseGoes DEF TInv
  <2>2. op[p].cur = {}
    BY <1>2, Here DEF Lease
  <2>3. OpsQuiet(u)
    BY <2>1, <2>2, GoesQuiet
  <2> QED  BY <1>2, <2>3, GoesG DEF Lease
<1>3. CASE EndOp(p)
  <2>1. PICK r : r = Follow(p)
    OBVIOUS
  <2>2. Turns(p, r)
    BY <1>3, <2>1, EndTurns DEF TInv
  <2>3. r.cur = {}
    BY <2>1 DEF Follow, Begun, Idle
  <2>4. op[p].cur = {}
    BY <1>3, Here DEF EndOp
  <2>5. OpsQuiet(u)
    BY <2>2, <2>3, <2>4, TurnsQuiet
  <2> QED  BY <1>3, <2>5, GoesG DEF EndOp, rows
<1>4. CASE RemoveFails(p)
  <2>1. CASE Onward(p) /\ op[p].pc = "write"
    <3>1. OpsQuiet(u)
      BY <1>4, <2>1, OnwardQuiet DEF RemoveFails
    <3> QED  BY <1>4, <3>1, GoesG DEF RemoveFails, rows
  <2>2. ASSUME op[p].pc = "next", NEW v \in op[p].todo, op' = [op EXCEPT ![p].todo = @ \ {v}]
        PROVE  Minded(u)'
    <3>1. Goes(p, op[p].kind, op[p].pc, op[p].todo \ {v}, op[p].cur)
      BY <2>2, SkipGoes DEF TInv
    <3>2. op[p].cur = {}
      BY <2>2, Here
    <3>3. OpsQuiet(u)
      BY <3>1, <3>2, GoesQuiet
    <3> QED  BY <1>4, <3>3, GoesG DEF RemoveFails, rows
  <2> QED  BY <1>4, <2>1, <2>2 DEF RemoveFails
<1>5. ASSUME NEW v \in Users, SwitchOn(p, v) PROVE Minded(u)'
  <2>1. PICK pc \in {"note", "send", "write"} : At(p, v, pc)
    BY <1>5 DEF SwitchOn
  <2>2. Goes(p, op[p].kind, pc, op[p].todo \ {v}, {v})
    BY <2>1, AtGoes DEF TInv
  <2>3. op[p].kind \notin OffKinds /\ op[p].cur = {}
    BY <1>5, Here DEF SwitchOn, OffKinds
  <2>4. OpsQuiet(u)
    BY <2>2, <2>3, GoesQuiet
  <2> QED  BY <1>5, <2>4, GoesG DEF SwitchOn, rows
<1>6. ASSUME NEW v \in Users, Insert(p, v) PROVE Minded(u)'
  <2>1. Goes(p, op[p].kind, "note", op[p].todo \ {v}, {v})
    BY <1>6, AtGoes DEF TInv, Insert
  <2>2. op[p].kind \notin OffKinds /\ op[p].cur = {}
    BY <1>6, Here DEF Insert, OffKinds
  <2>3. OpsQuiet(u)
    BY <2>1, <2>2, GoesQuiet
  <2>4. row'[u] = "gone" => row[u] = "gone"
    BY <1>6 DEF Insert, TInv, RowsOK
  <2> QED  BY <1>6, <2>3, <2>4, GoesG DEF Insert
<1>7. ASSUME NEW v \in Users, Abort(p, v) PROVE Minded(u)'
  <2>1. PICK r : r = Idle
    OBVIOUS
  <2>2. Turns(p, r)
    BY <1>7, <2>1, Turned, IdleOp DEF Abort, TInv
  <2>3. r.cur = {} /\ op[p].pc = "write" /\ op[p].kind # "fetch"
    BY <1>7, <2>1 DEF Idle, Abort
  <2>4. OpsQuiet(u)
    BY <2>2, <2>3, TurnsQuiet
  <2> QED  BY <1>7, <2>4, GoesG DEF Abort, rows
<1> QED  BY <1>1, <1>2, <1>3, <1>4, <1>5, <1>6, <1>7

LEMMA NoteSwitchOnG ==
  ASSUME TInv, SInv, OInv, NEW p \in Ops, NoteSwitchOn(p), NEW u \in Users, Minded(u)
  PROVE  Minded(u)'
<1>1. PICK v \in op[p].cur : NoteOn(v)
  BY DEF NoteSwitchOn
<1>2. v \in Users /\ op[p].pc = "note" /\ op[p].kind \in OnKinds /\ \A w \in op[p].cur : w = v
  BY <1>1, Here, Fields DEF NoteSwitchOn, TInv
<1>3. Goes(p, op[p].kind, "send", op[p].todo, op[p].cur)
  BY NoteGoes DEF TInv
<1>4. UNCHANGED <<row, wire, node>>
  BY DEF NoteSwitchOn, rows
<1>5. fresh' = fresh \ {v} /\ \A q \in Sweeps : IsNotedOn(q, v)
  BY <1>1, <1>2, NoteOnGoes DEF TInv
<1>6. op[p].kind \notin OffKinds
  BY <1>2 DEF OnKinds, OffKinds
<1>7. OpsQuiet(u)
  BY <1>2, <1>3, <1>6, GoesQuiet
<1>8. CASE u # v
  <2>1. \A q \in Sweeps : QuietAt(q, u)
    BY <1>2, <1>5, <1>8, NoteOnQuiet
  <2>2. StaysFresh(u) /\ (WillServe(u)' => WillServe(u)) /\ (row'[u] = "gone" => row[u] = "gone")
    BY <1>4, <1>5, <1>8, SameWire DEF StaysFresh
  <2> QED  BY <1>7, <2>1, <2>2, Quiet
<1>9. CASE u = v
  <2>1. \A o \in Ops : Off(o, u)' => op[p].kind = "fetch" /\ op'[o].kind = "disable"
    BY <1>1, <1>2, <1>7, <1>9, OnlyFetching DEF OpsQuiet
  <2>2. op[p].kind = "fetch" => Fetching(u)'
    BY <1>1, <1>3, <1>9 DEF Fetching, Goes
  <2>3. OffKnown(u)' /\ OffSent(u)'
    BY <2>1, <2>2 DEF OffKnown, OffSent
  <2>4. GoneStaysOff(u)'
    BY <1>1, <1>2, <1>4, <1>9, MadeExists DEF GoneStaysOff, Exists
  <2> QED  BY <2>3, <2>4 DEF Minded
<1> QED  BY <1>8, <1>9

LEMMA SendCommandG ==
  ASSUME TInv, SInv, OInv, NEW p \in Ops, SendCommand(p), NEW u \in Users, Minded(u)
  PROVE  Minded(u)'
<1> DEFINE says == IF op[p].kind \in OnKinds THEN "on" ELSE "off"
<1>1. PICK v \in op[p].cur : Send(v, says)
  BY DEF SendCommand, OnKinds
<1>2. says \in {"on", "off"} /\ (says = "on" <=> op[p].kind \in OnKinds)
  OBVIOUS
<1> HIDE DEF says
<1>3. v \in Users /\ op[p].pc = "send" /\ op[p].kind # "none" /\ \A w \in op[p].cur : w = v
  BY <1>1, Here, Fields DEF SendCommand, TInv
<1>4. Joins(v, says, TRUE) /\ UNCHANGED <<row, sweep, fresh, connected, node>>
  BY <1>1 DEF Send, Joins, SendCommand, rows
<1>5. Goes(p, op[p].kind, "write", op[p].todo, op[p].cur)
  BY SendGoes DEF TInv
<1>6. /\ op'[p].kind = op[p].kind /\ op'[p].cur = op[p].cur
      /\ \A o \in Ops \ {p} : op'[o] = op[o]
  BY <1>5 DEF Goes
<1>7. \A q \in Sweeps : QuietAt(q, u)
  BY <1>4, SameQuiet
<1>8. \A o \in Ops : Off(o, u)' <=> Off(o, u)
  BY <1>6 DEF Off
<1>9. Fetching(u)' <=> Fetching(u)
  BY <1>6 DEF Fetching
<1>10. CASE u # v
  <2>1. OpsQuiet(u)
    BY <1>3, <1>5, <1>10, GoesQuiet
  <2>2. WillServe(u)' => WillServe(u)
    BY <1>2, <1>3, <1>4, <1>10, OnJoins, OffJoins DEF TInv
  <2>3. StaysFresh(u)
    BY <1>4 DEF StaysFresh
  <2> QED  BY <1>4, <1>7, <2>1, <2>2, <2>3, Quiet
<1>11. CASE u = v /\ says = "on"
  <2>1. op[p].kind \in OnKinds
    BY <1>2, <1>11
  <2>2. \A o \in Ops : Off(o, u)' => op[p].kind = "fetch" /\ op'[o].kind = "disable"
    BY <1>1, <1>6, <1>8, <1>11, <2>1, OnlyFetching DEF Off
  <2>3. op[p].kind = "fetch" => Fetching(u)'
    BY <1>1, <1>6, <1>11 DEF Fetching
  <2>4. OffKnown(u)' /\ OffSent(u)'
    BY <2>2, <2>3 DEF OffKnown, OffSent
  <2>5. GoneStaysOff(u)'
    BY <1>1, <1>4, <1>11, <2>1, MadeExists DEF GoneStaysOff, Exists
  <2> QED  BY <2>4, <2>5 DEF Minded
<1>12. CASE u = v /\ says = "off"
  <2>1. ~WillServe(u)'
    BY <1>3, <1>4, <1>12, OffJoins DEF TInv
  <2>2. Noted(u) => Noted(u)'
    BY <1>4 DEF Noted, Told
  <2>3. OffKnown(u)' /\ OffSent(u)'
    BY <1>8, <1>9, <2>1, <2>2 DEF OffKnown, OffSent, Minded
  <2>4. GoneStaysOff(u)'
    BY <1>4, <2>1 DEF GoneStaysOff, Minded, Cleared, Told, Passes
  <2> QED  BY <2>3, <2>4 DEF Minded
<1> QED  BY <1>2, <1>10, <1>11, <1>12

\* A switch-off that is noted is known to every re-assert.
LEMMA NotedIsKnown ==
  ASSUME SweepOK, NEW u \in Users, NoteOff(u) PROVE Noted(u)'
<1>1. fresh' = fresh \cup {u} /\ \A q \in Sweeps : IsNotedOff(q, u)
  BY NoteOffGoes
<1> QED  BY <1>1 DEF Noted, Told, IsNotedOff

LEMMA SwitchOffG ==
  ASSUME TInv, SInv, OInv, NEW p \in Ops, NEW v \in Users, SwitchOff(p, v), NEW u \in Users, Minded(u)
  PROVE  Minded(u)'
<1>1. op[p].pc = "next" /\ v \in op[p].todo /\ NoteOff(v) /\ UNCHANGED <<row, wire, node>>
  BY DEF SwitchOff, rows
<1>2. fresh' = fresh \cup {v} /\ \A q \in Sweeps : IsNotedOff(q, v)
  BY <1>1, NoteOffGoes DEF TInv
<1>3. \A q \in Sweeps : QuietAt(q, u)
  BY <1>2, NoteOffQuiet
<1>4. StaysFresh(u) /\ (WillServe(u)' => WillServe(u))
  BY <1>1, <1>2, SameWire DEF StaysFresh
<1>5. Goes(p, op[p].kind, "send", op[p].todo \ {v}, {v}) /\ op[p].cur = {}
  BY <1>1, AtGoes, Here DEF SwitchOff, TInv
<1>6. CASE u # v
  <2>1. OpsQuiet(u)
    <3>1. u \notin {v} /\ u \notin op[p].cur
      BY <1>5, <1>6
    <3> QED  BY <1>5, <3>1, GoesQuiet
  <2> QED  BY <1>1, <1>3, <1>4, <2>1, Quiet
<1>7. CASE u = v
  <2>1. OffKnown(u)'
    BY <1>1, <1>7, NotedIsKnown DEF OffKnown, TInv
  <2>2. /\ op'[p].pc = "send" /\ op'[p].kind = op[p].kind /\ op'[p].cur = {v}
        /\ \A o \in Ops \ {p} : op'[o] = op[o]
    BY <1>5 DEF Goes
  <2>3. (Fetching(u) => Fetching(u)') /\ (LockedOff(u) => LockedOff(u)')
    BY <1>5, <2>2 DEF Fetching, LockedOff
  <2>4. Undone(u) => Undone(u)'
    BY <1>3, QuietSweeps
  <2>5. \A o \in Ops : Off(o, u)' /\ op'[o].pc = "write" => o # p /\ Off(o, u) /\ op'[o] = op[o]
    BY <2>2 DEF Off
  <2>6. OffSent(u)'
    BY <1>4, <2>3, <2>4, <2>5 DEF OffSent, Minded
  <2>7. GoneStaysOff(u)'
    BY <1>1, <1>3, <1>4, QuietGone DEF Minded
  <2> QED  BY <2>1, <2>6, <2>7 DEF Minded
<1> QED  BY <1>6, <1>7

\* A removed credential: its switch-off is noted, and its command was sent.
LEMMA FinishedG ==
  ASSUME TInv, SInv, OInv, NEW p \in Ops, NEW v \in Users, Finished(p, v), NEW u \in Users, Minded(u)
  PROVE  Minded(u)'
<1>1. op[p].pc = "write" /\ v \in op[p].cur /\ op[p].kind # "fetch" /\ Onward(p)
      /\ UNCHANGED <<sweep, fresh, wire, node>>
  BY DEF Finished, WriteRow
<1>2. OpsQuiet(u)
  BY <1>1, OnwardQuiet
<1>3. CASE row'[u] = "gone" => row[u] = "gone"
  BY <1>1, <1>2, <1>3, GoesG
<1>4. CASE row'[u] = "gone" /\ row[u] # "gone"
  <2>1. u = v /\ op[p].kind = "remove"
    BY <1>4 DEF Finished, WriteRow, rows, TInv, RowsOK
  <2>2. Off(p, u)
    BY <1>1, <2>1 DEF Off, OffKinds
  <2>3. ~Fetching(u)
    BY <2>1, <2>2, OnlyFetching DEF Fetching, OnKinds
  <2>4. Noted(u) /\ (~WillServe(u) \/ Undone(u))
    BY <1>1, <2>1, <2>2, <2>3 DEF Minded, OffKnown, OffSent
  <2>5. \A q \in Sweeps : sweep[q].kind # "lift"
    BY <1>1, <2>1 DEF SInv, NoLiftBeside, OffKinds
  <2>6. Cleared(u)'
    BY <1>1, <2>4, <2>5 DEF Noted, Cleared, Told, Passes
  <2>7. (WillServe(u)' => WillServe(u)) /\ (Undone(u) => Undone(u)')
    BY <1>1, SameWire DEF Undone, Undoes
  <2>8. GoneStaysOff(u)'
    BY <2>4, <2>6, <2>7 DEF GoneStaysOff
  <2>9. \A q \in Sweeps : QuietAt(q, u)
    BY <1>1, SameQuiet
  <2>10. OffKnown(u)' /\ OffSent(u)'
    BY <1>1, <1>2, <2>7, <2>9, QuietOffs DEF StaysFresh
  <2> QED  BY <2>8, <2>10 DEF Minded
<1> QED  BY <1>3, <1>4

LEMMA RecheckG ==
  ASSUME TInv, SInv, OInv, NEW p \in Ops, NEW v \in Users, Recheck(p, v), NEW u \in Users, Minded(u)
  PROVE  Minded(u)'
<1>1. /\ op[p].pc = "write" /\ v \in op[p].cur /\ op[p].kind = "fetch" /\ UNCHANGED <<row, wire, node>>
      /\ \A w \in op[p].cur : w = v
  BY Here DEF Recheck, rows
<1>2. CASE paid
  <2>1. Onward(p) /\ UNCHANGED <<sweep, fresh>>
    BY <1>2 DEF Recheck
  <2>2. PICK none : none = {}
    OBVIOUS
  <2>3. Goes(p, op[p].kind, "next", op[p].todo, none)
    BY <2>1, <2>2, OnwardGoes DEF TInv
  <2>4. CASE u # v
    <3>1. u \notin op[p].cur
      BY <1>1, <2>4
    <3>2. OpsQuiet(u)
      BY <3>1, <2>1, <1>1, OnwardQuiet
    <3> QED  BY <1>1, <2>1, <3>2, GoesG
  <2>5. CASE u = v
    <3>1. \A o \in Ops : ~Off(o, u)
      BY <1>1, <1>2, <2>5, OnlyFetching DEF OnKinds
    <3>2. \A o \in Ops : ~Off(o, u)'
      BY <2>2, <2>3, <3>1 DEF Off, Goes
    <3>3. \A q \in Sweeps : QuietAt(q, u)
      BY <2>1, SameQuiet
    <3>4. GoneStaysOff(u)'
      BY <1>1, <3>3, SameWire, QuietGone DEF Minded
    <3> QED  BY <3>2, <3>4 DEF Minded, OffKnown, OffSent
  <2> QED  BY <2>4, <2>5
<1>3. CASE ~paid
  <2>1. NoteOff(v)
    BY <1>3 DEF Recheck
  <2>2. /\ op'[p].kind = "disable" /\ op'[p].pc = "send" /\ op'[p].cur = op[p].cur
        /\ op'[p].lock = op[p].lock /\ \A o \in Ops \ {p} : op'[o] = op[o]
    BY <1>3, RecheckGoes DEF TInv, Goes
  <2>3. op[p].lock
    BY <1>1 DEF OInv, Formed
  <2>4. fresh' = fresh \cup {v} /\ \A q \in Sweeps : IsNotedOff(q, v)
    BY <2>1, NoteOffGoes DEF TInv
  <2>5. \A q \in Sweeps : QuietAt(q, u)
    BY <2>4, NoteOffQuiet
  <2>6. StaysFresh(u) /\ (WillServe(u)' => WillServe(u))
    BY <1>1, <2>4, SameWire DEF StaysFresh
  <2>7. CASE u # v
    <3>1. u \notin op[p].cur
      BY <1>1, <2>7
    <3>2. OpsQuiet(u)
      BY <2>2, <3>1 DEF OpsQuiet, Off, Fetching, LockedOff
    <3> QED  BY <1>1, <2>5, <2>6, <3>2, Quiet
  <2>8. CASE u = v
    <3>1. OffKnown(u)'
      BY <2>1, <2>8, NotedIsKnown DEF OffKnown, TInv
    <3>2. LockedOff(u)'
      BY <1>1, <2>2, <2>3, <2>8 DEF LockedOff
    <3>3. \A o \in Ops : Off(o, u)' /\ op'[o].pc = "write" => Off(o, u) /\ op'[o] = op[o]
      BY <2>2 DEF Off
    <3>4. \A o \in Ops : Off(o, u) => op[o].kind = "disable"
      BY <1>1, <2>8, OnlyFetching DEF OnKinds
    <3>5. OffSent(u)'
      BY <3>2, <3>3, <3>4 DEF OffSent
    <3>6. GoneStaysOff(u)'
      BY <1>1, <2>5, <2>6, QuietGone DEF Minded
    <3> QED  BY <3>1, <3>5, <3>6 DEF Minded
  <2> QED  BY <2>7, <2>8
<1> QED  BY <1>2, <1>3 DEF TInv, RowsOK

\* What a re-assert does that leaves u as it was.
LEMMA SweepQuiet ==
  ASSUME NEW u \in Users, Minded(u), UNCHANGED <<row, op>>, StaysFresh(u), \A q \in Sweeps : QuietAt(q, u),
         WillServe(u)' => WillServe(u)
  PROVE  Minded(u)'
<1>1. OpsQuiet(u)
  BY SameOps
<1> QED  BY <1>1, Quiet

\* A re-assert that is sent for u finds it neither gone nor switched off, but
\* for one that is being made.
LEMMA Asserted ==
  ASSUME OInv, NEW u \in Users, UNCHANGED <<row, op>>, \A p \in Ops : Off(p, u) => Fetching(u),
         row[u] # "gone"
  PROVE  Minded(u)'
<1>1. \A p \in Ops : Off(p, u)' <=> Off(p, u)
  BY DEF Off
<1>2. Fetching(u)' <=> Fetching(u)
  BY DEF Fetching
<1>3. \A p \in Ops : Off(p, u) /\ Fetching(u) => op[p].kind = "disable"
  BY OnlyFetching DEF Fetching, OnKinds
<1> QED  BY <1>1, <1>2, <1>3 DEF Minded, OffKnown, OffSent, GoneStaysOff

\* One that has u still to do, and looked: nothing switched it off.
LEMMA Looked ==
  ASSUME NEW q \in Sweeps, NEW u \in Users, Minded(u), sweep[q].pc = "next", u \in sweep[q].todo,
         u \notin sweep[q].off
  PROVE  (\A p \in Ops : Off(p, u) => Fetching(u)) /\ row[u] # "gone"
BY DEF Minded, OffKnown, GoneStaysOff, Noted, Cleared, Passes

LEMMA WrittenFor ==
  ASSUME WireOK, NEW v \in Users, WriteReassert(v), UNCHANGED <<connected, node>>, NEW u \in Users,
         WillServe(u)'
  PROVE  WillServe(u) \/ u = v
BY WroteReassert, OnJoins, SameWire

LEMMA SweepStepsG ==
  ASSUME TInv, SInv, OInv, NEW q \in Sweeps, SweepStep(q), NEW u \in Users, Minded(u)
  PROVE  Minded(u)'
<1>1. SweepFormed(sweep[q]) /\ SweepOK /\ WireOK
  BY DEF SInv, TInv
<1>2. ASSUME UNCHANGED <<row, op, fresh>>, QuietAt(q, u), \A s \in Sweeps \ {q} : sweep'[s] = sweep[s],
             WillServe(u)' => WillServe(u)
      PROVE  Minded(u)'
  <2>1. \A s \in Sweeps : QuietAt(s, u)
    <3> TAKE s \in Sweeps
    <3>1. CASE s = q
      BY <1>2, <3>1
    <3>2. CASE s # q
      BY <1>2, <3>2, SameQuiet
    <3> QED  BY <3>1, <3>2
  <2>2. StaysFresh(u)
    BY <1>2 DEF StaysFresh
  <2> QED  BY <1>2, <2>1, <2>2, SweepQuiet
<1>3. ASSUME NEW pc \in {"next", "after"}, NEW todo, NEW cur, NEW since,
             SweepGoes(q, sweep[q].kind, pc, todo, cur, sweep[q].off, since), sweep[q].pc # "idle",
             u \in todo => (u \in sweep[q].todo /\ sweep[q].pc # "read") \/ u \in Live,
             u \in sweep[q].cur => (u \notin cur /\ ~Undoes(q, u)) \/ (u \in cur /\ u \in since),
             u \in cur => u \in sweep[q].cur, pc = "next" => u \notin cur
      PROVE  QuietAt(q, u) /\ \A s \in Sweeps \ {q} : sweep'[s] = sweep[s]
  <2>1. /\ SweepIs(q, sweep[q].kind, pc, todo, cur, sweep[q].off, since)
        /\ \A s \in Sweeps \ {q} : sweep'[s] = sweep[s]
    BY <1>3 DEF SweepGoes
  <2>2. Told(q, u) => Told(q, u)'
    BY <1>3, <2>1 DEF SweepIs, Told
  <2>3. Undoes(q, u) => Undoes(q, u)'
    BY <1>1, <1>3, <2>1 DEF SweepIs, Undoes, SweepFormed
  <2> QED  BY <1>3, <2>1, <2>2, <2>3, MoveQuiet
<1>4. PICK none : none = {}
  OBVIOUS
<1>5. CASE ReadLive(q)
  <2>1. sweep[q].cur = {} /\ sweep[q].pc = "read" /\ UNCHANGED <<row, op, wire, fresh, node>>
    BY <1>1, <1>5 DEF ReadLive, SweepFormed, rows
  <2>2. SweepGoes(q, sweep[q].kind, "next", sweep[q].todo \cap Live, sweep[q].cur, sweep[q].off, sweep[q].since)
    BY <1>1, <1>5, ReadLiveGoes
  <2>3. QuietAt(q, u) /\ \A s \in Sweeps \ {q} : sweep'[s] = sweep[s]
    BY <1>3, <2>1, <2>2
  <2> QED  BY <1>2, <2>1, <2>3, SameWire
<1>6. CASE EndSweep(q)
  <2>1. /\ SweepGoes(q, "none", "idle", {}, {}, {}, {}) /\ sweep[q].cur = {}
        /\ UNCHANGED <<row, op, wire, fresh, node>>
    BY <1>1, <1>6, EndGoes DEF EndSweep, SweepFormed, rows
  <2>2. QuietAt(q, u) /\ \A s \in Sweeps \ {q} : sweep'[s] = sweep[s]
    BY <2>1 DEF SweepGoes, SweepIs, QuietAt, Told, Undoes
  <2> QED  BY <1>2, <2>1, <2>2, SameWire
<1>7. ASSUME NEW v \in Users, SweepGoes(q, sweep[q].kind, sweep[q].pc, sweep[q].todo \ {v}, sweep[q].cur,
                                        sweep[q].off, sweep[q].since)
      PROVE  QuietAt(q, u) /\ \A s \in Sweeps \ {q} : sweep'[s] = sweep[s]
  BY <1>7, PassQuiet DEF SweepGoes
<1>8. ASSUME NEW v \in Users, Skip(q, v) PROVE Minded(u)'
  <2>1. UNCHANGED <<row, op, wire, fresh, node>>
    BY <1>8 DEF Skip, rows
  <2>2. QuietAt(q, u) /\ \A s \in Sweeps \ {q} : sweep'[s] = sweep[s]
    BY <1>1, <1>7, <1>8, PassGoes DEF Skip
  <2> QED  BY <1>2, <2>1, <2>2, SameWire
<1>9. ASSUME NEW v \in Users, AssertNow(q, v) PROVE Minded(u)'
  <2>1. UNCHANGED <<row, op, fresh, connected, node>> /\ WriteReassert(v)
    BY <1>9 DEF AssertNow, rows
  <2>2. CASE u = v
    <3>1. sweep[q].pc = "next" /\ u \in sweep[q].todo /\ u \notin sweep[q].off
      BY <1>9, <2>2 DEF AssertNow, SwitchedOffSince
    <3>2. (\A p \in Ops : Off(p, u) => Fetching(u)) /\ row[u] # "gone"
      BY <3>1, Looked
    <3> QED  BY <2>1, <3>2, Asserted
  <2>3. CASE u # v
    <3>1. QuietAt(q, u) /\ \A s \in Sweeps \ {q} : sweep'[s] = sweep[s]
      BY <1>1, <1>7, <1>9, PassGoes DEF AssertNow
    <3> QED  BY <1>1, <1>2, <2>1, <2>3, <3>1, WrittenFor
  <2> QED  BY <2>2, <2>3
<1>10. ASSUME NEW v \in Users, AssertLifted(q, v) PROVE Minded(u)'
  <2>1. /\ UNCHANGED <<row, op, connected, node>> /\ WriteReassert(v) /\ sweep[q].kind = "lift"
        /\ fresh' = fresh \ {v} /\ sweep[q].pc = "next" /\ v \in sweep[q].todo
    BY <1>10 DEF AssertLifted, rows
  <2>2. CASE u = v
    <3>1. \A p \in Ops : ~Off(p, u)
      BY <2>1 DEF SInv, NoLiftBeside, Off
    <3>2. row[u] # "gone"
      BY <2>1, <2>2 DEF Minded, GoneStaysOff, Cleared, Passes
    <3> QED  BY <2>1, <3>1, <3>2, Asserted
  <2>3. CASE u # v
    <3>1. ASSUME NEW s \in Sweeps PROVE QuietAt(s, u)
      <4>1. CASE s = q
        BY <1>1, <1>10, <4>1, LiftedGoes, PassQuiet
      <4>2. CASE s # q
        BY <1>1, <1>10, <2>3, <4>2, LiftedGoes, NoteOnQuiet
      <4> QED  BY <4>1, <4>2
    <3>2. StaysFresh(u)
      BY <2>1, <2>3 DEF StaysFresh
    <3> QED  BY <1>1, <2>1, <2>3, <3>1, <3>2, WrittenFor, SweepQuiet
  <2> QED  BY <2>2, <2>3
<1>11. ASSUME NEW v \in Users, AssertStored(q, v) PROVE Minded(u)'
  <2>1. /\ UNCHANGED <<row, op, wire, node>> /\ fresh' = fresh \ {v} /\ sweep[q].pc = "next"
        /\ v \in sweep[q].todo /\ v \notin sweep[q].off /\ sweep[q].cur = {}
    BY <1>1, <1>11 DEF AssertStored, rows, SwitchedOffSince, SweepFormed
  <2>2. CASE u = v
    <3>1. (\A p \in Ops : Off(p, u) => Fetching(u)) /\ row[u] # "gone"
      BY <2>1, <2>2, Looked
    <3> QED  BY <2>1, <3>1, Asserted
  <2>3. CASE u # v
    <3>1. ASSUME NEW s \in Sweeps PROVE QuietAt(s, u)
      <4>1. CASE s = q
        <5>1. SweepIs(q, sweep[q].kind, "send", sweep[q].todo \ {v}, {v}, sweep[q].off \ {v}, {})
          BY <1>1, <1>11, StoredGoes
        <5> QED  BY <2>1, <2>3, <4>1, <5>1 DEF SweepIs, QuietAt, Told, Undoes
      <4>2. CASE s # q
        BY <1>1, <1>11, <2>3, <4>2, StoredGoes, NoteOnQuiet
      <4> QED  BY <4>1, <4>2
    <3>2. StaysFresh(u)
      BY <2>1, <2>3 DEF StaysFresh
    <3> QED  BY <2>1, <3>1, <3>2, SameWire, SweepQuiet
  <2> QED  BY <2>2, <2>3
<1>12. CASE SendAssert(q)
  <2>1. PICK v \in sweep[q].cur : Send(v, "on")
    BY <1>12 DEF SendAssert
  <2>2. v \in Users /\ Joins(v, "on", TRUE) /\ sweep[q].pc = "send" /\ \A w \in sweep[q].cur : w = v
    BY <1>1, <1>12, <2>1, SweepFields DEF Send, Joins, SendAssert, SweepFormed
  <2>3. UNCHANGED <<row, op, fresh, connected, node>>
    BY <1>12 DEF SendAssert, rows
  <2>4. SweepGoes(q, sweep[q].kind, "after", sweep[q].todo, sweep[q].cur, sweep[q].off, sweep[q].since)
    BY <1>1, <1>12, SentGoes
  <2>5. CASE u = v /\ u \notin sweep[q].since
    <3>1. ~Told(q, u)
      BY <2>1, <2>2, <2>5 DEF Told
    <3>2. (\A p \in Ops : Off(p, u) => Fetching(u)) /\ row[u] # "gone"
      BY <3>1 DEF Minded, OffKnown, GoneStaysOff, Noted, Cleared
    <3> QED  BY <2>3, <3>2, Asserted
  <2>6. CASE u # v
    <3>1. QuietAt(q, u) /\ \A s \in Sweeps \ {q} : sweep'[s] = sweep[s]
      BY <1>3, <2>2, <2>4, <2>6
    <3> QED  BY <1>1, <1>2, <2>2, <2>3, <2>6, <3>1, OnJoins
  <2>7. CASE u = v /\ u \in sweep[q].since
    <3>1. QuietAt(q, u) /\ \A s \in Sweeps \ {q} : sweep'[s] = sweep[s]
      BY <1>3, <2>1, <2>2, <2>4, <2>7
    <3>2. Undoes(q, u)'
      BY <2>1, <2>4, <2>7 DEF SweepGoes, SweepIs, Undoes
    <3>3. \A s \in Sweeps : QuietAt(s, u)
      BY <3>1, SameQuiet
    <3>4. StaysFresh(u)
      BY <2>3 DEF StaysFresh
    <3>5. OffKnown(u)'
      BY <2>3, <3>3, <3>4, QuietSweeps DEF Minded, OffKnown, Off, Fetching
    <3>6. OffSent(u)' /\ GoneStaysOff(u)'
      BY <2>3, <3>2, <3>3, QuietSweeps DEF Minded, OffSent, GoneStaysOff, Undone
    <3> QED  BY <3>5, <3>6 DEF Minded
  <2> QED  BY <2>5, <2>6, <2>7
<1>13. CASE LookAgain(q)
  <2>1. sweep[q].pc = "after" /\ UNCHANGED <<row, op, wire, node>>
    BY <1>13 DEF LookAgain, rows
  <2>2. CASE sweep[q].cur \cap sweep[q].since = {}
    <3>1. SweepGoes(q, sweep[q].kind, "next", sweep[q].todo, none, sweep[q].off, none) /\ UNCHANGED fresh
      BY <1>1, <1>4, <1>13, <2>2, LookedGoes
    <3>2. ~Undoes(q, u)
      BY <2>1, <2>2 DEF Undoes
    <3>3. QuietAt(q, u) /\ \A s \in Sweeps \ {q} : sweep'[s] = sweep[s]
      BY <1>3, <1>4, <2>1, <3>1, <3>2
    <3> QED  BY <1>2, <2>1, <3>1, <3>3, SameWire
  <2>3. CASE sweep[q].cur \cap sweep[q].since # {}
    <3>1. PICK v \in Users : v \in sweep[q].cur /\ v \in sweep[q].since
      BY <1>1, <2>3, SweepFields
    <3>2. sweep[q].cur = {v}
      BY <1>1, <3>1 DEF SweepFormed
    <3>3. /\ fresh' = fresh \cup {v}
          /\ SweepIs(q, sweep[q].kind, "repeat", sweep[q].todo, sweep[q].cur, sweep[q].off, sweep[q].since)
          /\ \A s \in Sweeps \ {q} : IsNotedOff(s, v)
      BY <1>1, <1>13, <3>1, <3>2, LooksAgain
    <3>4. QuietAt(q, u)
      BY <2>1, <3>3 DEF SweepIs, QuietAt, Told, Undoes
    <3>5. \A s \in Sweeps : QuietAt(s, u)
      BY <3>1, <3>3, <3>4, NoteOffQuiet
    <3>6. StaysFresh(u)
      BY <3>3 DEF StaysFresh
    <3> QED  BY <2>1, <3>5, <3>6, SameWire, SweepQuiet
  <2> QED  BY <2>2, <2>3
<1>14. CASE Repeat(q)
  <2>1. PICK v \in sweep[q].cur : Send(v, "off")
    BY <1>14 DEF Repeat
  <2>2. v \in Users /\ Joins(v, "off", TRUE) /\ sweep[q].pc = "repeat" /\ \A w \in sweep[q].cur : w = v
    BY <1>1, <1>14, <2>1, SweepFields DEF Send, Joins, Repeat, SweepFormed
  <2>3. UNCHANGED <<row, op, fresh, connected, node>>
    BY <1>14 DEF Repeat, rows
  <2>4. SweepGoes(q, sweep[q].kind, "next", sweep[q].todo, none, sweep[q].off, none)
    BY <1>1, <1>4, <1>14, RepeatGoes
  <2>5. (WillServe(u)' => WillServe(u)) /\ ~WillServe(v)'
    BY <1>1, <2>2, <2>3, OffJoins
  <2>6. CASE u # v
    <3>1. u \notin sweep[q].cur
      BY <2>2, <2>6
    <3>2. QuietAt(q, u) /\ \A s \in Sweeps \ {q} : sweep'[s] = sweep[s]
      BY <1>3, <1>4, <2>2, <2>4, <3>1
    <3> QED  BY <1>2, <2>3, <2>5, <3>2
  <2>7. CASE u = v
    <3>1. \A s \in Sweeps : (Told(s, u) => Told(s, u)') /\ (Passes(s, u) => Passes(s, u)')
      BY <1>4, <2>2, <2>4 DEF SweepGoes, SweepIs, Told, Passes
    <3>2. \A s \in Sweeps : (sweep[s].pc # "idle" => u \in sweep[s].off) =>
                              (sweep'[s].pc # "idle" => u \in sweep'[s].off)
      BY <2>2, <2>4 DEF SweepGoes, SweepIs
    <3>3. (Noted(u) => Noted(u)') /\ (Cleared(u) => Cleared(u)')
      BY <2>3, <3>1, <3>2 DEF Noted, Cleared
    <3>4. OffKnown(u)'
      BY <2>3, <3>3 DEF Minded, OffKnown, Off, Fetching
    <3>5. OffSent(u)' /\ GoneStaysOff(u)'
      BY <2>3, <2>5, <2>7, <3>3 DEF Minded, OffSent, GoneStaysOff
    <3> QED  BY <3>4, <3>5 DEF Minded
  <2> QED  BY <2>6, <2>7
<1> QED  BY <1>5, <1>6, <1>8, <1>9, <1>10, <1>11, <1>12, <1>13, <1>14 DEF SweepStep

LEMMA StartsG ==
  ASSUME TInv, SInv, OInv, NEW q \in Sweeps, NEW kind \in {"periodic", "reconnect", "lift"},
         NEW U \in SUBSET Users, StartSweep(q, kind, U),
         UNCHANGED <<row, op, fresh, wire, node>>, NEW u \in Users, Minded(u)
  PROVE  Minded(u)'
<1>1. \A s \in Sweeps : QuietAt(s, u)
  BY StartQuiet
<1>2. StaysFresh(u) /\ (WillServe(u)' => WillServe(u))
  BY SameWire DEF StaysFresh
<1> QED  BY <1>1, <1>2, SweepQuiet

\* Nothing but what the node serves, or was told, changes.
LEMMA NodeG ==
  ASSUME NEW u \in Users, Minded(u), UNCHANGED <<row, op, sweep, fresh>>, WillServe(u)' => WillServe(u)
  PROVE  Minded(u)'
<1>1. \A s \in Sweeps : QuietAt(s, u)
  BY SameQuiet
<1> QED  BY <1>1, SweepQuiet DEF StaysFresh

LEMMA RestartG ==
  ASSUME TInv, SInv, OInv, Calm, Restart, NEW u \in Users, Minded(u)
  PROVE  Minded(u)'
<1>1. /\ \A p \in Ops : IsIdle(p) \/ SigningOut(p)
      /\ \A q \in Sweeps : sweep[q].cur = {}
  BY DEF Calm, CutsNothing
<1>2. /\ \A p \in Ops : op'[p] = Idle
      /\ \A q \in Sweeps : sweep'[q] = Resting
      /\ UNCHANGED row
  BY DEF Restart, rows
<1>3. \A p \in Ops : op'[p].cur = {} /\ op[p].kind \in {"none", "remove"}
  BY <1>1, <1>2, IdleNone DEF Idle, SigningOut
<1>4. OpsQuiet(u)
  BY <1>3 DEF OpsQuiet, Off, Fetching, LockedOff
<1>5. \A q \in Sweeps : QuietAt(q, u)
  BY <1>1, <1>2 DEF QuietAt, Told, Undoes, Resting
<1>6. StaysFresh(u)
  BY <1>3 DEF StaysFresh
<1>7. WillServe(u)' => WillServe(u)
  BY Loses DEF TInv, SInv, Restart
<1> QED  BY <1>2, <1>4, <1>5, <1>6, <1>7, Quiet

LEMMA GInvStays == ASSUME TInv, OInv, SInv, GInv, Calm, [Next]_vars PROVE GInv'
<1> SUFFICES ASSUME NEW u \in Users PROVE Minded(u)'
  BY DEF GInv
<1>1. Minded(u)
  BY DEF GInv
<1>2. CASE UNCHANGED vars
  BY <1>1, <1>2, NodeG, SameWire DEF vars
<1>3. ASSUME NEW p \in Ops, Begins(p) \/ \E v \in Users : SweepSessions(p, v) PROVE Minded(u)'
  BY <1>1, <1>3, BeginsG
<1>4. ASSUME NEW p \in Ops, Step(p) \/ RemoveFails(p) PROVE Minded(u)'
  BY <1>1, <1>4, PlainStepsG, NoteSwitchOnG, SendCommandG, SwitchOffG, FinishedG, RecheckG DEF Step
<1>5. ASSUME NEW q \in Sweeps, SweepStep(q) PROVE Minded(u)'
  BY <1>1, <1>5, SweepStepsG
<1>6. ASSUME NEW q \in Sweeps, Periodic(q) PROVE Minded(u)'
  BY <1>1, <1>6, StartsG DEF Periodic, rows
<1>7. ASSUME NEW q \in Sweeps, Reconnect(q) PROVE Minded(u)'
  BY <1>1, <1>7, StartsG DEF Reconnect, rows
<1>8. ASSUME NEW q \in Sweeps, NEW U \in SUBSET Users, LiftHold(q, U) PROVE Minded(u)'
  BY <1>1, <1>8, StartsG DEF LiftHold
<1>9. ASSUME NEW v \in Users, Lapse(v) PROVE Minded(u)'
  BY <1>1, <1>9, NodeG, SameWire DEF Lapse
<1>10. ASSUME NEW v \in Users, Age(v) PROVE Minded(u)'
  <2>1. StaysFresh(u) /\ (WillServe(u)' => WillServe(u)) /\ UNCHANGED <<row, op>>
    BY <1>10, SameWire DEF Age, StaysFresh, rows
  <2>2. \A q \in Sweeps : QuietAt(q, u)
    BY <1>10, SameQuiet DEF Age
  <2> QED  BY <1>1, <2>1, <2>2, SweepQuiet
<1>11. CASE Execute
  BY <1>1, <1>11, NodeG, Executes DEF Execute, rows, TInv
<1>12. CASE Disconnect
  BY <1>1, <1>12, NodeG, Loses DEF Disconnect, rows, TInv, SInv
<1>13. CASE EngineRestarts
  BY <1>1, <1>13, NodeG, SameWire DEF EngineRestarts, rows
<1>14. CASE Restart
  BY <1>1, <1>14, RestartG
<1> QED  BY <1>2, <1>3, <1>4, <1>5, <1>6, <1>7, <1>8, <1>9, <1>10, <1>11, <1>12, <1>13, <1>14 DEF Next

\* In order, the node serves nothing that is gone.
LEMMA InOrderServes ==
  ASSUME InOrder, NEW u \in Users, WillServe(u)
  PROVE  u \in Live \/ SweepDue(u)
<1>1. u \in node
  BY DEF InOrder, WillServe
<1> QED  BY <1>1 DEF InOrder

LEMMA GInvBegins == ASSUME InOrder PROVE GInv
<1> SUFFICES ASSUME NEW u \in Users PROVE Minded(u)
  BY DEF GInv
<1>1. \A p \in Ops : ~Off(p, u)
  BY DEF InOrder, Idle, Off
<1>2. Cleared(u)
  BY DEF InOrder, Resting, Cleared, Told, Passes
<1>3. row[u] = "gone" => ~WillServe(u)
  BY InOrderServes DEF Live, SweepDue, Exists
<1> QED  BY <1>1, <1>2, <1>3 DEF Minded, OffKnown, OffSent, GoneStaysOff

\* A stutter is calm.
LEMMA StutterIsCalm == ASSUME OInv, SInv, UNCHANGED vars PROVE Calm
<1>1. UNCHANGED <<op, sweep>>
  BY DEF vars
<1>2. \A p \in Ops : BeginsApart(p) /\ NotesApart(p)
  BY <1>1, IdleNone DEF BeginsApart, NotesApart
<1>3. \A q \in Sweeps : LiftsApart(q)
  BY <1>1 DEF LiftsApart, SInv, SweepFormed
<1>4. CutsNothing
  BY <1>1 DEF CutsNothing, Restart, Idle, Resting, IsIdle
<1> QED  BY <1>2, <1>3, <1>4 DEF Calm

LEMMA Inductive ==
  ASSUME TInv, OInv, SInv, GInv, [Next]_vars, [Calm]_vars PROVE TInv' /\ OInv' /\ SInv' /\ GInv'
<1>1. Calm
  BY StutterIsCalm
<1> QED  BY <1>1, TypesStay, OInvStays, SInvStays, GInvStays

\* From whatever state is in order, and through any steps that overlap nothing they
\* could be disturbed by, save that a row may be removed while an expiry works
\* through its list: a credential whose row is gone is off its node, or will be,
\* but for a re-assert that is about to take itself back.
THEOREM GoneIsOffUnlessRaced == Spec => [](InOrder /\ [][Calm]_vars => []GoneIsOff)
<1> DEFINE IInv == TInv /\ OInv /\ SInv /\ GInv
<1>1. Init => TInv /\ Customer
  BY TypesBegin DEF Init, Customer
<1>2. TInv /\ Customer /\ [Next]_vars => TInv' /\ Customer'
  BY TypesStay, CustomerStays
<1>3. TInv /\ Customer /\ InOrder => IInv
  BY OInvBegins, SInvBegins, GInvBegins
<1>4. IInv /\ [Next]_vars /\ [Calm]_vars => IInv'
  BY Inductive
<1>5. IInv => GoneIsOff
  BY DEF GInv, Minded, GoneStaysOff, Undone, Undoes, GoneIsOff
<1> HIDE DEF IInv
<1> QED  BY <1>1, <1>2, <1>3, <1>4, <1>5, PTL DEF Spec

-----------------------------------------------------------------------------
(***************************************************************************)
(* What the node will serve, and what a re-assert will say, is live; or    *)
(* somebody is on the way to switch it off.                                *)
(***************************************************************************)
\* Operation p has u among its rows and will switch it off, or goes on to the
\* shared ones that are on.
HasToDo(p, u) ==
  /\ op[p].kind \in OffKinds /\ u \in op[p].todo
  /\ op[p].pc = "rows" /\ op[p].kind # "remove" => row[u] = "ACTIVE"

Awaits(p, u) ==
  \/ HasToDo(p, u)
  \/ op[p].then = "off" /\ row[u] = "ACTIVE"

Awaited(u) == \E p \in Ops : Awaits(p, u)

BeingEnabled(u) == \E p \in Ops : op[p].kind = "enable" /\ u \in op[p].cur

\* It is live, or not for long without an operation or the hourly sweep.
Covered(u) ==
  \/ u \in Live \/ SweepDue(u)
  \/ Exists(u) /\ Awaited(u)
  \/ ~paid /\ Fetching(u)
  \/ Exists(u) /\ LiveOnceActive(u) /\ BeingEnabled(u)

\* Its switch-off is noted and about to be sent.
OffComing(u) == \E p \in Ops : Off(p, u) /\ op[p].pc = "send"

\* Re-assert q will switch it off again.
TakesBack(q, u) == u \in sweep[q].cur /\ (sweep[q].pc = "repeat" \/ u \in sweep[q].since)

\* Re-assert q is to say that it is on, as far as it knows.
WillAssert(q, u) ==
  \/ /\ sweep[q].pc \notin {"idle", "read"} /\ u \in sweep[q].todo
     /\ sweep[q].kind = "lift" \/ u \notin sweep[q].off
  \/ sweep[q].pc = "send" /\ u \in sweep[q].cur /\ u \notin sweep[q].since

Tended(u) ==
  /\ WillServe(u) => Covered(u) \/ OffComing(u) \/ \E q \in Sweeps : TakesBack(q, u)
  /\ \A q \in Sweeps : WillAssert(q, u) => Covered(u)

DInv == \A u \in Users : Tended(u)

\* The re-asserts learn nothing that speaks for u.
SweepsKeep(u) ==
  \A q \in Sweeps : (TakesBack(q, u) => TakesBack(q, u)') /\ (WillAssert(q, u)' => WillAssert(q, u))

\* The operations have what they had of u still before them.
OpsKeep(u) ==
  /\ Exists(u) /\ Awaited(u) => Awaited(u)'
  /\ Fetching(u) => Fetching(u)'
  /\ BeingEnabled(u) => BeingEnabled(u)'
  /\ OffComing(u) => OffComing(u)'

LEMMA CoveredIsTended == ASSUME NEW u \in Users, Covered(u)' PROVE Tended(u)'
BY DEF Tended

LEMMA StaysTended ==
  ASSUME NEW u \in Users, Tended(u), Covered(u) => Covered(u)', OffComing(u) => OffComing(u)',
         SweepsKeep(u), WillServe(u)' => WillServe(u)
  PROVE  Tended(u)'
<1>1. \A q \in Sweeps : WillAssert(q, u)' => Covered(u)'
  BY DEF SweepsKeep, Tended
<1>2. WillServe(u)' => Covered(u)' \/ OffComing(u)' \/ \E q \in Sweeps : TakesBack(q, u)'
  BY DEF SweepsKeep, Tended
<1> QED  BY <1>1, <1>2 DEF Tended

\* What is left of the reasons why u is on, when its row stays.
LEMMA StaysCovered ==
  ASSUME NEW u \in Users, row'[u] = row[u], signedOut \subseteq signedOut',
         u \in Live => Covered(u)', Exists(u) /\ Awaited(u) => Awaited(u)',
         ~paid /\ Fetching(u) => ~paid' /\ Fetching(u)',
         LiveOnceActive(u) /\ BeingEnabled(u) => LiveOnceActive(u)' /\ BeingEnabled(u)'
  PROVE  Covered(u) => Covered(u)'
<1>1. Exists(u)' <=> Exists(u)
  BY DEF Exists
<1>2. SweepDue(u) => SweepDue(u)'
  BY <1>1 DEF SweepDue
<1> QED  BY <1>1, <1>2 DEF Covered

LEMMA SameCover ==
  ASSUME NEW u \in Users, UNCHANGED rows, OpsKeep(u)
  PROVE  Covered(u) => Covered(u)'
<1>1. UNCHANGED <<row, paid, enabled, signedOut, held>>
  BY DEF rows
<1>2. (LiveOnceActive(u)' <=> LiveOnceActive(u)) /\ (u \in Live => u \in Live')
  BY <1>1 DEF LiveOnceActive, Live
<1>3. u \in Live => Covered(u)'
  BY <1>2 DEF Covered
<1> QED  BY <1>1, <1>2, <1>3, StaysCovered DEF OpsKeep

LEMMA SameOpsKeep == ASSUME NEW u \in Users, UNCHANGED <<op, row>> PROVE OpsKeep(u)
BY DEF OpsKeep, Awaited, Awaits, HasToDo, Fetching, BeingEnabled, OffComing, Off

LEMMA SameSweepsKeep == ASSUME NEW u \in Users, UNCHANGED sweep PROVE SweepsKeep(u)
BY DEF SweepsKeep, TakesBack, WillAssert

\* Operation p is not done with u by what it does next.
Spares(p, u, pc, todo, cur) ==
  /\ pc # "rows" /\ row'[u] = row[u]
  /\ Exists(u) /\ HasToDo(p, u) => u \in todo
  /\ u \in op[p].cur => u \in cur \/ op[p].kind \notin {"fetch", "enable"}
  /\ u \in op[p].cur /\ op[p].kind \in OffKinds /\ op[p].pc = "send" => u \in cur /\ pc = "send"

LEMMA GoesKeep ==
  ASSUME NEW p \in Ops, NEW pc, NEW todo, NEW cur, Goes(p, op[p].kind, pc, todo, cur), NEW u \in Users,
         Spares(p, u, pc, todo, cur)
  PROVE  OpsKeep(u)
<1>1. /\ op'[p].kind = op[p].kind /\ op'[p].pc = pc /\ op'[p].cur = cur /\ op'[p].todo = todo
      /\ op'[p].then = op[p].then
      /\ \A o \in Ops \ {p} : op'[o] = op[o]
  BY DEF Goes
<1>2. Exists(u) => \A o \in Ops : Awaits(o, u) => Awaits(o, u)'
  BY <1>1 DEF Awaits, HasToDo, Spares, HasToDo
<1>3. Fetching(u) => Fetching(u)'
  BY <1>1 DEF Fetching, Spares, HasToDo, OffKinds
<1>4. BeingEnabled(u) => BeingEnabled(u)'
  BY <1>1 DEF BeingEnabled, Spares, HasToDo
<1>5. OffComing(u) => OffComing(u)'
  BY <1>1 DEF OffComing, Off, Spares, HasToDo
<1> QED  BY <1>2, <1>3, <1>4, <1>5 DEF OpsKeep, Awaited

\* Operation p becomes another, and had nothing of u before it.
LEMMA TurnsKeep ==
  ASSUME NEW p \in Ops, NEW r, Turns(p, r), NEW u \in Users, row'[u] = row[u],
         ~Awaits(p, u) \/ Awaits(p, u)', u \in op[p].cur => op[p].kind \notin {"fetch", "enable"} /\ op[p].pc # "send"
  PROVE  OpsKeep(u)
<1>1. \A o \in Ops \ {p} : op'[o] = op[o]
  BY DEF Turns
<1>2. \A o \in Ops : Awaits(o, u) => Awaits(o, u)'
  BY <1>1 DEF Awaits, HasToDo
<1>3. Fetching(u) => Fetching(u)'
  BY <1>1 DEF Fetching
<1>4. BeingEnabled(u) => BeingEnabled(u)'
  BY <1>1 DEF BeingEnabled
<1>5. OffComing(u) => OffComing(u)'
  BY <1>1 DEF OffComing, Off
<1> QED  BY <1>2, <1>3, <1>4, <1>5 DEF OpsKeep, Awaited

LEMMA NotedOffKeeps ==
  ASSUME NEW v \in Users, \A q \in Sweeps : IsNotedOff(q, v), NEW u \in Users
  PROVE  SweepsKeep(u)
BY DEF SweepsKeep, IsNotedOff, TakesBack, WillAssert

LEMMA NotedOnKeeps ==
  ASSUME NEW v \in Users, \A q \in Sweeps : IsNotedOn(q, v), NEW u \in Users, u # v
  PROVE  SweepsKeep(u)
BY DEF SweepsKeep, IsNotedOn, SweepIs, TakesBack, WillAssert

-----------------------------------------------------------------------------
(***************************************************************************)
(* An operation that begins is alone with u if it switches on what another *)
(* one is switching off, or the other way round.                           *)
(***************************************************************************)
LEMMA BeginKeeps ==
  ASSUME TInv, OInv, NEW p \in Ops, NEW r, IsIdle(p), Turns(p, r), NEW u \in Users, row'[u] = row[u]
  PROVE  OpsKeep(u)
<1>1. op[p].kind = "none" /\ op[p].cur = {}
  BY IdleNone
<1>2. op[p].then = "none"
  BY <1>1, Fields DEF OInv, Formed, TInv
<1>3. ~Awaits(p, u)
  BY <1>1, <1>2 DEF Awaits, HasToDo, OffKinds
<1> QED  BY <1>1, <1>3, TurnsKeep

LEMMA NoneEnabled ==
  ASSUME TInv, OInv, Calm, NEW p \in Ops, NEW kind \in Kinds, Starts(p, kind), NEW u \in Users
  PROVE  ~BeingEnabled(u) /\ (kind = "enable" => ~Fetching(u))
BY Company DEF BeingEnabled, Fetching

\* What a beginning does not touch.
LEMMA BeginsTend ==
  ASSUME TInv, OInv, NEW p \in Ops, Begins(p) \/ \E v \in Users : SweepSessions(p, v),
         NEW u \in Users, Tended(u), Covered(u) => Covered(u)'
  PROVE  Tended(u)'
<1>1. /\ UNCHANGED <<row, sweep, fresh, wire, connected, node>>
      /\ UNCHANGED op \/ (IsIdle(p) /\ \E r : Turns(p, r) /\ r.cur = {})
  BY BeginsShape
<1>2. OpsKeep(u)
  BY <1>1, SameOpsKeep, BeginKeeps
<1>3. SweepsKeep(u) /\ (WillServe(u)' => WillServe(u))
  BY <1>1, SameSweepsKeep, SameWire
<1> QED  BY <1>2, <1>3, StaysTended DEF OpsKeep

\* One that begins with the rows as they are.
LEMMA BeginsSameRows ==
  ASSUME TInv, OInv, NEW p \in Ops, Begins(p) \/ \E v \in Users : SweepSessions(p, v),
         NEW u \in Users, UNCHANGED rows
  PROVE  Covered(u) => Covered(u)'
<1>1. UNCHANGED op \/ (IsIdle(p) /\ \E r : Turns(p, r) /\ r.cur = {})
  BY BeginsShape
<1>2. OpsKeep(u)
  BY <1>1, SameOpsKeep, BeginKeeps DEF rows
<1> QED  BY <1>2, SameCover

LEMMA EndSubscriptionCovers ==
  ASSUME TInv, OInv, Calm, NEW p \in Ops, EndSubscription(p), NEW u \in Users
  PROVE  Covered(u) => Covered(u)'
<1>1. Begin(p, "disable", Users, FALSE, "none") /\ paid' = FALSE /\ paid
      /\ UNCHANGED <<devices, row, enabled, signedOut, held>>
  BY DEF EndSubscription
<1>2. IsIdle(p) /\ Starts(p, "disable")
  BY <1>1, BegunStarts DEF Kinds, Starts
<1>3. Turns(p, Begun("disable", Users, FALSE, "none"))
  BY <1>1, BeginTurns DEF TInv
<1>4. OpsKeep(u) /\ ~BeingEnabled(u)
  BY <1>1, <1>2, <1>3, BeginKeeps, NoneEnabled DEF Kinds
<1>5. u \in Live => Covered(u)'
  <2>1. op'[p].kind = "disable" /\ op'[p].todo = Users
    BY <1>3 DEF Turns, Begun
  <2>2. row[u] = "ACTIVE" => Awaits(p, u)'
    BY <1>1, <2>1 DEF Awaits, HasToDo, OffKinds
  <2> QED  BY <1>1, <2>2 DEF Live, Covered, Awaited, Exists
<1> QED  BY <1>1, <1>4, <1>5, StaysCovered DEF OpsKeep

LEMMA RenewCovers ==
  ASSUME TInv, OInv, Calm, NEW p \in Ops, Renew(p), NEW u \in Users
  PROVE  Covered(u) => Covered(u)'
<1>1. Begin(p, "enable", Users, FALSE, "create") /\ paid' = TRUE
      /\ UNCHANGED <<devices, row, enabled, signedOut, held>>
  BY DEF Renew
<1>2. IsIdle(p) /\ Starts(p, "enable")
  BY <1>1, BegunStarts DEF Kinds, Starts
<1>3. Turns(p, Begun("enable", Users, FALSE, "create"))
  BY <1>1, BeginTurns DEF TInv
<1>4. OpsKeep(u) /\ ~BeingEnabled(u) /\ ~Fetching(u)
  BY <1>1, <1>2, <1>3, BeginKeeps, NoneEnabled DEF Kinds
<1>5. u \in Live => Covered(u)'
  BY <1>1 DEF Live, LiveOnceActive, Covered
<1> QED  BY <1>1, <1>4, <1>5, StaysCovered DEF OpsKeep

LEMMA DisableCustomerCovers ==
  ASSUME TInv, OInv, Calm, NEW p \in Ops, DisableCustomer(p), NEW u \in Users
  PROVE  Covered(u) => Covered(u)'
<1>1. Begin(p, "remove", devices, TRUE, "off") /\ enabled' = FALSE /\ signedOut' = devices
      /\ UNCHANGED <<devices, row, paid, held>>
  BY DEF DisableCustomer
<1>2. IsIdle(p) /\ Starts(p, "remove") /\ devices \in SUBSET Users /\ signedOut \subseteq devices
  BY <1>1, BegunStarts DEF Kinds, Starts, TInv, RowsOK
<1>3. Turns(p, Begun("remove", devices, TRUE, "off"))
  BY <1>1, <1>2, BeginTurns DEF TInv
<1>4. OpsKeep(u) /\ ~BeingEnabled(u)
  BY <1>1, <1>2, <1>3, BeginKeeps, NoneEnabled DEF Kinds
<1>5. u \in Live => Covered(u)'
  <2>1. op'[p].then = "off"
    BY <1>3 DEF Turns, Begun
  <2>2. row[u] = "ACTIVE" => Awaits(p, u)'
    BY <1>1, <2>1 DEF Awaits, HasToDo
  <2> QED  BY <1>1, <2>2 DEF Live, Covered, Awaited, Exists
<1> QED  BY <1>1, <1>2, <1>4, <1>5, StaysCovered DEF OpsKeep

LEMMA SignOutCovers ==
  ASSUME TInv, OInv, Calm, NEW p \in Ops, NEW v \in Users, SignOut(p, v), NEW u \in Users
  PROVE  Covered(u) => Covered(u)'
<1>1. Begin(p, "remove", {v}, TRUE, "none") /\ signedOut' = signedOut \cup {v}
      /\ UNCHANGED <<devices, row, paid, enabled, held>>
  BY DEF SignOut
<1>2. IsIdle(p) /\ Starts(p, "remove")
  BY <1>1, BegunStarts, {v} \in SUBSET Users DEF Kinds, Starts
<1>3. Turns(p, Begun("remove", {v}, TRUE, "none"))
  BY <1>1, BeginTurns DEF TInv
<1>4. OpsKeep(u) /\ ~BeingEnabled(u)
  BY <1>1, <1>2, <1>3, BeginKeeps, NoneEnabled DEF Kinds
<1>5. u \in Live => Covered(u)'
  <2>1. CASE u = v
    BY <1>1, <2>1 DEF Live, Covered, SweepDue, Exists
  <2>2. CASE u # v
    BY <1>1, <2>2 DEF Live, Covered, LiveOnceActive
  <2> QED  BY <2>1, <2>2
<1> QED  BY <1>1, <1>4, <1>5, StaysCovered DEF OpsKeep

LEMMA EnableCustomerCovers ==
  ASSUME TInv, OInv, Calm, NEW p \in Ops, EnableCustomer(p), NEW u \in Users
  PROVE  Covered(u) => Covered(u)'
<1>1. enabled' = TRUE /\ UNCHANGED <<devices, row, paid, signedOut, held>>
  BY DEF EnableCustomer
<1>2. UNCHANGED op \/ (IsIdle(p) /\ \E r : Turns(p, r) /\ r.cur = {})
  BY BeginsShape DEF Begins
<1>3. OpsKeep(u)
  BY <1>1, <1>2, SameOpsKeep, BeginKeeps
<1>4. LiveOnceActive(u) => LiveOnceActive(u)'
  BY <1>1 DEF LiveOnceActive
<1>5. u \in Live => Covered(u)'
  BY <1>1, <1>4 DEF Live, Covered
<1> QED  BY <1>1, <1>3, <1>4, <1>5, StaysCovered DEF OpsKeep

LEMMA BeginsD ==
  ASSUME TInv, OInv, Calm, NEW p \in Ops, Begins(p) \/ \E v \in Users : SweepSessions(p, v),
         NEW u \in Users, Tended(u)
  PROVE  Tended(u)'
<1>1. CASE UNCHANGED rows
  BY <1>1, BeginsSameRows, BeginsTend
<1>2. CASE EndSubscription(p) \/ Renew(p) \/ DisableCustomer(p) \/ EnableCustomer(p)
  BY <1>2, EndSubscriptionCovers, RenewCovers, DisableCustomerCovers, EnableCustomerCovers, BeginsTend
<1>3. ASSUME NEW v \in Users, SignOut(p, v) PROVE Tended(u)'
  BY <1>3, SignOutCovers, BeginsTend
<1> QED  BY <1>1, <1>2, <1>3 DEF Begins, SetEnabled, Provision, Remove, Fetch, Hold, SweepSessions

-----------------------------------------------------------------------------
\* Operation p goes on, and no re-assert, nor the node, is told.
LEMMA GoesD ==
  ASSUME NEW u \in Users, Tended(u), OffComing(u) => OffComing(u)', Covered(u) => Covered(u)',
         UNCHANGED <<sweep, wire, node>>
  PROVE  Tended(u)'
<1>1. SweepsKeep(u) /\ (WillServe(u)' => WillServe(u))
  BY SameSweepsKeep, SameWire
<1> QED  BY <1>1, StaysTended

LEMMA KeepsD ==
  ASSUME NEW u \in Users, Tended(u), OpsKeep(u), UNCHANGED <<rows, sweep, wire, node>>
  PROVE  Tended(u)'
BY SameCover, GoesD DEF OpsKeep

LEMMA ReadRowsD ==
  ASSUME TInv, OInv, NEW p \in Ops, ReadRows(p), NEW u \in Users, Tended(u)
  PROVE  Tended(u)'
<1>1. op[p].pc = "rows" /\ op[p].cur = {} /\ UNCHANGED <<rows, sweep, wire, node>>
  BY Here DEF ReadRows
<1>2. PICK pc, todo, none :
        /\ pc = IF op[p].kind = "hold" THEN "lease" ELSE "next"
        /\ todo = Matching(op[p].kind, op[p].todo) /\ none = {}
  OBVIOUS
<1>3. Goes(p, op[p].kind, pc, todo, none)
  BY <1>1, <1>2, ReadGoes DEF TInv
<1>4. Exists(u) /\ HasToDo(p, u) => u \in todo
  BY <1>1, <1>2 DEF Matching, OffKinds, HasToDo
<1>5. row'[u] = row[u] /\ pc # "rows" /\ u \notin op[p].cur
  BY <1>1, <1>2 DEF rows
<1>6. Spares(p, u, pc, todo, none)
  BY <1>1, <1>4, <1>5 DEF Spares, HasToDo
<1>7. OpsKeep(u)
  BY <1>3, <1>6, GoesKeep
<1> QED  BY <1>1, <1>7, KeepsD

LEMMA LeaseD ==
  ASSUME TInv, OInv, NEW p \in Ops, Lease(p), NEW u \in Users, Tended(u)
  PROVE  Tended(u)'
<1>1. /\ op[p].kind = "hold" /\ op[p].cur = {} /\ op[p].pc = "lease"
      /\ held' = held \cup {v \in op[p].todo : Exists(v)}
      /\ UNCHANGED <<devices, row, paid, enabled, signedOut, sweep, wire, node>>
  BY Here DEF Lease
<1>2. Goes(p, op[p].kind, "next", op[p].todo, op[p].cur)
  BY LeaseGoes DEF TInv
<1>3. OpsKeep(u)
  <2>1. PICK todo, none : todo = op[p].todo /\ none = {}
    OBVIOUS
  <2>2. Goes(p, op[p].kind, "next", todo, none) /\ row'[u] = row[u] /\ u \notin op[p].cur
    BY <1>1, <1>2, <2>1
  <2>3. Spares(p, u, "next", todo, none)
    BY <1>1, <2>1, <2>2 DEF Spares, HasToDo
  <2> QED  BY <2>2, <2>3, GoesKeep
<1>4. ~BeingEnabled(u)
  <2>1. \A o \in Ops : op[o].kind = "enable" => o # p /\ Together(o, p)
    BY <1>1 DEF OInv
  <2> QED  BY <1>1, <2>1 DEF BeingEnabled, Together
<1>5. u \in Live => Covered(u)'
  <2>1. CASE u \in op[p].todo
    <3>1. op'[p].kind = "hold" /\ op'[p].todo = op[p].todo /\ op'[p].pc = "next"
      BY <1>1, <1>2 DEF Goes
    <3>2. Awaits(p, u)'
      BY <2>1, <3>1 DEF Awaits, HasToDo, OffKinds
    <3> QED  BY <1>1, <3>2 DEF Live, Covered, Awaited, Exists
  <2>2. CASE u \notin op[p].todo
    BY <1>1, <2>2 DEF Live, Covered, LiveOnceActive
  <2> QED  BY <2>1, <2>2
<1>6. Covered(u) => Covered(u)'
  BY <1>1, <1>3, <1>4, <1>5, StaysCovered DEF OpsKeep
<1> QED  BY <1>1, <1>3, <1>6, GoesD DEF OpsKeep

LEMMA EndOpD ==
  ASSUME TInv, OInv, NEW p \in Ops, EndOp(p), NEW u \in Users, Tended(u)
  PROVE  Tended(u)'
<1>1. op[p].pc = "next" /\ op[p].todo = {} /\ op[p].cur = {} /\ UNCHANGED <<rows, sweep, wire, node>>
  BY Here DEF EndOp
<1>2. PICK r : r = Follow(p)
  OBVIOUS
<1>3. Turns(p, r)
  BY <1>2, EndTurns DEF TInv
<1>4. ASSUME Awaits(p, u) PROVE Awaits(p, u)'
  <2>1. op[p].then = "off" /\ row[u] = "ACTIVE"
    BY <1>1, <1>4 DEF Awaits, HasToDo
  <2>2. r = Begun("off", Users, TRUE, "none")
    BY <1>2, <2>1 DEF Follow
  <2>3. op'[p].kind = "off" /\ op'[p].todo = Users
    BY <1>3, <2>2 DEF Turns, Begun
  <2> QED  BY <1>1, <2>1, <2>3 DEF Awaits, HasToDo, OffKinds, rows
<1>5. OpsKeep(u)
  BY <1>1, <1>3, <1>4, TurnsKeep DEF rows
<1> QED  BY <1>1, <1>5, KeepsD

LEMMA OnwardKeep ==
  ASSUME TInv, NEW p \in Ops, Onward(p), op[p].pc = "write", NEW u \in Users, row'[u] = row[u],
         u \in op[p].cur => op[p].kind \notin {"fetch", "enable"}
  PROVE  OpsKeep(u)
<1>1. PICK none : none = {}
  OBVIOUS
<1>2. PICK todo : todo = op[p].todo
  OBVIOUS
<1>3. Goes(p, op[p].kind, "next", todo, none)
  BY <1>1, <1>2, OnwardGoes DEF TInv
<1>4. Spares(p, u, "next", todo, none)
  BY <1>1, <1>2 DEF Spares, HasToDo
<1> QED  BY <1>3, <1>4, GoesKeep

LEMMA RemoveFailsD ==
  ASSUME TInv, OInv, NEW p \in Ops, RemoveFails(p), NEW u \in Users, Tended(u)
  PROVE  Tended(u)'
<1>1. op[p].kind = "remove" /\ op[p].lock /\ UNCHANGED <<rows, sweep, wire, node>>
  BY DEF RemoveFails
<1>2. CASE Onward(p) /\ op[p].pc = "write"
  BY <1>1, <1>2, OnwardKeep, KeepsD DEF rows
<1>3. ASSUME op[p].pc = "next", NEW v \in op[p].todo, op' = [op EXCEPT ![p].todo = @ \ {v}]
      PROVE  Tended(u)'
  <2>1. Goes(p, op[p].kind, op[p].pc, op[p].todo \ {v}, op[p].cur) /\ op[p].cur = {}
    BY <1>3, SkipGoes, Here DEF TInv
  <2>2. CASE u # v
    <3>1. PICK todo, none : todo = op[p].todo \ {v} /\ none = {}
      OBVIOUS
    <3>2. Goes(p, op[p].kind, "next", todo, none) /\ (u \in op[p].todo => u \in todo) /\ row'[u] = row[u]
      BY <1>1, <1>3, <2>1, <2>2, <3>1 DEF rows
    <3>3. Spares(p, u, "next", todo, none)
      BY <2>1, <3>2 DEF Spares, HasToDo
    <3>4. OpsKeep(u)
      BY <3>2, <3>3, GoesKeep
    <3> QED  BY <1>1, <3>4, KeepsD
  <2>3. CASE u = v
    <3>1. u \in signedOut
      BY <1>1, <1>3, <2>3 DEF OInv, RowsFit, Removing
    <3>2. OffComing(u) => OffComing(u)'
      BY <1>3, <2>1 DEF OffComing, Off, Goes
    <3>3. CASE Exists(u)
      <4>1. Covered(u)'
        BY <1>1, <3>1, <3>3 DEF Covered, SweepDue, Exists, rows
      <4> QED  BY <4>1, CoveredIsTended
    <3>4. CASE ~Exists(u)
      <4>1. (Covered(u) => ~paid /\ Fetching(u)) /\ (Fetching(u) => Fetching(u)')
        BY <3>4, <2>1 DEF Covered, SweepDue, Live, Exists, Fetching, Goes
      <4>2. Covered(u) => Covered(u)'
        BY <1>1, <4>1 DEF Covered, rows
      <4> QED  BY <1>1, <3>2, <4>2, GoesD
    <3> QED  BY <3>3, <3>4
  <2> QED  BY <2>2, <2>3
<1> QED  BY <1>2, <1>3 DEF RemoveFails

LEMMA SwitchOnD ==
  ASSUME TInv, OInv, NEW p \in Ops, NEW v \in Users, SwitchOn(p, v), NEW u \in Users, Tended(u)
  PROVE  Tended(u)'
<1>1. op[p].kind = "enable" /\ op[p].cur = {} /\ UNCHANGED <<rows, sweep, wire, node>>
  BY Here DEF SwitchOn
<1>2. PICK pc \in {"note", "send", "write"} : At(p, v, pc)
  BY DEF SwitchOn
<1>3. Goes(p, op[p].kind, pc, op[p].todo \ {v}, {v})
  BY <1>2, AtGoes DEF TInv
<1>4. op[p].kind \notin OffKinds
  BY <1>1 DEF OffKinds
<1>5. Spares(p, u, pc, op[p].todo \ {v}, {v})
  BY <1>1, <1>2, <1>4 DEF Spares, HasToDo, rows
<1>6. OpsKeep(u)
  BY <1>3, <1>5, GoesKeep
<1> QED  BY <1>1, <1>6, KeepsD

LEMMA InsertD ==
  ASSUME TInv, OInv, NEW p \in Ops, NEW v \in Users, Insert(p, v), NEW u \in Users, Tended(u)
  PROVE  Tended(u)'
<1>1. /\ op[p].kind \in {"create", "fetch"} /\ op[p].cur = {} /\ op[p].pc = "next" /\ v \in op[p].todo
      /\ UNCHANGED <<devices, paid, enabled, signedOut, held, sweep, wire, node>>
      /\ row' = [row EXCEPT ![v] = "ACTIVE"]
  BY Here DEF Insert
<1>2. Goes(p, op[p].kind, "note", op[p].todo \ {v}, {v}) /\ op[p].kind \notin OffKinds
  BY <1>1, AtGoes DEF TInv, Insert, OffKinds
<1>3. CASE u # v
  <2>1. row'[u] = row[u]
    BY <1>1, <1>3 DEF TInv, RowsOK
  <2>2. OpsKeep(u)
    <3>1. Spares(p, u, "note", op[p].todo \ {v}, {v})
      BY <1>1, <1>2, <2>1 DEF Spares, HasToDo
    <3> QED  BY <1>2, <3>1, GoesKeep
  <2>3. u \in Live => Covered(u)'
    BY <1>1, <2>1 DEF Live, Covered, LiveOnceActive
  <2>4. Covered(u) => Covered(u)'
    BY <1>1, <2>1, <2>2, <2>3, StaysCovered DEF OpsKeep, LiveOnceActive
  <2> QED  BY <1>1, <2>2, <2>4, GoesD DEF OpsKeep
<1>4. CASE u = v
  <2>1. row[u] = "none"
    BY <1>1, <1>4 DEF OInv, RowsFit, Making
  <2>2. (Covered(u) => ~paid /\ Fetching(u)) /\ (Fetching(u) => Fetching(u)') /\ (OffComing(u) => OffComing(u)')
    BY <1>1, <1>2, <2>1 DEF Covered, SweepDue, Live, Exists, Fetching, OffComing, Off, Goes
  <2>3. Covered(u) => Covered(u)'
    BY <1>1, <2>2 DEF Covered
  <2> QED  BY <1>1, <2>2, <2>3, GoesD
<1> QED  BY <1>3, <1>4

\* Without its race, what an update finds gone was the last of its list.
LEMMA AbortD ==
  ASSUME TInv, OInv, ~Aborts, NEW p \in Ops, NEW v \in Users, Abort(p, v), NEW u \in Users, Tended(u)
  PROVE  Tended(u)'
<1>1. /\ op[p].pc = "write" /\ v \in op[p].cur /\ op[p].kind \in {"disable", "enable"} /\ ~Exists(v)
      /\ UNCHANGED <<rows, sweep, wire, node>> /\ RowsFit(p) /\ Formed(op[p])
  BY DEF Abort, OInv
<1>2. op[p].kind = "disable" /\ op[p].lock
  BY <1>1 DEF RowsFit, Enabling, SwitchingOff
<1>3. op[p].todo = {} /\ op[p].then # "off"
  BY <1>1, <1>2 DEF Formed
<1>4. Turns(p, Idle)
  BY Turned, IdleOp DEF Abort, TInv
<1>5. ~Awaits(p, u)
  BY <1>3 DEF Awaits, HasToDo
<1>6. OpsKeep(u)
  BY <1>1, <1>2, <1>4, <1>5, TurnsKeep DEF rows
<1> QED  BY <1>1, <1>6, KeepsD

LEMMA QuietD ==
  ASSUME NEW u \in Users, Tended(u), OpsKeep(u), UNCHANGED rows, SweepsKeep(u), WillServe(u)' => WillServe(u)
  PROVE  Tended(u)'
BY SameCover, StaysTended DEF OpsKeep

\* What is being switched on is to be on.
LEMMA OnIsCovered ==
  ASSUME TInv, OInv, NEW o \in Ops, op[o].kind \in OnKinds, op[o].pc \in {"note", "send"},
         NEW u \in Users, u \in op[o].cur
  PROVE  Covered(u)
<1>1. RowsFit(o) /\ Customer /\ signedOut \subseteq devices /\ paid \in BOOLEAN /\ enabled \in BOOLEAN
  BY DEF OInv, TInv, RowsOK
<1>2. CASE op[o].kind = "enable"
  BY <1>1, <1>2 DEF RowsFit, Enabling, Covered, BeingEnabled
<1>3. CASE op[o].kind = "create"
  BY <1>1, <1>3 DEF RowsFit, Making, Creating, Covered, Live, LiveOnceActive
<1>4. CASE op[o].kind = "fetch"
  <2>1. Exists(u) /\ u \notin held /\ (paid => row[u] = "ACTIVE") /\ u \in devices
    BY <1>1, <1>4 DEF RowsFit, Making, FetchingOne
  <2>2. CASE u \in signedOut
    BY <2>1, <2>2 DEF Covered, SweepDue
  <2>3. CASE u \notin signedOut /\ paid
    BY <1>1, <2>1, <2>3 DEF Covered, Live, LiveOnceActive, Customer
  <2>4. CASE ~paid
    BY <1>4, <2>4 DEF Covered, Fetching
  <2> QED  BY <1>1, <2>2, <2>3, <2>4
<1> QED  BY <1>2, <1>3, <1>4 DEF OnKinds

LEMMA NoteSwitchOnD ==
  ASSUME TInv, OInv, NEW p \in Ops, NoteSwitchOn(p), NEW u \in Users, Tended(u)
  PROVE  Tended(u)'
<1>1. PICK v \in op[p].cur : NoteOn(v)
  BY DEF NoteSwitchOn
<1>2. v \in Users /\ op[p].pc = "note" /\ op[p].kind \in OnKinds
  BY <1>1, Here, Fields DEF NoteSwitchOn, TInv
<1>3. Goes(p, op[p].kind, "send", op[p].todo, op[p].cur)
  BY NoteGoes DEF TInv
<1>4. UNCHANGED <<rows, wire, node>>
  BY DEF NoteSwitchOn
<1>5. OpsKeep(u)
  <2>1. Spares(p, u, "send", op[p].todo, op[p].cur)
    BY <1>2, <1>4 DEF Spares, HasToDo, rows
  <2> QED  BY <1>3, <2>1, GoesKeep
<1>6. CASE u # v
  <2>1. \A q \in Sweeps : IsNotedOn(q, v)
    BY <1>1, <1>2, NoteOnGoes DEF TInv
  <2>2. SweepsKeep(u)
    BY <1>2, <1>6, <2>1, NotedOnKeeps
  <2> QED  BY <1>4, <1>5, <2>2, SameWire, QuietD
<1>7. CASE u = v
  <2>1. Covered(u)
    BY <1>1, <1>2, <1>7, OnIsCovered
  <2> QED  BY <1>4, <1>5, <2>1, SameCover, CoveredIsTended
<1> QED  BY <1>6, <1>7

LEMMA SendCommandD ==
  ASSUME TInv, OInv, NEW p \in Ops, SendCommand(p), NEW u \in Users, Tended(u)
  PROVE  Tended(u)'
<1> DEFINE says == IF op[p].kind \in OnKinds THEN "on" ELSE "off"
<1>1. PICK v \in op[p].cur : Send(v, says)
  BY DEF SendCommand, OnKinds
<1>2. says \in {"on", "off"} /\ (says = "on" <=> op[p].kind \in OnKinds)
  OBVIOUS
<1> HIDE DEF says
<1>3. v \in Users /\ op[p].pc = "send" /\ \A w \in op[p].cur : w = v
  BY <1>1, Here, Fields DEF SendCommand, TInv
<1>4. Joins(v, says, TRUE) /\ UNCHANGED <<rows, sweep, fresh, connected, node>>
  BY <1>1 DEF Send, Joins, SendCommand
<1>5. Goes(p, op[p].kind, "write", op[p].todo, op[p].cur)
  BY SendGoes DEF TInv
<1>6. SweepsKeep(u)
  BY <1>4, SameSweepsKeep
<1>7. CASE u # v \/ says = "on"
  <2>1. Spares(p, u, "write", op[p].todo, op[p].cur)
    BY <1>2, <1>3, <1>4, <1>7 DEF Spares, HasToDo, rows, OnKinds, OffKinds
  <2>2. OpsKeep(u)
    BY <1>5, <2>1, GoesKeep
  <2>3. CASE u # v
    <3>1. WillServe(u)' => WillServe(u)
      BY <1>2, <1>3, <1>4, <2>3, OnJoins, OffJoins DEF TInv
    <3> QED  BY <1>4, <1>6, <2>2, <3>1, QuietD
  <2>4. CASE u = v /\ says = "on"
    <3>1. Covered(u)
      BY <1>1, <1>2, <1>3, <2>4, OnIsCovered
    <3> QED  BY <1>4, <2>2, <3>1, SameCover, CoveredIsTended
  <2> QED  BY <1>7, <2>3, <2>4
<1>8. CASE u = v /\ says = "off"
  <2>1. ~WillServe(u)'
    BY <1>3, <1>4, <1>8, OffJoins DEF TInv
  <2>2. /\ op'[p].kind = op[p].kind /\ op'[p].cur = op[p].cur /\ op'[p].todo = op[p].todo
        /\ op'[p].then = op[p].then /\ op'[p].pc = "write" /\ \A o \in Ops \ {p} : op'[o] = op[o]
    BY <1>5 DEF Goes
  <2>3. UNCHANGED <<row, paid, enabled, signedOut, held>>
    BY <1>4 DEF rows
  <2>4. \A o \in Ops : Awaits(o, u) => Awaits(o, u)'
    BY <1>3, <2>2, <2>3 DEF Awaits, HasToDo
  <2>5. (Fetching(u) => Fetching(u)') /\ (BeingEnabled(u) => BeingEnabled(u)')
    BY <2>2 DEF Fetching, BeingEnabled
  <2>6. (LiveOnceActive(u) => LiveOnceActive(u)') /\ (u \in Live => u \in Live')
    BY <2>3 DEF LiveOnceActive, Live
  <2>7. Covered(u) => Covered(u)'
    BY <2>3, <2>4, <2>5, <2>6, StaysCovered DEF Awaited, Covered
  <2> QED  BY <1>6, <2>1, <2>7 DEF Tended, SweepsKeep
<1> QED  BY <1>2, <1>7, <1>8

\* A credential whose switch-off has just been noted, and is about to be sent.
LEMMA NotedIsTended ==
  ASSUME NEW u \in Users, NEW p \in Ops, Off(p, u)', op'[p].pc = "send", \A q \in Sweeps : IsNotedOff(q, u),
         \A q \in Sweeps : sweep[q].kind # "lift"
  PROVE  Tended(u)'
<1>1. OffComing(u)'
  BY DEF OffComing
<1>2. \A q \in Sweeps : ~WillAssert(q, u)'
  BY DEF WillAssert, IsNotedOff
<1> QED  BY <1>1, <1>2 DEF Tended

LEMMA SwitchOffD ==
  ASSUME TInv, OInv, SInv, Calm, NEW p \in Ops, NEW v \in Users, SwitchOff(p, v),
         NEW u \in Users, Tended(u)
  PROVE  Tended(u)'
<1>1. /\ op[p].pc = "next" /\ v \in op[p].todo /\ op[p].kind \in OffKinds /\ NoteOff(v)
      /\ UNCHANGED <<rows, wire, node>>
  BY DEF SwitchOff, OffKinds
<1>2. \A q \in Sweeps : IsNotedOff(q, v)
  BY <1>1, NoteOffGoes DEF TInv
<1>3. Goes(p, op[p].kind, "send", op[p].todo \ {v}, {v}) /\ op[p].cur = {}
  BY <1>1, AtGoes, Here DEF SwitchOff, TInv
<1>4. CASE u # v
  <2>1. Spares(p, u, "send", op[p].todo \ {v}, {v})
    BY <1>1, <1>3, <1>4 DEF Spares, HasToDo, rows
  <2>2. OpsKeep(u)
    BY <1>3, <2>1, GoesKeep
  <2>3. SweepsKeep(u)
    BY <1>2, NotedOffKeeps
  <2> QED  BY <1>1, <2>2, <2>3, SameWire, QuietD
<1>5. CASE u = v
  <2>1. Off(p, u)' /\ op'[p].pc = "send" /\ op'[p].kind \in OffKinds
    BY <1>1, <1>3, <1>5 DEF Off, Goes
  <2>2. \A q \in Sweeps : sweep[q].kind # "lift"
    BY <1>1, <2>1, NoLift
  <2> QED  BY <1>2, <1>5, <2>1, <2>2, NotedIsTended
<1> QED  BY <1>4, <1>5

LEMMA RecheckD ==
  ASSUME TInv, OInv, SInv, Calm, NEW p \in Ops, NEW v \in Users, Recheck(p, v),
         NEW u \in Users, Tended(u)
  PROVE  Tended(u)'
<1>1. /\ op[p].pc = "write" /\ v \in op[p].cur /\ op[p].kind = "fetch" /\ UNCHANGED <<rows, wire, node>>
      /\ \A w \in op[p].cur : w = v
  BY Here DEF Recheck
<1>2. UNCHANGED <<row, paid, enabled, signedOut, held>>
  BY <1>1 DEF rows
<1>3. (LiveOnceActive(u) => LiveOnceActive(u)') /\ (u \in Live => u \in Live')
  BY <1>2 DEF LiveOnceActive, Live
<1>4. CASE paid
  <2>1. Onward(p) /\ UNCHANGED <<sweep, fresh>>
    BY <1>4 DEF Recheck
  <2>2. PICK none : none = {}
    OBVIOUS
  <2>3. Goes(p, op[p].kind, "next", op[p].todo, none)
    BY <2>1, <2>2, OnwardGoes DEF TInv
  <2>4. \A o \in Ops : (Awaits(o, u) => Awaits(o, u)') /\ (Off(o, u) => Off(o, u)' /\ op'[o].pc = op[o].pc)
    BY <1>1, <1>2, <2>3 DEF Goes, Awaits, HasToDo, Off, OffKinds
  <2>5. BeingEnabled(u) => BeingEnabled(u)'
    BY <1>1, <2>3 DEF Goes, BeingEnabled
  <2>6. Covered(u) => Covered(u)'
    BY <1>2, <1>3, <1>4, <2>4, <2>5, StaysCovered DEF Awaited, Covered
  <2>7. OffComing(u) => OffComing(u)'
    BY <2>4 DEF OffComing
  <2> QED  BY <1>1, <2>1, <2>6, <2>7, GoesD
<1>5. CASE ~paid
  <2>1. NoteOff(v)
    BY <1>5 DEF Recheck
  <2>2. /\ op'[p].kind = "disable" /\ op'[p].pc = "send" /\ op'[p].cur = op[p].cur
        /\ op'[p].todo = op[p].todo /\ op'[p].then = op[p].then /\ \A o \in Ops \ {p} : op'[o] = op[o]
    BY <1>5, RecheckGoes DEF TInv, Goes
  <2>3. \A q \in Sweeps : IsNotedOff(q, v)
    BY <2>1, NoteOffGoes DEF TInv
  <2>4. CASE u = v
    <3>1. Off(p, u)'
      BY <1>1, <2>2, <2>4 DEF Off, OffKinds
    <3>2. \A q \in Sweeps : sweep[q].kind # "lift"
      BY <1>1, <2>2, NoLift DEF OffKinds
    <3> QED  BY <2>2, <2>3, <2>4, <3>1, <3>2, NotedIsTended
  <2>5. CASE u # v
    <3>1. \A o \in Ops : Awaits(o, u) => Awaits(o, u)'
      BY <1>1, <1>2, <2>2 DEF Awaits, HasToDo, OffKinds
    <3>2. (Fetching(u) => Fetching(u)') /\ (BeingEnabled(u) => BeingEnabled(u)')
      BY <1>1, <2>2, <2>5 DEF Fetching, BeingEnabled
    <3>3. OffComing(u) => OffComing(u)'
      BY <1>1, <2>2 DEF OffComing, Off
    <3>4. OpsKeep(u)
      BY <3>1, <3>2, <3>3 DEF OpsKeep, Awaited
    <3>5. SweepsKeep(u)
      BY <2>3, NotedOffKeeps
    <3> QED  BY <1>1, <3>4, <3>5, SameWire, QuietD
  <2> QED  BY <2>4, <2>5
<1> QED  BY <1>4, <1>5 DEF TInv, RowsOK

\* What has been done with: its switch-off is known, or sent.
LEMMA FinishedD ==
  ASSUME TInv, OInv, SInv, GInv, NEW p \in Ops, NEW v \in Users, Finished(p, v), NEW u \in Users, Tended(u)
  PROVE  Tended(u)'
<1>1. /\ op[p].pc = "write" /\ v \in op[p].cur /\ op[p].kind # "fetch" /\ Onward(p)
      /\ UNCHANGED <<devices, paid, enabled, signedOut, sweep, fresh, wire, node>>
      /\ \A w \in op[p].cur : w = v
  BY Here DEF Finished, WriteRow, rows
<1>2. /\ op'[p].kind = op[p].kind /\ op'[p].cur = {} /\ op'[p].todo = op[p].todo
      /\ op'[p].then = op[p].then /\ \A o \in Ops \ {p} : op'[o] = op[o]
  BY <1>1, OnwardGoes DEF TInv, Goes
<1>3. CASE UNCHANGED rows /\ op[p].kind # "enable"
  <2>1. OpsKeep(u)
    BY <1>1, <1>3, OnwardKeep DEF rows
  <2> QED  BY <1>1, <1>3, <2>1, KeepsD
<1>4. CASE u # v
  <2>1. row'[u] = row[u] /\ (u \in held' <=> u \in held)
    BY <1>4 DEF Finished, WriteRow, rows, TInv, RowsOK
  <2>2. OpsKeep(u)
    BY <1>1, <1>4, <2>1, OnwardKeep
  <2>3. LiveOnceActive(u) => LiveOnceActive(u)'
    BY <1>1, <2>1 DEF LiveOnceActive
  <2>4. u \in Live => Covered(u)'
    BY <2>1, <2>3 DEF Live, Covered
  <2>5. Covered(u) => Covered(u)'
    BY <1>1, <2>1, <2>2, <2>3, <2>4, StaysCovered DEF OpsKeep
  <2> QED  BY <1>1, <2>2, <2>5, GoesD DEF OpsKeep
<1>5. CASE u = v /\ op[p].kind = "enable"
  <2>1. row' = [row EXCEPT ![u] = "ACTIVE"] /\ held' = held
    BY <1>5 DEF Finished, WriteRow
  <2>2. row'[u] = "ACTIVE" /\ Exists(u)'
    BY <2>1 DEF TInv, RowsOK, Exists
  <2>3. \A o \in Ops \ {p} : op[o].kind = "none" /\ op[o].then = "none"
    <3>1. ASSUME NEW o \in Ops \ {p} PROVE op[o].kind = "none"
      BY <1>5, <3>1 DEF OInv, Together
    <3> QED  BY <3>1, Fields DEF OInv, Formed, TInv
  <2>4. ~Awaited(u) /\ ~Fetching(u) /\ ~OffComing(u)
    <3>1. op[p].then # "off"
      BY <1>5 DEF OInv, Formed
    <3> QED  BY <1>5, <2>3, <3>1 DEF Awaited, Awaits, HasToDo, Fetching, OffComing, Off, OffKinds
  <2>5. LiveOnceActive(u) => u \in Live'
    BY <1>1, <2>1, <2>2 DEF LiveOnceActive, Live
  <2>6. SweepDue(u) => SweepDue(u)'
    BY <1>1, <2>2 DEF SweepDue
  <2>7. Covered(u) => Covered(u)'
    BY <2>4, <2>5, <2>6 DEF Covered, Live
  <2> QED  BY <1>1, <2>4, <2>7, GoesD
<1>6. CASE u = v /\ op[p].kind \in {"disable", "remove"}
  <2>1. Off(p, u)
    BY <1>1, <1>6 DEF Off, OffKinds
  <2>2. CASE Fetching(u)
    <3>1. ~paid
      BY <2>1, <2>2, OnlyFetching DEF Fetching, OnKinds
    <3>2. Fetching(u)'
      BY <1>1, <1>2, <2>2 DEF Fetching
    <3>3. Covered(u)'
      BY <1>1, <3>1, <3>2 DEF Covered
    <3> QED  BY <3>3, CoveredIsTended
  <2>3. CASE ~Fetching(u)
    <3>1. Noted(u) /\ (~WillServe(u) \/ Undone(u) \/ LockedOff(u))
      BY <1>1, <2>1, <2>3 DEF GInv, Minded, OffKnown, OffSent
    <3>2. \A q \in Sweeps : sweep[q].kind # "lift"
      BY <2>1 DEF SInv, NoLiftBeside, Off
    <3>3. \A q \in Sweeps : ~WillAssert(q, u)'
      BY <1>1, <3>1, <3>2 DEF WillAssert, Noted, Told
    <3>4. WillServe(u)' => WillServe(u)
      BY <1>1, SameWire
    <3>5. Undone(u) => \E q \in Sweeps : TakesBack(q, u)'
      BY <1>1 DEF Undone, Undoes, TakesBack
    <3>6. LockedOff(u) => OffComing(u)'
      BY <1>1, <1>2 DEF LockedOff, OffComing, Off, OffKinds
    <3> QED  BY <3>1, <3>3, <3>4, <3>5, <3>6 DEF Tended
  <2> QED  BY <2>2, <2>3
<1> QED  BY <1>1, <1>3, <1>4, <1>5, <1>6 DEF Finished

-----------------------------------------------------------------------------
\* What a re-assert does to a credential that nothing speaks for.
LEMMA SweepD ==
  ASSUME NEW u \in Users, Tended(u), UNCHANGED <<rows, op>>,
         ~Covered(u) /\ (\A s \in Sweeps : ~WillAssert(s, u)) =>
           /\ \A s \in Sweeps : ~WillAssert(s, u)'
           /\ \/ ~WillServe(u)'
              \/ (WillServe(u)' => WillServe(u)) /\ \A s \in Sweeps : TakesBack(s, u) => TakesBack(s, u)'
              \/ \E s \in Sweeps : TakesBack(s, u)'
  PROVE  Tended(u)'
<1>1. OpsKeep(u)
  BY SameOpsKeep DEF rows
<1>2. CASE Covered(u)
  BY <1>1, <1>2, SameCover, CoveredIsTended
<1>3. CASE ~Covered(u)
  <2>1. OffComing(u) => OffComing(u)'
    BY <1>1 DEF OpsKeep
  <2>2. \A s \in Sweeps : ~WillAssert(s, u)
    BY <1>3 DEF Tended
  <2> QED  BY <1>3, <2>1, <2>2 DEF Tended
<1> QED  BY <1>2, <1>3

LEMMA SameBelief ==
  ASSUME NEW q \in Sweeps, sweep'[q] = sweep[q], NEW u \in Users
  PROVE  (TakesBack(q, u)' <=> TakesBack(q, u)) /\ (WillAssert(q, u)' <=> WillAssert(q, u))
BY DEF TakesBack, WillAssert

LEMMA NotedOnBelief ==
  ASSUME NEW q \in Sweeps, NEW v \in Users, IsNotedOn(q, v), NEW u \in Users, u # v
  PROVE  (TakesBack(q, u)' <=> TakesBack(q, u)) /\ (WillAssert(q, u)' <=> WillAssert(q, u))
BY DEF IsNotedOn, SweepIs, TakesBack, WillAssert

LEMMA NotedOffBelief ==
  ASSUME NEW q \in Sweeps, NEW v \in Users, IsNotedOff(q, v), NEW u \in Users
  PROVE  (TakesBack(q, u) => TakesBack(q, u)') /\ (WillAssert(q, u)' => WillAssert(q, u))
BY DEF IsNotedOff, TakesBack, WillAssert

\* One re-assert goes on by itself, and tells the node nothing that is not due.
LEMMA OneSweepD ==
  ASSUME NEW q \in Sweeps, NEW u \in Users, Tended(u), UNCHANGED <<rows, op>>,
         \A s \in Sweeps \ {q} : sweep'[s] = sweep[s],
         WillAssert(q, u)' => WillAssert(q, u) \/ Covered(u),
         TakesBack(q, u) => TakesBack(q, u)' \/ ~WillServe(u)',
         WillServe(u)' => WillServe(u) \/ WillAssert(q, u) \/ TakesBack(q, u)'
  PROVE  Tended(u)'
<1>1. \A s \in Sweeps \ {q} : (TakesBack(s, u)' <=> TakesBack(s, u)) /\ (WillAssert(s, u)' <=> WillAssert(s, u))
  BY SameBelief
<1>2. ASSUME ~Covered(u), \A s \in Sweeps : ~WillAssert(s, u)
      PROVE  /\ \A s \in Sweeps : ~WillAssert(s, u)'
             /\ \/ ~WillServe(u)'
                \/ (WillServe(u)' => WillServe(u)) /\ \A s \in Sweeps : TakesBack(s, u) => TakesBack(s, u)'
                \/ \E s \in Sweeps : TakesBack(s, u)'
  BY <1>1, <1>2
<1> QED  BY <1>2, SweepD

LEMMA SweepStepsD ==
  ASSUME TInv, SInv, NEW q \in Sweeps, SweepStep(q), NEW u \in Users, Tended(u)
  PROVE  Tended(u)'
<1>1. SweepFormed(sweep[q]) /\ SweepOK /\ WireOK
  BY DEF SInv, TInv
<1>2. PICK none : none = {}
  OBVIOUS
<1>3. CASE ReadLive(q)
  <2>1. sweep[q].cur = {} /\ UNCHANGED <<rows, op, wire, node>>
    BY <1>1, <1>3 DEF ReadLive, SweepFormed
  <2>2. SweepGoes(q, sweep[q].kind, "next", sweep[q].todo \cap Live, sweep[q].cur, sweep[q].off, sweep[q].since)
    BY <1>1, <1>3, ReadLiveGoes
  <2>3. (WillAssert(q, u)' => Covered(u)) /\ ~TakesBack(q, u)
    BY <2>1, <2>2 DEF SweepGoes, SweepIs, WillAssert, TakesBack, Covered
  <2> QED  BY <2>1, <2>2, <2>3, SameWire, OneSweepD DEF SweepGoes
<1>4. CASE EndSweep(q)
  <2>1. /\ SweepGoes(q, "none", "idle", {}, {}, {}, {}) /\ sweep[q].cur = {}
        /\ UNCHANGED <<rows, op, wire, node>>
    BY <1>1, <1>4, EndGoes DEF EndSweep, SweepFormed
  <2>2. ~WillAssert(q, u)' /\ ~TakesBack(q, u)
    BY <2>1 DEF SweepGoes, SweepIs, WillAssert, TakesBack
  <2> QED  BY <2>1, <2>2, SameWire, OneSweepD DEF SweepGoes
<1>5. ASSUME NEW v \in Users, SweepGoes(q, sweep[q].kind, sweep[q].pc, sweep[q].todo \ {v}, sweep[q].cur,
                                        sweep[q].off, sweep[q].since)
      PROVE  /\ (WillAssert(q, u)' => WillAssert(q, u)) /\ (TakesBack(q, u) => TakesBack(q, u)')
             /\ \A s \in Sweeps \ {q} : sweep'[s] = sweep[s]
  BY <1>5 DEF SweepGoes, SweepIs, WillAssert, TakesBack
<1>6. ASSUME NEW v \in Users, Skip(q, v) PROVE Tended(u)'
  <2>1. UNCHANGED <<rows, op, wire, fresh, node>>
    BY <1>6 DEF Skip
  <2>2. /\ (WillAssert(q, u)' => WillAssert(q, u)) /\ (TakesBack(q, u) => TakesBack(q, u)')
        /\ \A s \in Sweeps \ {q} : sweep'[s] = sweep[s]
    BY <1>1, <1>5, <1>6, PassGoes DEF Skip
  <2> QED  BY <2>1, <2>2, SameWire, OneSweepD
<1>7. ASSUME NEW v \in Users, AssertNow(q, v) PROVE Tended(u)'
  <2>1. UNCHANGED <<rows, op, fresh, connected, node>> /\ WriteReassert(v)
    BY <1>7 DEF AssertNow
  <2>2. /\ (WillAssert(q, u)' => WillAssert(q, u)) /\ (TakesBack(q, u) => TakesBack(q, u)')
        /\ \A s \in Sweeps \ {q} : sweep'[s] = sweep[s]
    BY <1>1, <1>5, <1>7, PassGoes DEF AssertNow
  <2>3. WillAssert(q, v)
    BY <1>7 DEF AssertNow, SwitchedOffSince, WillAssert
  <2>4. WillServe(u)' => WillServe(u) \/ WillAssert(q, u)
    BY <1>1, <2>1, <2>3, WrittenFor
  <2> QED  BY <2>1, <2>2, <2>4, OneSweepD
<1>8. ASSUME NEW v \in Users, AssertLifted(q, v) PROVE Tended(u)'
  <2>1. UNCHANGED <<rows, op, connected, node>> /\ WriteReassert(v) /\ WillAssert(q, v)
    BY <1>8 DEF AssertLifted, WillAssert
  <2>2. /\ SweepIs(q, sweep[q].kind, sweep[q].pc, sweep[q].todo \ {v}, sweep[q].cur,
                   sweep[q].off, sweep[q].since)
        /\ \A s \in Sweeps \ {q} : IsNotedOn(s, v)
    BY <1>1, <1>8, LiftedGoes
  <2>3. (WillAssert(q, u)' => WillAssert(q, u)) /\ (TakesBack(q, u) => TakesBack(q, u)')
    BY <2>2 DEF SweepIs, WillAssert, TakesBack
  <2>4. ASSUME ~WillAssert(q, u)
        PROVE  /\ \A s \in Sweeps : (WillAssert(s, u)' => WillAssert(s, u)) /\ (TakesBack(s, u) => TakesBack(s, u)')
               /\ WillServe(u)' => WillServe(u)
    <3>1. u # v
      BY <2>1, <2>4
    <3>2. \A s \in Sweeps \ {q} : (WillAssert(s, u)' => WillAssert(s, u)) /\ (TakesBack(s, u) => TakesBack(s, u)')
      BY <2>2, <3>1, NotedOnBelief
    <3> QED  BY <1>1, <2>1, <2>3, <3>1, <3>2, WrittenFor
  <2> QED  BY <2>1, <2>4, SweepD
<1>9. ASSUME NEW v \in Users, AssertStored(q, v) PROVE Tended(u)'
  <2>1. UNCHANGED <<rows, op, wire, node>> /\ WillAssert(q, v) /\ sweep[q].cur = {} /\ sweep[q].pc = "next"
    BY <1>1, <1>9 DEF AssertStored, SwitchedOffSince, WillAssert, SweepFormed
  <2>2. /\ SweepIs(q, sweep[q].kind, "send", sweep[q].todo \ {v}, {v}, sweep[q].off \ {v}, {})
        /\ \A s \in Sweeps \ {q} : IsNotedOn(s, v)
    BY <1>1, <1>9, StoredGoes
  <2>3. ASSUME ~WillAssert(q, u)
        PROVE  \A s \in Sweeps : (WillAssert(s, u)' => WillAssert(s, u)) /\ (TakesBack(s, u) => TakesBack(s, u)')
    <3>1. u # v
      BY <2>1, <2>3
    <3>2. \A s \in Sweeps \ {q} : (WillAssert(s, u)' => WillAssert(s, u)) /\ (TakesBack(s, u) => TakesBack(s, u)')
      BY <2>2, <3>1, NotedOnBelief
    <3>3. (WillAssert(q, u)' => WillAssert(q, u)) /\ ~TakesBack(q, u)
      BY <2>1, <2>2, <3>1 DEF SweepIs, WillAssert, TakesBack
    <3> QED  BY <3>2, <3>3
  <2> QED  BY <2>1, <2>3, SameWire, SweepD
<1>10. CASE SendAssert(q)
  <2>1. PICK v \in sweep[q].cur : Send(v, "on")
    BY <1>10 DEF SendAssert
  <2>2. v \in Users /\ Joins(v, "on", TRUE) /\ sweep[q].pc = "send" /\ \A w \in sweep[q].cur : w = v
    BY <1>1, <1>10, <2>1, SweepFields DEF Send, Joins, SendAssert, SweepFormed
  <2>3. UNCHANGED <<rows, op, fresh, connected, node>>
    BY <1>10 DEF SendAssert
  <2>4. SweepGoes(q, sweep[q].kind, "after", sweep[q].todo, sweep[q].cur, sweep[q].off, sweep[q].since)
    BY <1>1, <1>10, SentGoes
  <2>5. (WillAssert(q, u)' => WillAssert(q, u)) /\ (TakesBack(q, u) => TakesBack(q, u)')
    BY <2>2, <2>4 DEF SweepGoes, SweepIs, WillAssert, TakesBack
  <2>6. WillAssert(q, v) \/ TakesBack(q, v)'
    BY <2>1, <2>2, <2>4 DEF SweepGoes, SweepIs, WillAssert, TakesBack
  <2>7. WillServe(u)' => WillServe(u) \/ u = v
    BY <1>1, <2>2, <2>3, OnJoins
  <2> QED  BY <2>3, <2>4, <2>5, <2>6, <2>7, OneSweepD DEF SweepGoes
<1>11. CASE LookAgain(q)
  <2>1. sweep[q].pc = "after" /\ UNCHANGED <<rows, op, wire, node>>
    BY <1>11 DEF LookAgain
  <2>2. CASE sweep[q].cur \cap sweep[q].since = {}
    <3>1. SweepGoes(q, sweep[q].kind, "next", sweep[q].todo, none, sweep[q].off, none)
      BY <1>1, <1>2, <1>11, <2>2, LookedGoes
    <3>2. (WillAssert(q, u)' => WillAssert(q, u)) /\ ~TakesBack(q, u)
      BY <1>2, <2>1, <2>2, <3>1 DEF SweepGoes, SweepIs, WillAssert, TakesBack
    <3> QED  BY <2>1, <3>1, <3>2, SameWire, OneSweepD DEF SweepGoes
  <2>3. CASE sweep[q].cur \cap sweep[q].since # {}
    <3>1. PICK v \in Users : v \in sweep[q].cur /\ v \in sweep[q].since
      BY <1>1, <2>3, SweepFields
    <3>2. sweep[q].cur = {v}
      BY <1>1, <3>1 DEF SweepFormed
    <3>3. /\ SweepIs(q, sweep[q].kind, "repeat", sweep[q].todo, sweep[q].cur, sweep[q].off, sweep[q].since)
          /\ \A s \in Sweeps \ {q} : IsNotedOff(s, v)
      BY <1>1, <1>11, <3>1, <3>2, LooksAgain
    <3>4. (WillAssert(q, u)' => WillAssert(q, u)) /\ (TakesBack(q, u) => TakesBack(q, u)')
      BY <2>1, <3>3 DEF SweepIs, WillAssert, TakesBack
    <3>5. \A s \in Sweeps \ {q} : (WillAssert(s, u)' => WillAssert(s, u)) /\ (TakesBack(s, u) => TakesBack(s, u)')
      BY <3>1, <3>3, NotedOffBelief
    <3>6. \A s \in Sweeps : (WillAssert(s, u)' => WillAssert(s, u)) /\ (TakesBack(s, u) => TakesBack(s, u)')
      BY <3>4, <3>5
    <3> QED  BY <2>1, <3>6, SameWire, SweepD
  <2> QED  BY <2>2, <2>3
<1>12. CASE Repeat(q)
  <2>1. PICK v \in sweep[q].cur : Send(v, "off")
    BY <1>12 DEF Repeat
  <2>2. v \in Users /\ Joins(v, "off", TRUE) /\ sweep[q].pc = "repeat" /\ \A w \in sweep[q].cur : w = v
    BY <1>1, <1>12, <2>1, SweepFields DEF Send, Joins, Repeat, SweepFormed
  <2>3. UNCHANGED <<rows, op, fresh, connected, node>>
    BY <1>12 DEF Repeat
  <2>4. SweepGoes(q, sweep[q].kind, "next", sweep[q].todo, none, sweep[q].off, none)
    BY <1>1, <1>2, <1>12, RepeatGoes
  <2>5. (WillServe(u)' => WillServe(u)) /\ ~WillServe(v)'
    BY <1>1, <2>2, <2>3, OffJoins
  <2>6. WillAssert(q, u)' => WillAssert(q, u)
    BY <1>2, <2>2, <2>4 DEF SweepGoes, SweepIs, WillAssert
  <2>7. TakesBack(q, u) => u = v
    BY <2>2 DEF TakesBack
  <2> QED  BY <2>3, <2>4, <2>5, <2>6, <2>7, OneSweepD DEF SweepGoes
<1> QED  BY <1>3, <1>4, <1>6, <1>7, <1>8, <1>9, <1>10, <1>11, <1>12 DEF SweepStep

\* A re-assert that begins has not read anything.
LEMMA StartsD ==
  ASSUME TInv, SInv, NEW q \in Sweeps, NEW kind \in {"periodic", "reconnect", "lift"},
         NEW U \in SUBSET Users, StartSweep(q, kind, U), UNCHANGED <<op, row, signedOut, paid, enabled>>,
         held' \subseteq held, UNCHANGED <<fresh, wire, node>>, NEW u \in Users, Tended(u)
  PROVE  Tended(u)'
<1>1. SweepGoes(q, kind, "read", U, {}, fresh, {}) /\ sweep[q].cur = {}
  BY StartGoes DEF TInv, SInv, SweepFormed, StartSweep
<1>2. ~WillAssert(q, u)' /\ ~TakesBack(q, u)
  BY <1>1 DEF SweepGoes, SweepIs, WillAssert, TakesBack
<1>3. \A s \in Sweeps \ {q} : (TakesBack(s, u)' <=> TakesBack(s, u)) /\ (WillAssert(s, u)' <=> WillAssert(s, u))
  BY <1>1, SameBelief DEF SweepGoes
<1>4. SweepsKeep(u)
  BY <1>2, <1>3 DEF SweepsKeep
<1>5. OpsKeep(u)
  BY SameOpsKeep
<1>6. (LiveOnceActive(u) => LiveOnceActive(u)') /\ (u \in Live => u \in Live')
  BY DEF LiveOnceActive, Live
<1>7. u \in Live => Covered(u)'
  BY <1>6 DEF Covered
<1>8. Covered(u) => Covered(u)'
  BY <1>5, <1>6, <1>7, StaysCovered DEF OpsKeep
<1> QED  BY <1>4, <1>5, <1>8, SameWire, StaysTended DEF OpsKeep

\* Nothing but a lease, the margin, or what the node was told, is over.
LEMMA NodeD ==
  ASSUME NEW u \in Users, Tended(u), UNCHANGED <<op, row, signedOut, paid, enabled, sweep>>, held' \subseteq held,
         WillServe(u)' => WillServe(u)
  PROVE  Tended(u)'
<1>1. OpsKeep(u) /\ SweepsKeep(u)
  BY SameOpsKeep, SameSweepsKeep
<1>2. (LiveOnceActive(u) => LiveOnceActive(u)') /\ (u \in Live => u \in Live')
  BY DEF LiveOnceActive, Live
<1>3. u \in Live => Covered(u)'
  BY <1>2 DEF Covered
<1>4. Covered(u) => Covered(u)'
  BY <1>1, <1>2, <1>3, StaysCovered DEF OpsKeep
<1> QED  BY <1>1, <1>4, StaysTended DEF OpsKeep

\* A restart cuts short a sign-out at most: what it leaves, the hourly sweep
\* finds.
LEMMA RestartD ==
  ASSUME TInv, OInv, SInv, GInv, Calm, Restart, NEW u \in Users, Tended(u)
  PROVE  Tended(u)'
<1>1. /\ \A p \in Ops : IsIdle(p) \/ SigningOut(p)
      /\ \A q \in Sweeps : sweep[q].cur = {}
  BY DEF Calm, CutsNothing
<1>2. /\ \A q \in Sweeps : sweep'[q] = Resting
      /\ UNCHANGED <<rows, node>>
  BY DEF Restart
<1>3. \A q \in Sweeps : ~WillAssert(q, u)' /\ ~TakesBack(q, u)
  BY <1>1, <1>2 DEF Resting, WillAssert, TakesBack
<1>4. WillServe(u)' => WillServe(u)
  BY <1>2, Loses DEF TInv, SInv, Restart
<1>5. UNCHANGED <<row, paid, enabled, signedOut, held>>
  BY <1>2 DEF rows
<1>6. (u \in Live \/ SweepDue(u)) => Covered(u)'
  BY <1>5 DEF Covered, SweepDue, Live, LiveOnceActive, Exists
<1>7. ~BeingEnabled(u) /\ ~Fetching(u)
  BY <1>1, IdleNone DEF BeingEnabled, Fetching, SigningOut
<1>8. ASSUME NEW p \in Ops, u \in op[p].todo \cup op[p].cur, op[p].kind # "none" PROVE u \in signedOut
  <2>1. op[p].kind = "remove" /\ op[p].lock
    BY <1>1, <1>8, IdleNone DEF SigningOut
  <2> QED  BY <1>8, <2>1 DEF OInv, RowsFit, Removing
<1>9. Exists(u) /\ Awaited(u) => SweepDue(u)
  <2>1. ASSUME NEW p \in Ops, Awaits(p, u) PROVE u \in signedOut
    <3>1. op[p].then = "none"
      BY <1>1, IdleNone, Fields DEF OInv, Formed, TInv, SigningOut
    <3> QED  BY <1>8, <2>1, <3>1 DEF Awaits, HasToDo, OffKinds
  <2> QED  BY <2>1 DEF Awaited, SweepDue
<1>10. WillServe(u) /\ OffComing(u) => SweepDue(u)
  <2>1. ASSUME WillServe(u), NEW p \in Ops, Off(p, u), op[p].pc = "send" PROVE SweepDue(u)
    <3>1. u \in signedOut
      BY <1>8, <2>1 DEF Off, OffKinds
    <3>2. row[u] # "none"
      BY <2>1 DEF OInv, RowsFit, SwitchingOff, Off
    <3>3. row[u] # "gone"
      BY <1>1, <2>1 DEF GInv, Minded, GoneStaysOff, Undone, Undoes
    <3> QED  BY <3>1, <3>2, <3>3 DEF SweepDue, Exists, TInv, RowsOK
  <2> QED  BY <2>1 DEF OffComing
<1>11. WillServe(u)' => Covered(u)'
  BY <1>3, <1>4, <1>6, <1>7, <1>9, <1>10 DEF Tended, Covered
<1> QED  BY <1>3, <1>11 DEF Tended

LEMMA DInvStays == ASSUME TInv, OInv, SInv, GInv, DInv, Calm, ~Aborts, [Next]_vars PROVE DInv'
<1> SUFFICES ASSUME NEW u \in Users PROVE Tended(u)'
  BY DEF DInv
<1>1. Tended(u)
  BY DEF DInv
<1>2. CASE UNCHANGED vars
  BY <1>1, <1>2, NodeD, SameWire DEF vars
<1>3. ASSUME NEW p \in Ops, Begins(p) \/ \E v \in Users : SweepSessions(p, v) PROVE Tended(u)'
  BY <1>1, <1>3, BeginsD
<1>4. ASSUME NEW p \in Ops, Step(p) \/ RemoveFails(p) PROVE Tended(u)'
  <2>1. CASE ReadRows(p) \/ Lease(p) \/ NoteSwitchOn(p) \/ SendCommand(p) \/ EndOp(p) \/ RemoveFails(p)
    BY <1>1, <2>1, ReadRowsD, LeaseD, NoteSwitchOnD, SendCommandD, EndOpD, RemoveFailsD
  <2>2. ASSUME NEW v \in Users, SwitchOff(p, v) \/ SwitchOn(p, v) \/ Insert(p, v) PROVE Tended(u)'
    BY <1>1, <2>2, SwitchOffD, SwitchOnD, InsertD
  <2>3. ASSUME NEW v \in Users, Finished(p, v) \/ Abort(p, v) \/ Recheck(p, v) PROVE Tended(u)'
    BY <1>1, <2>3, FinishedD, AbortD, RecheckD
  <2> QED  BY <1>4, <2>1, <2>2, <2>3 DEF Step
<1>5. ASSUME NEW q \in Sweeps, SweepStep(q) PROVE Tended(u)'
  BY <1>1, <1>5, SweepStepsD
<1>6. ASSUME NEW q \in Sweeps, Periodic(q) PROVE Tended(u)'
  BY <1>1, <1>6, StartsD DEF Periodic, rows
<1>7. ASSUME NEW q \in Sweeps, Reconnect(q) PROVE Tended(u)'
  BY <1>1, <1>7, StartsD DEF Reconnect, rows
<1>8. ASSUME NEW q \in Sweeps, NEW U \in SUBSET Users, LiftHold(q, U) PROVE Tended(u)'
  BY <1>1, <1>8, StartsD DEF LiftHold
<1>9. ASSUME NEW v \in Users, Lapse(v) PROVE Tended(u)'
  BY <1>1, <1>9, NodeD, SameWire DEF Lapse
<1>10. ASSUME NEW v \in Users, Age(v) PROVE Tended(u)'
  BY <1>1, <1>10, NodeD, SameWire DEF Age, rows
<1>11. CASE Execute
  BY <1>1, <1>11, NodeD, Executes DEF Execute, rows, TInv
<1>12. CASE Disconnect
  BY <1>1, <1>12, NodeD, Loses DEF Disconnect, rows, TInv, SInv
<1>13. CASE EngineRestarts
  BY <1>1, <1>13, NodeD, SameWire DEF EngineRestarts, rows
<1>14. CASE Restart
  BY <1>1, <1>14, RestartD
<1> QED  BY <1>2, <1>3, <1>4, <1>5, <1>6, <1>7, <1>8, <1>9, <1>10, <1>11, <1>12, <1>13, <1>14 DEF Next

LEMMA DInvBegins == ASSUME InOrder PROVE DInv
<1>1. ASSUME NEW u \in Users PROVE \A q \in Sweeps : ~WillAssert(q, u)
  BY DEF InOrder, Resting, WillAssert
<1>2. ASSUME NEW u \in Users PROVE WillServe(u) => Covered(u)
  BY InOrderServes DEF Covered
<1> QED  BY <1>1, <1>2 DEF DInv, Tended

\* At rest nobody is on the way to switch anything off.
LEMMA RestIsLive ==
  ASSUME TInv, OInv, SInv, DInv, AtRest, NEW u \in node
  PROVE  u \in Live \/ SweepDue(u)
<1>1. u \in Users /\ wire = <<>> /\ (\A p \in Ops : IsIdle(p)) /\ \A q \in Sweeps : sweep[q].pc = "idle"
  BY DEF AtRest, TInv, WireOK
<1>2. WillServe(u)
  BY <1>1 DEF WillServe
<1>3. \A p \in Ops : op[p].kind = "none" /\ op[p].then = "none"
  <2>1. \A p \in Ops : op[p].kind = "none"
    BY <1>1, IdleNone
  <2> QED  BY <2>1, Fields DEF OInv, Formed, TInv
<1>4. ~OffComing(u) /\ ~Awaited(u) /\ ~Fetching(u) /\ ~BeingEnabled(u)
  BY <1>3 DEF OffComing, Off, Awaited, Awaits, HasToDo, Fetching, BeingEnabled, OffKinds
<1>5. \A q \in Sweeps : ~TakesBack(q, u)
  BY <1>1 DEF SInv, SweepFormed, TakesBack
<1> QED  BY <1>1, <1>2, <1>4, <1>5 DEF DInv, Tended, Covered

\* From whatever state is in order, and through any steps that overlap nothing they
\* could be disturbed by: whatever operations, re-asserts, lost streams, restarted
\* engines and failed removals come together, once all of it is over the node serves
\* nothing but what is live, or what the hourly sweep of sessions has still to
\* remove.  So when a credential is left on, a step that is not calm has come since
\* things were last in order; and its harm ends when they are in order again.
THEOREM NothingIsLeftOn ==
  ASSUME ~Aborts PROVE Spec => [](InOrder /\ [][Calm]_vars => []NothingLeftOn)
<1> DEFINE IInv == TInv /\ OInv /\ SInv /\ GInv /\ DInv
<1>1. Init => TInv /\ Customer
  BY TypesBegin DEF Init, Customer
<1>2. TInv /\ Customer /\ [Next]_vars => TInv' /\ Customer'
  BY TypesStay, CustomerStays
<1>3. TInv /\ Customer /\ InOrder => IInv
  BY OInvBegins, SInvBegins, GInvBegins, DInvBegins
<1>4. IInv /\ [Next]_vars /\ [Calm]_vars => IInv'
  <2> SUFFICES ASSUME TInv, OInv, SInv, GInv, DInv, [Next]_vars, [Calm]_vars PROVE IInv'
    OBVIOUS
  <2>1. Calm
    BY StutterIsCalm
  <2> QED  BY <2>1, Inductive, DInvStays
<1>5. IInv => NothingLeftOn
  BY RestIsLive DEF NothingLeftOn
<1> HIDE DEF IInv
<1> QED  BY <1>1, <1>2, <1>3, <1>4, <1>5, PTL DEF Spec

=============================================================================
