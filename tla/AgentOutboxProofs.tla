------------------------ MODULE AgentOutboxProofs ------------------------
(***************************************************************************)
(* What TLAPS proves of AgentOutbox, for any number of commands and calls. *)
(*                                                                         *)
(* For any races but "slow_hello", that a live call stays registered and   *)
(* that no command is stranded.                                            *)
(*                                                                         *)
(* IInv adds what the two rest on:   an earlier call whose Hello is still  *)
(* being checked was seen to end (HelloInv); only a running replay has     *)
(* commands to write, and the one it is marking was written (ReplayInv);   *)
(* commands under way have rows, and what was acked was executed (RowInv).  *)
(*                                                                         *)
(* For all races (the second part), the shape of the state, and that a row *)
(* whose credentials are gone is pending again only if its ack was late:   *)
(* Recorded says which rows no handler will write any more.                *)
(*                                                                         *)
(* For any races but "slow_hello" again (the third part), that the last    *)
(* command decides unless something overlapped since the outbox was last   *)
(* at rest when a command was issued: OInv holds while orderly does, and   *)
(* QuietIsOrdered shows why it holds again after a rest.                   *)
(***************************************************************************)
EXTENDS AgentOutbox, SequenceTheorems, WellFoundedInduction, TLAPS

HelloInv ==
  /\ \A k \in Calls : sync[k] = "none" <=> k > dialled
  /\ \A k \in Calls : k < dialled /\ sync[k] = "hello" => k \in noticed
  /\ open => dialled \notin noticed

\* On the open call, being carried out there, or attempted already.
OnItsWay(c) == c \in Range(wire) \cup {busy[dialled]} \cup executed

ReplayInv ==
  /\ \A k \in Calls : todo[k] # {} => sync[k] = "replay"
  /\ open /\ dialled \in marking => OnItsWay(First(todo[dialled]))

RowInv ==
  /\ \A c \in Commands : enq[c] # "none" => row[c] # "none"
  /\ \A k \in Calls : todo[k] \subseteq Issued
  /\ \A c \in Commands : row[c] \in {"ACKED", "FAILED"} => c \in executed
  /\ \A i \in DOMAIN acks : acks[i].cmd \in executed

IInv == Shape /\ LiveCallRegistered /\ NothingStranded /\ HelloInv
        /\ ReplayInv /\ RowInv

\* A replay that has commands to write has an oldest one.
LEMMA FirstIsLeast ==
  ASSUME NEW S \in SUBSET Commands, S # {}
  PROVE  First(S) \in S /\ \A b \in S : First(S) <= b
  <1>0. S \subseteq Nat
    BY CommandsAssumption DEF Commands
  <1>1. \E c \in S : \A b \in S : <<b, c>> \notin OpToRel(<, Nat)
    BY <1>0, NatLessThanWellFounded, WFMin
  <1>2. \A b \in Nat, c \in Nat : b < c => <<b, c>> \in OpToRel(<, Nat)
    BY DEF OpToRel
  <1>3. \E c \in S : \A b \in S : ~(b < c)
    BY <1>0, <1>1, <1>2
  <1>4. \E c \in S : \A b \in S : c <= b
    BY <1>0, <1>3
  <1>5. QED
    BY <1>4 DEF First

\* What is appended is there, with what was there before.
LEMMA AppendKeeps ==
  ASSUME NEW S, NEW s \in Seq(S), NEW e \in S
  PROVE  Append(s, e) \in Seq(S) /\ Range(Append(s, e)) = Range(s) \cup {e}
  BY AppendProperties DEF Range

\* Taking the head leaves the rest.
LEMMA TailKeeps ==
  ASSUME NEW S, NEW s \in Seq(S), s # <<>>
  PROVE  /\ Head(s) \in S /\ Tail(s) \in Seq(S)
         /\ Range(s) = Range(Tail(s)) \cup {Head(s)}
  <1>1. /\ Head(s) = s[1] /\ Head(s) \in S
        /\ Tail(s) \in Seq(S)
        /\ Len(Tail(s)) = Len(s) - 1
        /\ \A i \in 1..Len(Tail(s)) : Tail(s)[i] = s[i + 1]
    BY HeadTailProperties
  <1>2. Len(s) \in Nat /\ Len(s) >= 1
    OBVIOUS
  <1>3. ASSUME NEW i \in 1..Len(s) PROVE s[i] = Head(s) \/ s[i] \in Range(Tail(s))
    <2>1. CASE i = 1
      BY <2>1, <1>1
    <2>2. CASE i # 1
      <3>1. i - 1 \in 1..Len(Tail(s)) /\ Tail(s)[i - 1] = s[i]
        BY <2>2, <1>1, <1>2
      <3>2. i - 1 \in DOMAIN Tail(s)
        BY <3>1, <1>1
      <3>3. QED
        BY <3>1, <3>2 DEF Range
    <2>3. QED
      BY <2>1, <2>2
  <1>4. ASSUME NEW i \in 1..Len(Tail(s)) PROVE Tail(s)[i] \in Range(s)
    BY <1>1, <1>2 DEF Range
  <1>5. 1 \in DOMAIN s /\ DOMAIN s = 1..Len(s) /\ DOMAIN Tail(s) = 1..Len(Tail(s))
    BY <1>1, <1>2
  <1>6. QED
    BY <1>1, <1>3, <1>4, <1>5 DEF Range

\* Removing an element moves those behind it up by one.
LEMMA RemoveAtElements ==
  ASSUME NEW S, NEW s \in Seq(S), NEW i \in DOMAIN s
  PROVE  /\ RemoveAt(s, i) \in Seq(S)
         /\ i \in 1..Len(s) /\ Len(s) \in Nat /\ DOMAIN s = 1..Len(s)
         /\ DOMAIN RemoveAt(s, i) = 1..Len(s) - 1
         /\ \A j \in 1..Len(s) - 1 :
              RemoveAt(s, i)[j] = IF j < i THEN s[j] ELSE s[j + 1]
  <1>0. i \in 1..Len(s) /\ Len(s) \in Nat /\ \A k \in 1..Len(s) : s[k] \in S
    OBVIOUS
  <1> DEFINE before == SubSeq(s, 1, i - 1)
             after == SubSeq(s, i + 1, Len(s))
  <1>1. /\ before \in Seq(S) /\ Len(before) = i - 1
        /\ \A j \in 1..i - 1 : before[j] = s[j]
    <2>1. \A j \in 1..i - 1 : s[j] \in S
      BY <1>0
    <2>2. /\ before \in Seq(S)
          /\ Len(before) = IF 1 <= i - 1 THEN i - 1 - 1 + 1 ELSE 0
          /\ \A j \in 1..i - 1 - 1 + 1 : before[j] = s[1 + j - 1]
      BY <2>1, <1>0, SubSeqProperties
    <2>3. QED
      BY <2>2, <1>0
  <1>2. /\ after \in Seq(S) /\ Len(after) = Len(s) - i
        /\ \A j \in 1..Len(s) - i : after[j] = s[i + j]
    <2>1. \A j \in i + 1..Len(s) : s[j] \in S
      BY <1>0
    <2>2. /\ after \in Seq(S)
          /\ Len(after) = IF i + 1 <= Len(s) THEN Len(s) - (i + 1) + 1 ELSE 0
          /\ \A j \in 1..Len(s) - (i + 1) + 1 : after[j] = s[i + 1 + j - 1]
      BY <2>1, <1>0, SubSeqProperties
    <2>3. QED
      BY <2>2, <1>0
  <1>3. /\ before \o after \in Seq(S)
        /\ Len(before \o after) = Len(s) - 1
        /\ \A j \in 1..Len(s) - 1 :
             (before \o after)[j] = IF j <= i - 1 THEN before[j] ELSE after[j - (i - 1)]
    <2> HIDE DEF before, after
    <2>1. /\ before \o after \in Seq(S)
          /\ Len(before \o after) = Len(before) + Len(after)
          /\ \A j \in 1..Len(before) + Len(after) :
               (before \o after)[j] = IF j <= Len(before) THEN before[j]
                                      ELSE after[j - Len(before)]
      BY <1>1, <1>2, ConcatProperties
    <2>2. Len(before) = i - 1 /\ Len(after) = Len(s) - i /\ i - 1 + (Len(s) - i) = Len(s) - 1
      BY <1>0, <1>1, <1>2
    <2>3. QED
      BY <2>1, <2>2
  <1>4. RemoveAt(s, i) = before \o after
    BY DEF RemoveAt
  <1> HIDE DEF before, after
  <1>5. ASSUME NEW j \in 1..Len(s) - 1
        PROVE  (before \o after)[j] = IF j < i THEN s[j] ELSE s[j + 1]
    <2>1. CASE j <= i - 1
      BY <2>1, <1>0, <1>1, <1>3
    <2>2. CASE ~(j <= i - 1)
      <3>1. j - (i - 1) \in 1..Len(s) - i /\ i + (j - (i - 1)) = j + 1 /\ ~(j < i)
        BY <2>2, <1>0
      <3>2. QED
        BY <3>1, <2>2, <1>2, <1>3
    <2>3. QED
      BY <2>1, <2>2
  <1>6. DOMAIN (before \o after) = 1..Len(s) - 1
    BY <1>0, <1>3
  <1>7. QED
    BY <1>0, <1>3, <1>4, <1>5, <1>6

\* Where the elements of an appended sequence are.
LEMMA AppendElements ==
  ASSUME NEW S, NEW s \in Seq(S), NEW e \in S
  PROVE  /\ DOMAIN s = 1..Len(s) /\ Len(s) \in Nat
         /\ DOMAIN Append(s, e) = 1..Len(s) + 1
         /\ \A j \in DOMAIN s : Append(s, e)[j] = s[j]
         /\ Append(s, e)[Len(s) + 1] = e
  BY AppendProperties

\* And of what the head was taken from.
LEMMA TailElements ==
  ASSUME NEW S, NEW s \in Seq(S), s # <<>>
  PROVE  /\ DOMAIN s = 1..Len(s) /\ Len(s) \in Nat \ {0}
         /\ Head(s) = s[1]
         /\ DOMAIN Tail(s) = 1..Len(s) - 1
         /\ \A j \in 1..Len(s) - 1 : Tail(s)[j] = s[j + 1]
  BY HeadTailProperties

\* And adds none.
LEMMA RemoveAtKeeps ==
  ASSUME NEW S, NEW s \in Seq(S), NEW i \in DOMAIN s
  PROVE  /\ RemoveAt(s, i) \in Seq(S)
         /\ \A j \in DOMAIN RemoveAt(s, i) : \E k \in DOMAIN s : RemoveAt(s, i)[j] = s[k]
  <1>1. /\ RemoveAt(s, i) \in Seq(S)
        /\ i \in 1..Len(s) /\ Len(s) \in Nat /\ DOMAIN s = 1..Len(s)
        /\ DOMAIN RemoveAt(s, i) = 1..Len(s) - 1
        /\ \A j \in 1..Len(s) - 1 :
             RemoveAt(s, i)[j] = IF j < i THEN s[j] ELSE s[j + 1]
    BY RemoveAtElements
  <1>2. ASSUME NEW j \in 1..Len(s) - 1 PROVE j \in DOMAIN s /\ j + 1 \in DOMAIN s
    BY <1>1
  <1>3. QED
    BY <1>1, <1>2

\* What the parts of the queue are made of.
LEMMA Shapes ==
  ASSUME Shape
  PROVE  /\ \A i \in DOMAIN acks : acks[i].cmd \in Commands /\ acks[i].call \in Calls
         /\ \A j \in DOMAIN wire : wire[j] \in Commands
         /\ \A k \in Calls : busy[k] \in Commands \cup {None}
         /\ \A c \in Commands : c \in Nat /\ c > 0
         /\ \A k \in Calls : k \in Nat /\ k > 0
         /\ dialled \in Nat /\ registered \in Nat
         /\ open => dialled \in Calls
  <1> DEFINE Ack == [cmd : Commands, outcome : {"ACKED", "FAILED"}, call : Calls]
  <1>1. ASSUME NEW i \in DOMAIN acks
        PROVE  acks[i].cmd \in Commands /\ acks[i].call \in Calls
    <2>1. acks \in Seq(Ack)
      BY DEF Shape
    <2>2. acks[i] \in Ack
      <3> HIDE DEF Ack
      <3>1. QED
        BY <2>1
    <2>3. QED
      BY <2>2
  <1>2. ASSUME NEW j \in DOMAIN wire PROVE wire[j] \in Commands
    <2>1. wire \in Seq(Commands)
      BY DEF Shape
    <2>2. QED
      BY <2>1
  <1>3. QED
    BY <1>1, <1>2, CommandsAssumption, CallsAssumption DEF Shape, Commands, Calls

-----------------------------------------------------------------------------
(***************************************************************************)
(* One lemma per group of steps.  Each is about IInv as a whole; its parts *)
(* are taken in turn where the step can disturb them.                      *)
(***************************************************************************)
\* Writing to the registered call gets a command under way, and loses none.
LEMMA WriteDelivers ==
  ASSUME Shape, NEW c \in Commands, Write(c), UNCHANGED open
  PROVE  /\ wire' \in Seq(Commands) /\ (~open => wire' = <<>>)
         /\ Range(wire) \subseteq Range(wire')
         /\ Reaches => c \in Range(wire')
  <1>1. CASE Reaches
    <2>1. wire \in Seq(Commands) /\ wire' = Append(wire, c)
      BY <1>1 DEF Shape, Write
    <2>2. QED
      BY <1>1, <2>1, AppendKeeps DEF Reaches
  <1>2. CASE ~Reaches
    BY <1>2 DEF Shape, Write
  <1>3. QED
    BY <1>1, <1>2

LEMMA EnqueueSafe ==
  ASSUME IInv, NEW c \in Commands, NEW what \in Kinds, Enqueue(c, what)
  PROVE  IInv'
  <1> USE DEF Enqueue, rows, memory, agent
  <1>1. Shape'
    BY KindsAssumption DEF IInv, Shape
  <1>2. LiveCallRegistered' /\ HelloInv'
    BY DEF IInv, LiveCallRegistered, HelloInv
  <1>3. NothingStranded'
    BY DEF IInv, Shape, NothingStranded, Unacked
  <1>4. ReplayInv' /\ RowInv'
    BY DEF IInv, Shape, ReplayInv, RowInv, OnItsWay, Issued
  <1>5. QED
    BY <1>1, <1>2, <1>3, <1>4 DEF IInv

LEMMA WriteStoredSafe ==
  ASSUME IInv, NEW c \in Commands, WriteStored(c)
  PROVE  IInv'
  <1>1. Shape /\ Write(c) /\ UNCHANGED open
    BY DEF IInv, WriteStored, agent
  <1>2. /\ wire' \in Seq(Commands) /\ (~open => wire' = <<>>)
        /\ Range(wire) \subseteq Range(wire')
        /\ Reaches => c \in Range(wire')
    BY <1>1, WriteDelivers
  <1> USE DEF WriteStored, rows, memory, agent
  <1>3. Shape'
    BY <1>2 DEF IInv, Shape
  <1>4. LiveCallRegistered' /\ HelloInv'
    BY DEF IInv, LiveCallRegistered, HelloInv
  <1>5. NothingStranded'
    <2> SUFFICES ASSUME open, sync[dialled] \in {"replay", "synced"},
                        NEW b \in Unacked \ executed
                 PROVE  enq'[b] = "stored"
                        \/ b \in Range(wire') \cup {busy[dialled]} \cup todo[dialled]
      BY DEF NothingStranded, Unacked
    <2>1. Reaches
      BY DEF IInv, LiveCallRegistered, Reaches
    <2>2. enq[b] = "stored"
          \/ b \in Range(wire) \cup {busy[dialled]} \cup todo[dialled]
      BY DEF IInv, NothingStranded
    <2>3. CASE b = c
      BY <2>1, <2>3, <1>2
    <2>4. CASE b # c
      BY <2>2, <2>4, <1>2 DEF IInv, Shape, Unacked
    <2>5. QED
      BY <2>3, <2>4
  <1>6. ReplayInv' /\ RowInv'
    BY <1>2 DEF IInv, Shape, ReplayInv, RowInv, OnItsWay, Issued
  <1>7. QED
    BY <1>3, <1>4, <1>5, <1>6 DEF IInv

LEMMA MarkSentSafe ==
  ASSUME IInv, NEW c \in Commands, MarkSent(c)
  PROVE  IInv'
  <1> USE DEF MarkSent, rows, memory, agent
  <1>1. Shape'
    BY DEF IInv, Shape
  <1>2. LiveCallRegistered' /\ HelloInv' /\ ReplayInv' /\ RowInv'
    BY DEF IInv, Shape, LiveCallRegistered, HelloInv, ReplayInv, RowInv, OnItsWay,
           Issued
  <1>3. NothingStranded'
    <2>1. c \in Unacked \/ c \in executed
      BY DEF IInv, Shape, RowInv, Unacked
    <2>2. Unacked' \subseteq Unacked \cup {c}
      BY DEF IInv, Shape, Unacked
    <2>3. \A b \in Commands : enq[b] = "stored" => enq'[b] = "stored"
      BY DEF IInv, Shape
    <2>4. Unacked \subseteq Commands
      BY DEF Unacked
    <2>5. QED
      BY <2>1, <2>2, <2>3, <2>4 DEF IInv, NothingStranded
  <1>4. QED
    BY <1>1, <1>2, <1>3 DEF IInv

LEMMA HelloDoneSafe ==
  ASSUME IInv, NEW k \in Calls, HelloDone(k)
  PROVE  IInv'
  <1> USE DEF HelloDone, rows, memory, agent
  <1>0. k <= dialled /\ dialled \in 0..MaxCalls /\ (open => dialled \in Calls)
    BY CallsAssumption DEF IInv, Shape, HelloInv, Calls
  <1>1. Shape'
    <2>1. registered' \in (0..dialled) \ noticed
      BY <1>0, CallsAssumption DEF IInv, Shape, Calls
    <2>2. QED
      BY <2>1 DEF IInv, Shape
  <1>2. LiveCallRegistered'
    <2>1. CASE k = dialled
      BY <2>1 DEF IInv, Shape, LiveCallRegistered, HelloInv
    <2>2. CASE k # dialled
      <3>1. k \in noticed
        BY <2>2, <1>0, CallsAssumption DEF IInv, HelloInv, Calls
      <3>2. registered' = registered /\ (open => sync'[dialled] = sync[dialled])
        BY <2>2, <3>1, <1>0 DEF IInv, Shape
      <3>3. QED
        BY <3>2 DEF IInv, LiveCallRegistered
    <2>3. QED
      BY <2>1, <2>2
  <1>3. HelloInv'
    BY <1>0 DEF IInv, Shape, HelloInv
  <1>4. NothingStranded'
    <2>1. open /\ sync'[dialled] \in {"replay", "synced"} =>
            sync[dialled] = sync'[dialled]
      <3>1. sync \in [Calls -> {"none", "hello", "registered", "replay", "synced", "ended"}]
        BY DEF IInv, Shape
      <3>2. sync' \in {[sync EXCEPT ![k] = "ended"], [sync EXCEPT ![k] = "registered"]}
        OBVIOUS
      <3>3. QED
        BY <1>0, <3>1, <3>2
    <2>2. QED
      BY <2>1 DEF IInv, NothingStranded, Unacked
  <1>5. ReplayInv' /\ RowInv'
    BY DEF IInv, Shape, ReplayInv, RowInv, OnItsWay, Issued
  <1>6. QED
    BY <1>1, <1>2, <1>3, <1>4, <1>5 DEF IInv

LEMMA ReplayReadSafe ==
  ASSUME IInv, NEW k \in Calls, ReplayRead(k)
  PROVE  IInv'
  <1> USE DEF ReplayRead, rows, memory, agent
  <1>0. Pending \subseteq Commands /\ Pending \subseteq Issued /\ k \notin marking
    BY DEF Pending, Unacked, Issued, IInv, Shape, ReplayInv
  <1>1. Shape'
    BY <1>0 DEF IInv, Shape
  <1>2. LiveCallRegistered' /\ HelloInv'
    BY DEF IInv, Shape, LiveCallRegistered, HelloInv
  <1>3. NothingStranded'
    <2> SUFFICES ASSUME open, sync'[dialled] \in {"replay", "synced"},
                        NEW c \in Unacked \ executed
                 PROVE  enq[c] = "stored"
                        \/ c \in Range(wire) \cup {busy[dialled]} \cup todo'[dialled]
      BY DEF NothingStranded, Unacked
    <2>1. CASE k = dialled
      BY <2>1 DEF Pending, IInv, Shape
    <2>2. CASE k # dialled
      BY <2>2 DEF IInv, Shape, NothingStranded
    <2>3. QED
      BY <2>1, <2>2
  <1>4. ReplayInv' /\ RowInv'
    BY <1>0 DEF IInv, Shape, ReplayInv, RowInv, OnItsWay, Issued
  <1>5. QED
    BY <1>1, <1>2, <1>3, <1>4 DEF IInv

LEMMA ReplayWriteSafe ==
  ASSUME IInv, NEW k \in Calls, ReplayWrite(k)
  PROVE  IInv'
  <1> DEFINE c == First(todo[k])
  <1>0. c \in todo[k] /\ c \in Commands
    BY FirstIsLeast DEF IInv, Shape, ReplayWrite
  <1>1. Shape /\ Write(c) /\ UNCHANGED open
    BY DEF IInv, ReplayWrite, agent
  <1>2. /\ wire' \in Seq(Commands) /\ (~open => wire' = <<>>)
        /\ Range(wire) \subseteq Range(wire')
        /\ Reaches => c \in Range(wire')
    <2> HIDE DEF c
    <2>1. QED
      BY <1>0, <1>1, WriteDelivers
  <1> USE DEF ReplayWrite, rows, memory, agent
  <1>3. Shape'
    BY <1>2 DEF IInv, Shape
  <1>4. LiveCallRegistered' /\ HelloInv' /\ RowInv'
    BY DEF IInv, LiveCallRegistered, HelloInv, RowInv, Issued
  <1>5. NothingStranded'
    BY <1>2 DEF IInv, NothingStranded, Unacked
  <1>6. ReplayInv'
    <2>1. ASSUME open, dialled \in marking'
          PROVE  OnItsWay(First(todo[dialled]))'
      <3>1. CASE k = dialled
        <4>1. Reaches
          BY <2>1, <3>1 DEF IInv, LiveCallRegistered, Reaches
        <4>2. QED
          BY <4>1, <1>2, <3>1 DEF OnItsWay
      <3>2. CASE k # dialled
        BY <2>1, <3>2, <1>2 DEF IInv, ReplayInv, OnItsWay
      <3>3. QED
        BY <3>1, <3>2
    <2>2. QED
      BY <2>1 DEF IInv, ReplayInv
  <1>7. QED
    BY <1>3, <1>4, <1>5, <1>6 DEF IInv

LEMMA ReplayMarkSafe ==
  ASSUME IInv, NEW k \in Calls, ReplayMark(k)
  PROVE  IInv'
  <1> DEFINE c == First(todo[k])
  <1>0. c \in todo[k] /\ c \in Commands /\ todo[k] \subseteq Commands
        /\ row[c] # "none"
    <2>1. todo[k] # {} /\ todo[k] \in SUBSET Commands /\ todo[k] \subseteq Issued
      BY DEF IInv, Shape, ReplayMark, RowInv
    <2>2. QED
      BY <2>1, FirstIsLeast DEF Issued
  <1>a. /\ row' = [row EXCEPT ![c] = "SENT"]
        /\ todo' = [todo EXCEPT ![k] = todo[k] \ {c}]
        /\ marking' = marking \ {k} /\ k \in marking
        /\ UNCHANGED <<kind, stripped, enq, registered, sync, noticed, dialled, open,
                       busy, node, executed, wire, acks>>
    BY DEF ReplayMark, agent
  <1> HIDE DEF c
  <1>1. Shape'
    BY <1>0, <1>a DEF IInv, Shape
  <1>2. LiveCallRegistered' /\ HelloInv'
    BY <1>a DEF IInv, LiveCallRegistered, HelloInv
  <1>3. NothingStranded'
    <2> SUFFICES ASSUME open, sync[dialled] \in {"replay", "synced"},
                        NEW b \in Unacked' \ executed
                 PROVE  enq[b] = "stored"
                        \/ b \in Range(wire) \cup {busy[dialled]} \cup todo'[dialled]
      BY <1>a DEF NothingStranded
    <2>1. b \in Unacked
      <3>1. c \in Unacked \/ c \in executed
        BY <1>0 DEF IInv, Shape, RowInv, Unacked
      <3>2. QED
        BY <3>1, <1>a DEF Unacked, IInv, Shape
    <2>2. enq[b] = "stored"
          \/ b \in Range(wire) \cup {busy[dialled]} \cup todo[dialled]
      BY <2>1 DEF IInv, NothingStranded
    <2>3. CASE k = dialled
      <3>1. OnItsWay(c)
        BY <2>3, <1>a DEF IInv, ReplayInv, c
      <3>2. b = c \/ (b \in todo[dialled] => b \in todo'[dialled])
        BY <2>3, <1>a DEF IInv, Shape
      <3>3. QED
        BY <2>2, <3>1, <3>2 DEF OnItsWay
    <2>4. CASE k # dialled
      BY <2>2, <2>4, <1>a DEF IInv, Shape
    <2>5. QED
      BY <2>3, <2>4
  <1>4. ReplayInv'
    BY <1>0, <1>a DEF IInv, Shape, ReplayInv, OnItsWay
  <1>5. RowInv'
    BY <1>0, <1>a DEF IInv, Shape, RowInv, Issued
  <1>6. QED
    BY <1>1, <1>2, <1>3, <1>4, <1>5 DEF IInv

LEMMA ReplayDoneSafe ==
  ASSUME IInv, NEW k \in Calls, ReplayDone(k)
  PROVE  IInv'
  <1> USE DEF ReplayDone, rows, memory, agent
  <1>1. Shape' /\ LiveCallRegistered' /\ HelloInv'
    BY DEF IInv, Shape, LiveCallRegistered, HelloInv
  <1>2. NothingStranded'
    BY DEF IInv, Shape, NothingStranded, Unacked
  <1>3. ReplayInv' /\ RowInv'
    BY DEF IInv, Shape, ReplayInv, RowInv, OnItsWay, Issued
  <1>4. QED
    BY <1>1, <1>2, <1>3 DEF IInv

LEMMA CloseSeenSafe ==
  ASSUME IInv, NEW k \in Calls, CloseSeen(k)
  PROVE  IInv'
  <1> USE DEF CloseSeen, rows, memory, agent
  <1>1. Shape'
    <2>1. registered \in 0..dialled /\ noticed \subseteq 1..dialled /\ dialled \in Nat
          /\ k \in 1..dialled
      BY CallsAssumption DEF IInv, Shape, Calls
    <2>2. registered' \in (0..dialled) \ noticed'
      <3>1. CASE registered = k
        BY <2>1, <3>1 DEF Unregister, None
      <3>2. CASE registered # k
        BY <2>1, <3>2 DEF IInv, Shape, Unregister
      <3>3. QED
        BY <3>1, <3>2
    <2>3. noticed' \subseteq 1..dialled
      BY <2>1
    <2>4. QED
      BY <2>2, <2>3 DEF IInv, Shape
  <1>2. LiveCallRegistered' /\ HelloInv'
    BY DEF IInv, Shape, LiveCallRegistered, HelloInv, Unregister
  <1>3. NothingStranded' /\ ReplayInv' /\ RowInv'
    BY DEF IInv, NothingStranded, ReplayInv, RowInv, OnItsWay, Issued, Unacked
  <1>4. QED
    BY <1>1, <1>2, <1>3 DEF IInv

LEMMA HandleAckSafe ==
  ASSUME IInv, NEW i \in DOMAIN acks, HandleAck(i)
  PROVE  IInv'
  <1> DEFINE Ack == [cmd : Commands, outcome : {"ACKED", "FAILED"}, call : Calls]
  <1>0. /\ acks \in Seq(Ack) /\ acks[i] \in Ack
        /\ acks[i].cmd \in Commands /\ acks[i].outcome \in {"ACKED", "FAILED"}
        /\ acks[i].cmd \in executed
    <2>1. acks \in Seq(Ack)
      BY DEF IInv, Shape
    <2>2. acks[i] \in Ack
      <3> HIDE DEF Ack
      <3>1. QED
        BY <2>1
    <2>3. acks[i].cmd \in Commands /\ acks[i].outcome \in {"ACKED", "FAILED"}
      BY <2>2
    <2>4. QED
      BY <2>1, <2>2, <2>3 DEF IInv, RowInv
  <1>a. /\ RemoveAt(acks, i) \in Seq(Ack)
        /\ \A j \in DOMAIN RemoveAt(acks, i) : \E k \in DOMAIN acks : RemoveAt(acks, i)[j] = acks[k]
    <2> HIDE DEF Ack
    <2>1. QED
      BY <1>0, RemoveAtKeeps
  <1>b. /\ row' = [row EXCEPT ![acks[i].cmd] = acks[i].outcome]
        /\ stripped' = stripped \cup {acks[i].cmd}
        /\ acks' = RemoveAt(acks, i)
        /\ UNCHANGED <<kind, enq, registered, sync, todo, marking, noticed, dialled, open,
                       busy, node, executed, wire>>
    BY DEF HandleAck, memory, agent
  <1>1. Shape'
    BY <1>0, <1>a, <1>b DEF IInv, Shape
  <1>2. LiveCallRegistered' /\ HelloInv' /\ ReplayInv'
    BY <1>b DEF IInv, LiveCallRegistered, HelloInv, ReplayInv, OnItsWay
  <1>3. NothingStranded'
    BY <1>0, <1>b DEF IInv, Shape, NothingStranded, Unacked
  <1>4. RowInv'
    BY <1>0, <1>a, <1>b DEF IInv, Shape, RowInv, Issued
  <1>5. QED
    BY <1>1, <1>2, <1>3, <1>4 DEF IInv

LEMMA LoseAckSafe ==
  ASSUME IInv, NEW i \in DOMAIN acks, LoseAck(i)
  PROVE  IInv'
  <1> DEFINE Ack == [cmd : Commands, outcome : {"ACKED", "FAILED"}, call : Calls]
  <1>1. acks \in Seq(Ack)
    BY DEF IInv, Shape
  <1>2. /\ RemoveAt(acks, i) \in Seq(Ack)
        /\ \A j \in DOMAIN RemoveAt(acks, i) : \E k \in DOMAIN acks : RemoveAt(acks, i)[j] = acks[k]
    <2> HIDE DEF Ack
    <2>1. QED
      BY <1>1, RemoveAtKeeps
  <1> USE DEF LoseAck, rows, memory, agent
  <1>3. Shape'
    BY <1>2 DEF IInv, Shape
  <1>4. LiveCallRegistered' /\ HelloInv' /\ ReplayInv' /\ NothingStranded'
    BY DEF IInv, LiveCallRegistered, HelloInv, ReplayInv, OnItsWay, NothingStranded, Unacked
  <1>5. RowInv'
    BY <1>2 DEF IInv, RowInv, Issued
  <1>6. QED
    BY <1>3, <1>4, <1>5 DEF IInv

LEMMA DialSafe ==
  ASSUME IInv, Dial, "slow_hello" \notin Races
  PROVE  IInv'
  <1> USE DEF Dial, rows, memory, agent
  <1>0. dialled \in 0..MaxCalls /\ dialled + 1 \in Calls /\ dialled' = dialled + 1
        /\ MaxCalls \in Nat
    BY CallsAssumption DEF IInv, Shape, Calls
  <1>1. Shape'
    <2>1. registered \in (0..dialled') \ noticed /\ noticed \subseteq 1..dialled'
      BY <1>0 DEF IInv, Shape
    <2>2. QED
      BY <1>0, <2>1 DEF IInv, Shape
  <1>2. LiveCallRegistered' /\ NothingStranded'
    BY <1>0 DEF IInv, Shape, LiveCallRegistered, NothingStranded
  <1>3. HelloInv'
    <2>1. \A k \in Calls : sync'[k] = "none" <=> k > dialled'
      BY <1>0 DEF IInv, Shape, HelloInv, Calls
    <2>2. \A k \in Calls : k < dialled' /\ sync'[k] = "hello" => k \in noticed
      BY <1>0 DEF IInv, Shape, Calls
    <2>3. dialled' \notin noticed
      BY <1>0 DEF IInv, Shape
    <2>4. QED
      BY <2>1, <2>2, <2>3 DEF HelloInv
  <1>4. ReplayInv'
    <2>0. sync[dialled + 1] = "none"
      BY <1>0, CallsAssumption DEF IInv, HelloInv, Calls
    <2>1. todo[dialled + 1] = {} /\ dialled + 1 \notin marking
      BY <1>0, <2>0 DEF IInv, Shape, ReplayInv
    <2>2. QED
      BY <1>0, <2>1 DEF IInv, Shape, ReplayInv
  <1>5. RowInv'
    BY DEF IInv, RowInv, Issued
  <1>6. QED
    BY <1>1, <1>2, <1>3, <1>4, <1>5 DEF IInv

LEMMA DropSafe ==
  ASSUME IInv, Drop
  PROVE  IInv'
  <1> USE DEF Drop, rows, memory, agent
  <1>1. Shape'
    <2>1. wire' \in Seq(Commands) /\ wire' = <<>>
      BY EmptySeq
    <2>2. QED
      BY <2>1 DEF IInv, Shape
  <1>2. LiveCallRegistered' /\ NothingStranded' /\ HelloInv' /\ ReplayInv' /\ RowInv'
    BY DEF IInv, LiveCallRegistered, NothingStranded, HelloInv, ReplayInv, RowInv, Issued
  <1>3. QED
    BY <1>1, <1>2 DEF IInv

LEMMA AgentStopsSafe ==
  ASSUME IInv, AgentStops
  PROVE  IInv'
  <1> USE DEF AgentStops, rows, memory
  <1>1. Shape'
    <2>1. wire' \in Seq(Commands) /\ wire' = <<>>
      BY EmptySeq
    <2>2. busy' \in [Calls -> Commands \cup {None}]
      OBVIOUS
    <2>3. QED
      BY <2>1, <2>2 DEF IInv, Shape
  <1>2. LiveCallRegistered' /\ NothingStranded' /\ HelloInv' /\ ReplayInv' /\ RowInv'
    BY DEF IInv, LiveCallRegistered, NothingStranded, HelloInv, ReplayInv, RowInv, Issued
  <1>3. QED
    BY <1>1, <1>2 DEF IInv

LEMMA TakeSafe ==
  ASSUME IInv, Take
  PROVE  IInv'
  <1> USE DEF Take, rows, memory, agent
  <1>0. /\ Head(wire) \in Commands /\ Tail(wire) \in Seq(Commands)
        /\ Range(wire) = Range(Tail(wire)) \cup {Head(wire)}
        /\ dialled \in Calls
    <2>1. wire \in Seq(Commands) /\ wire # <<>>
      BY DEF IInv, Shape
    <2>2. dialled \in Calls
      BY CallsAssumption DEF IInv, Shape, Calls
    <2>3. QED
      BY <2>1, <2>2, TailKeeps
  <1>1. Shape'
    BY <1>0 DEF IInv, Shape
  <1>2. LiveCallRegistered' /\ HelloInv' /\ RowInv'
    BY DEF IInv, LiveCallRegistered, HelloInv, RowInv, Issued
  <1>3. Range(wire) \cup {busy[dialled]} \subseteq Range(wire') \cup {busy'[dialled], None}
    BY <1>0 DEF IInv, Shape
  <1>4. None \notin Commands
    BY DEF None, Commands
  <1>5. NothingStranded'
    BY <1>3, <1>4 DEF IInv, NothingStranded, Unacked
  <1>6. ReplayInv'
    <2>1. dialled \in marking => First(todo[dialled]) \in Commands
      BY <1>0, FirstIsLeast DEF IInv, Shape
    <2>2. QED
      BY <1>3, <1>4, <2>1 DEF IInv, ReplayInv, OnItsWay
  <1>7. QED
    BY <1>1, <1>2, <1>5, <1>6 DEF IInv

LEMMA FinishSafe ==
  ASSUME IInv, NEW k \in Calls, NEW outcome \in Outcomes, Finish(k, outcome)
  PROVE  IInv'
  <1> DEFINE Ack == [cmd : Commands, outcome : {"ACKED", "FAILED"}, call : Calls]
             ack == [cmd |-> busy[k], outcome |-> outcome, call |-> k]
  <1>0. busy[k] \in Commands /\ ack \in Ack
    BY OutcomesAssumption DEF IInv, Shape, Finish
  <1>1. /\ acks \in Seq(Ack) /\ acks' \in {acks, Append(acks, ack)}
        /\ Append(acks, ack) \in Seq(Ack)
    BY <1>0 DEF IInv, Shape, Finish
  <1>2. \A i \in DOMAIN acks' : acks'[i].cmd \in executed'
    <2>1. \A i \in DOMAIN acks : acks[i].cmd \in executed'
      BY DEF IInv, RowInv, Finish
    <2>2. \A i \in DOMAIN Append(acks, ack) :
            \/ i \in DOMAIN acks /\ Append(acks, ack)[i] = acks[i]
            \/ Append(acks, ack)[i] = ack
      <3> HIDE DEF Ack, ack
      <3>1. QED
        BY <1>1, <1>0, AppendProperties
    <2>3. ack.cmd \in executed'
      BY DEF Finish
    <2>4. QED
      BY <1>1, <2>1, <2>2, <2>3
  <1>a. /\ executed' = executed \cup {busy[k]}
        /\ node' \in {node, kind[busy[k]]}
        /\ busy' = [busy EXCEPT ![k] = None]
        /\ UNCHANGED <<row, kind, stripped, enq, registered, sync, todo, marking, noticed,
                       dialled, open, wire>>
    BY DEF Finish, rows, memory
  <1>3. Shape'
    <2>1. acks' \in Seq(Ack)
      BY <1>1
    <2>2. QED
      BY <1>0, <1>a, <2>1 DEF IInv, Shape
  <1>4. LiveCallRegistered' /\ HelloInv'
    BY <1>a DEF IInv, LiveCallRegistered, HelloInv
  <1>5. NothingStranded'
    BY <1>a DEF IInv, Shape, NothingStranded, Unacked
  <1>6. ReplayInv'
    BY <1>a DEF IInv, Shape, ReplayInv, OnItsWay
  <1>7. RowInv'
    BY <1>2, <1>a DEF IInv, RowInv, Issued
  <1>8. QED
    BY <1>3, <1>4, <1>5, <1>6, <1>7 DEF IInv

LEMMA RestartSafe ==
  ASSUME IInv, Restart
  PROVE  IInv'
  <1> USE DEF Restart, rows
  <1>0. dialled \in 0..MaxCalls /\ MaxCalls \in Nat
    BY CallsAssumption DEF IInv, Shape
  <1>1. Shape'
    <2>1. /\ wire' \in Seq(Commands)
          /\ acks' \in Seq([cmd : Commands, outcome : {"ACKED", "FAILED"}, call : Calls])
      BY EmptySeq
    <2>2. registered' \in (0..dialled) \ noticed' /\ noticed' \subseteq 1..dialled
      BY <1>0 DEF None
    <2>3. enq' \in [Commands -> {"none", "stored", "mark", "over"}]
      OBVIOUS
    <2>4. /\ sync' \in [Calls -> {"none", "hello", "registered", "replay", "synced", "ended"}]
          /\ todo' \in [Calls -> SUBSET Commands]
      OBVIOUS
    <2>5. wire' = <<>> /\ open' = FALSE /\ marking' = {}
      OBVIOUS
    <2>6. QED
      BY <2>1, <2>2, <2>3, <2>4, <2>5 DEF IInv, Shape
  <1>2. LiveCallRegistered' /\ NothingStranded' /\ ReplayInv'
    BY DEF LiveCallRegistered, NothingStranded, ReplayInv
  <1>3. HelloInv'
    BY <1>0 DEF HelloInv, Calls
  <1>4. RowInv'
    BY DEF IInv, RowInv, Issued
  <1>5. QED
    BY <1>1, <1>2, <1>3, <1>4 DEF IInv

-----------------------------------------------------------------------------
(***************************************************************************)
(* The theorems.                                                           *)
(***************************************************************************)
\* IInv holds in every reachable state: nothing a caller, the network, the
\* agent or a restart of the backend does between two awaits breaks it.
THEOREM Invariant ==
  ASSUME "slow_hello" \notin Races
  PROVE  Spec => []IInv
  <1>1. Init => IInv
    <2> SUFFICES ASSUME Init PROVE IInv
      OBVIOUS
    <2> USE DEF Init
    <2>1. Shape
      <3>1. /\ wire \in Seq(Commands)
            /\ acks \in Seq([cmd : Commands, outcome : {"ACKED", "FAILED"}, call : Calls])
        BY EmptySeq
      <3>2. registered \in (0..dialled) \ noticed /\ dialled \in 0..MaxCalls
        BY CallsAssumption DEF None
      <3>3. busy \in [Calls -> Commands \cup {None}] /\ todo \in [Calls -> SUBSET Commands]
        OBVIOUS
      <3>4. QED
        BY <3>1, <3>2, <3>3 DEF Shape
    <2>2. LiveCallRegistered /\ NothingStranded /\ HelloInv /\ ReplayInv /\ RowInv
      BY CallsAssumption DEF LiveCallRegistered, NothingStranded, HelloInv, ReplayInv,
         RowInv, Calls
    <2>3. QED
      BY <2>1, <2>2 DEF IInv
  <1>2. IInv /\ [Next]_vars => IInv'
    <2> SUFFICES ASSUME IInv, [Next]_vars PROVE IInv'
      OBVIOUS
    <2>1. ASSUME NEW c \in Commands, NEW what \in Kinds, Enqueue(c, what) PROVE IInv'
      BY <2>1, EnqueueSafe
    <2>2. CASE Backend
      <3>1. ASSUME NEW c \in Commands, WriteStored(c) PROVE IInv'
        BY <3>1, WriteStoredSafe
      <3>2. ASSUME NEW c \in Commands, MarkSent(c) PROVE IInv'
        BY <3>2, MarkSentSafe
      <3>3. ASSUME NEW k \in Calls, HelloDone(k) PROVE IInv'
        BY <3>3, HelloDoneSafe
      <3>4. ASSUME NEW k \in Calls, ReplayRead(k) PROVE IInv'
        BY <3>4, ReplayReadSafe
      <3>5. ASSUME NEW k \in Calls, ReplayWrite(k) PROVE IInv'
        BY <3>5, ReplayWriteSafe
      <3>6. ASSUME NEW k \in Calls, ReplayMark(k) PROVE IInv'
        BY <3>6, ReplayMarkSafe
      <3>7. ASSUME NEW k \in Calls, ReplayDone(k) PROVE IInv'
        BY <3>7, ReplayDoneSafe
      <3>8. ASSUME NEW k \in Calls, CloseSeen(k) PROVE IInv'
        BY <3>8, CloseSeenSafe
      <3>9. ASSUME NEW i \in DOMAIN acks, HandleAck(i) PROVE IInv'
        BY <3>9, HandleAckSafe
      <3>10. ASSUME NEW i \in DOMAIN acks, LoseAck(i) PROVE IInv'
        BY <3>10, LoseAckSafe
      <3>11. QED
        BY <2>2, <3>1, <3>2, <3>3, <3>4, <3>5, <3>6, <3>7, <3>8, <3>9, <3>10 DEF Backend
    <2>3. CASE Agent
      <3>1. ASSUME NEW k \in Calls, NEW outcome \in Outcomes, Finish(k, outcome)
            PROVE IInv'
        BY <3>1, FinishSafe
      <3>2. QED
        BY <2>3, <3>1, DialSafe, TakeSafe DEF Agent
    <2>4. CASE UNCHANGED vars
      BY <2>4 DEF vars, IInv, Shape, LiveCallRegistered, NothingStranded, HelloInv,
         ReplayInv, RowInv, OnItsWay, Unacked, Issued
    <2>5. QED
      BY <2>1, <2>2, <2>3, <2>4, DropSafe, AgentStopsSafe, RestartSafe DEF Next
  <1>3. QED
    BY <1>1, <1>2, PTL DEF Spec

\* A live call stays in the registry, however late the ends of earlier calls
\* are noticed: the check in AgentConnectionRegistry.delete is enough.
THEOREM LiveCallStays ==
  ASSUME "slow_hello" \notin Races
  PROVE  Spec => []LiveCallRegistered
  <1>1. IInv => LiveCallRegistered
    BY DEF IInv
  <1>2. QED
    BY <1>1, Invariant, PTL

\* Between enqueueCommand, the replay and the acks no command falls through:
\* registering the call before the outbox is read is what makes it so.
THEOREM NoneStranded ==
  ASSUME "slow_hello" \notin Races
  PROVE  Spec => []NothingStranded
  <1>1. IInv => NothingStranded
    BY DEF IInv
  <1>2. QED
    BY <1>1, Invariant, PTL

-----------------------------------------------------------------------------
(***************************************************************************)
(* What holds whatever overlaps, a slow Hello included.                    *)
(***************************************************************************)
\* The shape, and that only a running replay has commands to write.
Sound ==
  /\ Shape
  /\ \A k \in Calls : sync[k] = "none" <=> k > dialled
  /\ \A k \in Calls : todo[k] # {} => sync[k] = "replay"

\* A row that was stripped when no handler was still to write it is recorded,
\* and no handler will write it.
Recorded ==
  \A c \in stripped \ late :
    /\ row[c] \in {"ACKED", "FAILED"} /\ enq[c] = "over"
    /\ \A k \in Calls : c \notin todo[k]

LEMMA SoundBackend ==
  ASSUME Sound, Backend
  PROVE  Sound'
  <1>0. /\ dialled \in 0..MaxCalls /\ MaxCalls \in Nat /\ noticed \subseteq 1..dialled
        /\ \A k \in Calls : k \in Nat /\ k > 0
    BY CallsAssumption DEF Sound, Shape, Calls
  <1>1. ASSUME NEW c \in Commands, WriteStored(c) PROVE Sound'
    <2>1. wire' \in Seq(Commands) /\ (~open => wire' = <<>>)
      BY <1>1, WriteDelivers DEF Sound, WriteStored, agent
    <2>2. QED
      BY <1>1, <2>1 DEF Sound, Shape, WriteStored, rows, memory, agent
  <1>2. ASSUME NEW c \in Commands, MarkSent(c) PROVE Sound'
    BY <1>2 DEF Sound, Shape, MarkSent, memory, agent
  <1>3. ASSUME NEW k \in Calls, HelloDone(k) PROVE Sound'
    <2>1. /\ sync[k] = "hello" /\ registered' \in {registered, k}
          /\ k \in noticed => registered' = registered
          /\ sync' \in {[sync EXCEPT ![k] = "ended"], [sync EXCEPT ![k] = "registered"]}
          /\ UNCHANGED <<row, kind, stripped, enq, todo, marking, noticed, dialled, open,
                         busy, node, executed, wire, acks>>
      BY <1>3 DEF HelloDone, rows, agent
    <2>2. k \in 1..dialled
      BY <1>0, <2>1 DEF Sound
    <2>3. registered' \in (0..dialled) \ noticed
      BY <1>0, <2>1, <2>2 DEF Sound, Shape
    <2>4. /\ sync' \in [Calls -> {"none", "hello", "registered", "replay", "synced", "ended"}]
          /\ \A j \in Calls : j # k => sync'[j] = sync[j]
          /\ sync'[k] # "none" /\ todo[k] = {}
      BY <2>1 DEF Sound, Shape
    <2>5. QED
      BY <1>0, <2>1, <2>2, <2>3, <2>4 DEF Sound, Shape
  <1>4. ASSUME NEW k \in Calls, ReplayRead(k) \/ ReplayDone(k) PROVE Sound'
    <2>1. /\ sync[k] \in {"registered", "replay"}
          /\ \/ /\ sync[k] = "registered" /\ todo' = [todo EXCEPT ![k] = Unacked]
                /\ sync' = [sync EXCEPT ![k] = "replay"]
             \/ /\ todo[k] = {} /\ todo' = todo /\ sync' = [sync EXCEPT ![k] = "synced"]
          /\ UNCHANGED <<row, kind, stripped, enq, registered, marking, noticed, dialled, open,
                         busy, node, executed, wire, acks>>
      BY <1>4 DEF ReplayRead, ReplayDone, Pending, rows, agent
    <2>2. Unacked \subseteq Commands
      BY DEF Unacked
    <2>3. todo[k] = {} \/ sync[k] = "replay"
      BY DEF Sound
    <2>4. k \notin marking
      BY <2>1, <2>3 DEF Sound, Shape
    <2>5. /\ todo' \in [Calls -> SUBSET Commands]
          /\ sync' \in [Calls -> {"none", "hello", "registered", "replay", "synced", "ended"}]
          /\ \A j \in Calls : j # k => sync'[j] = sync[j] /\ todo'[j] = todo[j]
          /\ sync'[k] # "none" /\ (todo'[k] # {} => sync'[k] = "replay")
      BY <2>1, <2>2 DEF Sound, Shape
    <2>6. QED
      BY <2>1, <2>4, <2>5 DEF Sound, Shape
  <1>5. ASSUME NEW k \in Calls, ReplayWrite(k) PROVE Sound'
    <2>1. todo[k] \in SUBSET Commands /\ todo[k] # {}
      BY <1>5 DEF ReplayWrite, Sound, Shape
    <2>2. First(todo[k]) \in Commands
      BY <2>1, FirstIsLeast
    <2>3. wire' \in Seq(Commands) /\ (~open => wire' = <<>>)
      BY <1>5, <2>2, WriteDelivers DEF Sound, ReplayWrite, agent
    <2>4. QED
      BY <1>5, <2>1, <2>3 DEF Sound, Shape, ReplayWrite, rows, agent
  <1>6. ASSUME NEW k \in Calls, ReplayMark(k) PROVE Sound'
    <2>1. /\ row' = [row EXCEPT ![First(todo[k])] = "SENT"]
          /\ todo' = [todo EXCEPT ![k] = todo[k] \ {First(todo[k])}]
          /\ marking' = marking \ {k} /\ k \in marking
          /\ UNCHANGED <<kind, stripped, enq, registered, sync, noticed, dialled, open,
                         busy, node, executed, wire, acks>>
      BY <1>6 DEF ReplayMark, agent
    <2>2. QED
      BY <2>1 DEF Sound, Shape
  <1>7. ASSUME NEW k \in Calls, CloseSeen(k) PROVE Sound'
    <2>1. /\ k \in 1..dialled /\ noticed' = noticed \cup {k}
          /\ registered' = IF registered = k THEN None ELSE registered
          /\ UNCHANGED <<row, kind, stripped, enq, sync, todo, marking, dialled, open,
                         busy, node, executed, wire, acks>>
      BY <1>0, <1>7 DEF CloseSeen, Unregister, rows, agent
    <2>2. registered' \in (0..dialled) \ noticed' /\ noticed' \subseteq 1..dialled
      BY <1>0, <2>1 DEF Sound, Shape, None
    <2>3. QED
      BY <2>1, <2>2 DEF Sound, Shape
  <1>8. ASSUME NEW i \in DOMAIN acks, HandleAck(i) \/ LoseAck(i) PROVE Sound'
    <2> DEFINE Ack == [cmd : Commands, outcome : {"ACKED", "FAILED"}, call : Calls]
    <2>1. acks \in Seq(Ack)
      BY DEF Sound, Shape
    <2>2. acks[i] \in Ack /\ RemoveAt(acks, i) \in Seq(Ack)
      <3> HIDE DEF Ack
      <3>1. QED
        BY <2>1, RemoveAtKeeps
    <2>3. acks[i].cmd \in Commands /\ acks[i].outcome \in {"ACKED", "FAILED"}
      BY <2>2
    <2>4. /\ \/ /\ row' = [row EXCEPT ![acks[i].cmd] = acks[i].outcome]
                /\ stripped' = stripped \cup {acks[i].cmd}
             \/ row' = row /\ stripped' = stripped
          /\ acks' = RemoveAt(acks, i)
          /\ UNCHANGED <<kind, enq, registered, sync, todo, marking, noticed, dialled, open,
                         busy, node, executed, wire>>
      BY <1>8 DEF HandleAck, LoseAck, rows, memory, agent
    <2>5. QED
      BY <2>2, <2>3, <2>4 DEF Sound, Shape
  <1>9. QED
    BY <1>1, <1>2, <1>3, <1>4, <1>5, <1>6, <1>7, <1>8 DEF Backend

LEMMA SoundKept ==
  ASSUME Sound, Next
  PROVE  Sound'
  <1>0. /\ dialled \in 0..MaxCalls /\ MaxCalls \in Nat /\ noticed \subseteq 1..dialled
        /\ open => dialled \in Calls
    BY CallsAssumption DEF Sound, Shape, Calls
  <1>1. ASSUME NEW c \in Commands, NEW what \in Kinds, Enqueue(c, what) PROVE Sound'
    BY <1>1, KindsAssumption DEF Sound, Shape, Enqueue, memory, agent
  <1>2. CASE Dial
    <2>1. /\ dialled < MaxCalls /\ dialled' = dialled + 1 /\ open'
          /\ sync' = [sync EXCEPT ![dialled + 1] = "hello"] /\ ~open
          /\ UNCHANGED <<row, kind, stripped, enq, registered, todo, marking, noticed, wire,
                         busy, acks, node, executed>>
      BY <1>2 DEF Dial, rows
    <2>2. dialled + 1 \in Calls /\ dialled' \in 0..MaxCalls /\ dialled' # 0
      BY <1>0, <2>1 DEF Calls
    <2>3. registered' \in (0..dialled') \ noticed' /\ noticed' \subseteq 1..dialled'
      BY <1>0, <2>1 DEF Sound, Shape
    <2>4. sync[dialled + 1] = "none"
      BY <1>0, <2>2 DEF Sound
    <2>5. \A k \in Calls : sync'[k] = "none" <=> k > dialled'
      BY <1>0, <2>1, <2>2 DEF Sound, Shape, Calls
    <2>6. \A k \in Calls : todo[k] # {} => sync'[k] = "replay"
      BY <2>1, <2>4 DEF Sound, Shape
    <2>7. open' \in BOOLEAN
      BY <1>2 DEF Dial
    <2>8. QED
      BY <2>1, <2>2, <2>3, <2>5, <2>6, <2>7 DEF Sound, Shape
  <1>3. CASE Drop \/ AgentStops
    <2>1. wire' = <<>> /\ wire' \in Seq(Commands) /\ open' = FALSE
      BY <1>3, EmptySeq DEF Drop, AgentStops
    <2>2. /\ busy' \in {busy, [k \in Calls |-> None]}
          /\ UNCHANGED <<row, kind, stripped, enq, registered, sync, todo, marking, noticed,
                         dialled, acks, node, executed>>
      BY <1>3 DEF Drop, AgentStops, rows, memory
    <2>3. QED
      BY <2>1, <2>2 DEF Sound, Shape
  <1>4. CASE Take
    <2>1. Head(wire) \in Commands /\ Tail(wire) \in Seq(Commands)
      <3>1. wire \in Seq(Commands) /\ wire # <<>>
        BY <1>4 DEF Sound, Shape, Take
      <3>2. QED
        BY <3>1, TailKeeps
    <2>2. QED
      BY <1>4, <2>1 DEF Sound, Shape, Take, rows, memory
  <1>5. ASSUME NEW k \in Calls, NEW outcome \in Outcomes, Finish(k, outcome) PROVE Sound'
    <2> DEFINE Ack == [cmd : Commands, outcome : {"ACKED", "FAILED"}, call : Calls]
               ack == [cmd |-> busy[k], outcome |-> outcome, call |-> k]
    <2>1. busy[k] \in Commands /\ ack \in Ack
      BY <1>5, OutcomesAssumption DEF Sound, Shape, Finish
    <2>2. acks' \in Seq(Ack)
      <3>1. acks \in Seq(Ack) /\ acks' \in {acks, Append(acks, ack)}
        BY <1>5 DEF Sound, Shape, Finish
      <3>2. Append(acks, ack) \in Seq(Ack)
        BY <2>1, <3>1
      <3>3. QED
        BY <3>1, <3>2
    <2>3. /\ executed' = executed \cup {busy[k]} /\ node' \in {node, kind[busy[k]]}
          /\ busy' = [busy EXCEPT ![k] = None]
          /\ UNCHANGED <<row, kind, stripped, enq, registered, sync, todo, marking, noticed,
                         dialled, open, wire>>
      BY <1>5 DEF Finish, rows, memory
    <2>4. QED
      BY <2>1, <2>2, <2>3 DEF Sound, Shape
  <1>6. CASE Restart
    <2>1. /\ wire' = <<>> /\ wire' \in Seq(Commands)
          /\ acks' \in Seq([cmd : Commands, outcome : {"ACKED", "FAILED"}, call : Calls])
      BY <1>6, EmptySeq DEF Restart
    <2>2. /\ registered' = 0 /\ noticed' = 1..dialled /\ open' = FALSE /\ marking' = {}
          /\ enq' = [c \in Commands |-> IF row[c] = "none" THEN "none" ELSE "over"]
          /\ sync' = [k \in Calls |-> IF k <= dialled THEN "ended" ELSE "none"]
          /\ todo' = [k \in Calls |-> {}]
          /\ UNCHANGED <<row, kind, stripped, dialled, busy, node, executed>>
      BY <1>6 DEF Restart, rows, None
    <2>3. \A k \in Calls : sync'[k] = "none" <=> k > dialled'
      BY <1>0, <2>2 DEF Calls
    <2>4. registered' \in (0..dialled') \ noticed'
      BY <1>0, <2>2
    <2>5. QED
      BY <2>1, <2>2, <2>3, <2>4 DEF Sound, Shape
  <1>7. QED
    BY <1>1, <1>2, <1>3, <1>4, <1>5, <1>6, SoundBackend DEF Next, Agent

\* A recorded row stays recorded: an ack that finds a handler still to write
\* its row puts it among the late ones.
LEMMA RecordedKept ==
  ASSUME Sound, Recorded, Next
  PROVE  Recorded'
  <1>0. Shape
    BY DEF Sound
  <1>1. stripped \subseteq Commands
    BY <1>0 DEF Shape
  <1>2. ASSUME NEW c \in Commands, NEW what \in Kinds, Enqueue(c, what) PROVE Recorded'
    <2>1. /\ row[c] = "none" /\ row' = [row EXCEPT ![c] = "QUEUED"]
          /\ enq' = [enq EXCEPT ![c] = "stored"] /\ UNCHANGED <<stripped, todo, late>>
      BY <1>2 DEF Enqueue, memory
    <2>2. QED
      BY <1>0, <1>1, <2>1 DEF Recorded, Shape
  <1>3. ASSUME NEW c \in Commands, WriteStored(c) PROVE Recorded'
    <2>1. /\ enq[c] = "stored" /\ \A b \in Commands : b # c => enq'[b] = enq[b]
          /\ UNCHANGED <<row, stripped, todo, late>>
      BY <1>0, <1>3 DEF WriteStored, rows, memory, Shape
    <2>2. QED
      BY <1>1, <2>1 DEF Recorded
  <1>4. ASSUME NEW c \in Commands, MarkSent(c) PROVE Recorded'
    <2>1. /\ enq[c] = "mark" /\ row' = [row EXCEPT ![c] = "SENT"]
          /\ enq' = [enq EXCEPT ![c] = "over"] /\ UNCHANGED <<stripped, todo, late>>
      BY <1>4 DEF MarkSent, memory, history
    <2>2. QED
      BY <1>0, <1>1, <2>1 DEF Recorded, Shape
  <1>5. ASSUME NEW k \in Calls, ReplayRead(k) PROVE Recorded'
    <2>1. /\ todo' = [todo EXCEPT ![k] = Unacked] /\ UNCHANGED <<row, stripped, enq, late>>
      BY <1>5 DEF ReplayRead, Pending, rows, history
    <2>2. QED
      BY <1>0, <2>1 DEF Recorded, Shape, Unacked
  <1>6. ASSUME NEW k \in Calls, ReplayMark(k) PROVE Recorded'
    <2>1. todo[k] \in SUBSET Commands /\ todo[k] # {}
      BY <1>0, <1>6 DEF ReplayMark, Shape
    <2>2. First(todo[k]) \in todo[k]
      BY <2>1, FirstIsLeast
    <2>3. /\ row' = [row EXCEPT ![First(todo[k])] = "SENT"]
          /\ \A j \in Calls : todo'[j] \subseteq todo[j]
          /\ UNCHANGED <<stripped, enq, late>>
      BY <1>0, <1>6 DEF ReplayMark, Shape, history
    <2>4. QED
      BY <1>0, <1>1, <2>2, <2>3 DEF Recorded, Shape
  <1>7. ASSUME NEW i \in DOMAIN acks, HandleAck(i) PROVE Recorded'
    <2> DEFINE c == acks[i].cmd
               Ack == [cmd : Commands, outcome : {"ACKED", "FAILED"}, call : Calls]
    <2>1. c \in Commands /\ acks[i].outcome \in {"ACKED", "FAILED"}
      <3>1. acks \in Seq(Ack)
        BY <1>0 DEF Shape
      <3>2. acks[i] \in Ack
        <4> HIDE DEF Ack
        <4>1. QED
          BY <3>1
      <3>3. QED
        BY <3>2
    <2>2. /\ row' = [row EXCEPT ![c] = acks[i].outcome]
          /\ stripped' = stripped \cup {c}
          /\ late' = IF StillToWrite(c) THEN late \cup {c} ELSE late
          /\ UNCHANGED <<enq, todo>>
      BY <1>7 DEF HandleAck, memory
    <2> HIDE DEF c
    <2>3. ASSUME NEW b \in stripped' \ late', b = c
          PROVE  /\ row'[b] \in {"ACKED", "FAILED"} /\ enq'[b] = "over"
                 /\ \A k \in Calls : b \notin todo'[k]
      BY <1>0, <2>1, <2>2, <2>3 DEF StillToWrite, Shape
    <2>4. ASSUME NEW b \in stripped' \ late', b # c
          PROVE  /\ row'[b] \in {"ACKED", "FAILED"} /\ enq'[b] = "over"
                 /\ \A k \in Calls : b \notin todo'[k]
      <3>1. b \in stripped \ late /\ row'[b] = row[b]
        BY <1>0, <1>1, <2>2, <2>4 DEF Shape
      <3>2. QED
        BY <2>2, <3>1 DEF Recorded
    <2>5. QED
      BY <2>3, <2>4 DEF Recorded
  <1>8. CASE Restart
    <2>1. /\ UNCHANGED <<row, stripped, late>>
          /\ enq' = [c \in Commands |-> IF row[c] = "none" THEN "none" ELSE "over"]
          /\ todo' = [k \in Calls |-> {}]
      BY <1>8 DEF Restart, rows, history
    <2>2. QED
      BY <1>1, <2>1 DEF Recorded
  <1>9. CASE UNCHANGED <<row, stripped, enq, todo, late>>
    BY <1>9 DEF Recorded
  <1>10. CASE Dial \/ Drop \/ AgentStops \/ Take
    BY <1>9, <1>10 DEF Dial, Drop, AgentStops, Take, rows, memory, history
  <1>11. ASSUME NEW k \in Calls, HelloDone(k) \/ ReplayWrite(k) \/ ReplayDone(k) \/ CloseSeen(k)
         PROVE  Recorded'
    BY <1>9, <1>11 DEF HelloDone, ReplayWrite, ReplayDone, CloseSeen, rows, history
  <1>12. ASSUME NEW k \in Calls, NEW outcome \in Outcomes, Finish(k, outcome) PROVE Recorded'
    BY <1>9, <1>12 DEF Finish, rows, memory, history
  <1>13. ASSUME NEW i \in DOMAIN acks, LoseAck(i) PROVE Recorded'
    BY <1>9, <1>13 DEF LoseAck, rows, memory, history
  <1>14. QED
    BY <1>2, <1>3, <1>4, <1>5, <1>6, <1>7, <1>8, <1>10, <1>11, <1>12, <1>13
       DEF Next, Backend, Agent

THEOREM RecordedInvariant ==
  Spec => [](Sound /\ Recorded)
  <1>1. Init => Sound /\ Recorded
    <2> SUFFICES ASSUME Init PROVE Sound /\ Recorded
      OBVIOUS
    <2> USE DEF Init
    <2>1. /\ wire \in Seq(Commands)
          /\ acks \in Seq([cmd : Commands, outcome : {"ACKED", "FAILED"}, call : Calls])
      BY EmptySeq
    <2>2. registered \in (0..dialled) \ noticed /\ dialled \in 0..MaxCalls
      BY CallsAssumption DEF None
    <2>3. busy \in [Calls -> Commands \cup {None}] /\ todo \in [Calls -> SUBSET Commands]
      OBVIOUS
    <2>4. Shape
      BY <2>1, <2>2, <2>3 DEF Shape
    <2>5. QED
      BY <2>4, CallsAssumption DEF Sound, Recorded, Calls
  <1>2. Sound /\ Recorded /\ [Next]_vars => (Sound /\ Recorded)'
    <2>1. ASSUME Sound, Recorded, UNCHANGED vars PROVE Sound' /\ Recorded'
      BY <2>1 DEF vars, Sound, Shape, Recorded
    <2>2. QED
      BY <2>1, SoundKept, RecordedKept
  <1>3. QED
    BY <1>1, <1>2, PTL DEF Spec

\* What the histories hold.
THEOREM HistoriesKept ==
  Spec => [](late \subseteq Commands /\ orderly \in BOOLEAN)
  <1> DEFINE Kept == late \subseteq Commands /\ orderly \in BOOLEAN
  <1>1. Init => Kept
    BY DEF Init
  <1>2. Sound /\ Kept /\ [Next]_vars => Kept'
    <2> SUFFICES ASSUME Sound, Kept, [Next]_vars PROVE Kept'
      OBVIOUS
    <2>1. late' \subseteq Commands
      <3>1. ASSUME NEW i \in DOMAIN acks, HandleAck(i) PROVE late' \subseteq Commands
        BY <3>1, Shapes DEF HandleAck, Sound
      <3>2. late' = late \/ \E i \in DOMAIN acks : HandleAck(i)
        BY DEF Next, Backend, Agent, Enqueue, WriteStored, MarkSent, HelloDone, ReplayRead,
           ReplayWrite, ReplayMark, ReplayDone, CloseSeen, LoseAck, Dial, Take, Finish, Drop,
           AgentStops, Restart, history, vars
      <3>3. QED
        BY <3>1, <3>2
    <2>2. orderly' \in BOOLEAN
      BY DEF Next, Backend, Agent, Enqueue, WriteStored, MarkSent, HelloDone, ReplayRead,
         ReplayWrite, ReplayMark, ReplayDone, CloseSeen, HandleAck, LoseAck, Dial, Take, Finish,
         Drop, AgentStops, Restart, MayRace, history, vars
    <2>3. QED
      BY <2>1, <2>2
  <1>3. QED
    BY <1>1, <1>2, RecordedInvariant, PTL DEF Spec

\* The shape of the state; in particular a call that the backend has seen to
\* close is never registered, so no command is ever handed to it.
THEOREM TypeCorrect == Spec => []TypeOK
  <1>1. Sound /\ late \subseteq Commands /\ orderly \in BOOLEAN => TypeOK
    BY DEF Sound, TypeOK
  <1>2. QED
    BY <1>1, RecordedInvariant, HistoriesKept, PTL

\* A row whose credentials were removed is never pending again, unless its ack
\* was recorded while a handler that had read it was still to write to it:
\* that overlap, and nothing else that may happen, brings one back.
THEOREM StrippedStays == Spec => []StrippedNeverReplayed
  <1>1. Recorded => StrippedNeverReplayed
    BY DEF Recorded, StrippedNeverReplayed, Unacked
  <1>2. QED
    BY <1>1, RecordedInvariant, PTL

-----------------------------------------------------------------------------
(***************************************************************************)
(* The order of the queue, while nothing overlaps (orderly).               *)
(*                                                                         *)
(* Acks, the command being carried out, the stream, what the replay has    *)
(* yet to write and what enqueueCommand has yet to write are one queue,    *)
(* oldest first (InOrder), with no command missing from it while a call is *)
(* open (NothingLost), so that rows are recorded in the order they were    *)
(* created (Prefix) and nothing recorded is still under way (Unsettled).   *)
(***************************************************************************)
\* Written to a call and not recorded yet.
InFlight(c) ==
  \/ \E i \in DOMAIN acks : acks[i].cmd = c
  \/ \E k \in Calls : busy[k] = c
  \/ \E j \in DOMAIN wire : wire[j] = c

\* What the replay of call k has yet to write.
Waiting(k) == IF k \in marking THEN todo[k] \ {First(todo[k])} ELSE todo[k]

Settled == {c \in Commands : row[c] \in {"ACKED", "FAILED"}}

\* Only the last call replays, nothing is in flight before it does, and
\* nothing is issued while it does.
OneReplay ==
  /\ \A k \in Calls : sync[k] \in {"registered", "replay"} => k = dialled
  /\ \A k \in Calls : sync[k] = "hello" => registered # k
  /\ open => sync[dialled] # "ended"
  /\ \A k \in Calls : sync[k] \in {"hello", "registered"} /\ k = dialled =>
       \A c \in Commands : ~InFlight(c)
  /\ Replaying => \A c \in Commands : enq[c] # "stored"
  /\ \A k \in Calls : busy[k] # None => k = dialled
  /\ \A i \in DOMAIN acks : acks[i].call = dialled

\* Acks, the command being carried out, the stream, and what is still to be
\* written to it: one queue, oldest first.
InOrder ==
  /\ \A i, j \in DOMAIN acks : i < j => acks[i].cmd < acks[j].cmd
  /\ \A i, j \in DOMAIN wire : i < j => wire[i] < wire[j]
  /\ \A i \in DOMAIN acks, k \in Calls : busy[k] # None => acks[i].cmd < busy[k]
  /\ \A i \in DOMAIN acks, j \in DOMAIN wire : acks[i].cmd < wire[j]
  /\ \A k \in Calls, j \in DOMAIN wire : busy[k] < wire[j]
  /\ \A b, c \in Commands : InFlight(b) /\ enq[c] = "stored" => b < c
  /\ \A b, c \in Commands, k \in Calls : InFlight(b) /\ c \in Waiting(k) => b < c

\* What is recorded is over: it is neither in flight nor about to be written
\* or marked SENT.
Unsettled ==
  /\ \A c \in Commands : InFlight(c) => c \in Unacked
  /\ \A k \in Calls : todo[k] \subseteq Unacked
  /\ \A c \in Commands : enq[c] \in {"stored", "mark"} => c \in Unacked
  /\ \A c \in stripped : row[c] \in {"ACKED", "FAILED"}

\* On an open call whose replay has begun, every command is in that queue.
NothingLost ==
  open /\ sync[dialled] \in {"replay", "synced"} =>
    \A c \in Unacked : enq[c] = "stored" \/ InFlight(c) \/ c \in Waiting(dialled)

\* Rows are created, and recorded, in order.
Prefix ==
  /\ \A b, c \in Commands : b < c /\ c \in Issued => b \in Issued
  /\ \A b, c \in Commands : b < c /\ c \in Settled => b \in Settled
  /\ \A i \in DOMAIN acks, b \in Commands :
       b < acks[i].cmd => b \in Settled \/ \E j \in DOMAIN acks : acks[j].cmd = b

\* The node did what the last command says, if that one is reported done.
ReportedDone(c) ==
  row[c] = "ACKED" \/ \E i \in DOMAIN acks : acks[i].cmd = c /\ acks[i].outcome = "ACKED"

Latest ==
  \A c \in Issued : c + 1 \notin Issued /\ ReportedDone(c) => node = kind[c]

Ordering == IInv /\ OneReplay /\ InOrder /\ Unsettled /\ NothingLost /\ Prefix

OInv == Ordering /\ Latest

-----------------------------------------------------------------------------
-----------------------------------------------------------------------------
LEMMA EnqueueOrdered ==
  ASSUME Ordering, NEW c \in Commands, NEW what \in Kinds, Enqueue(c, what),
         orderly'
  PROVE  OInv'
  <1>0. IInv'
    BY EnqueueSafe DEF Ordering
  <1>1. Shape
    BY DEF Ordering, IInv
  <1>2. /\ row[c] = "none" /\ c - 1 \in Issued \cup {0} /\ ~Replaying
        /\ row' = [row EXCEPT ![c] = "QUEUED"]
        /\ kind' = [kind EXCEPT ![c] = what]
        /\ enq' = [enq EXCEPT ![c] = "stored"]
        /\ UNCHANGED <<stripped, registered, sync, todo, marking, noticed, dialled, open,
                       busy, node, executed, wire, acks>>
    BY DEF Enqueue, memory, agent
  <1>3. \A b \in Commands : InFlight(b)' <=> InFlight(b)
    BY <1>2 DEF InFlight
  <1>4. Unacked' = Unacked \cup {c} /\ Settled' = Settled /\ Issued' = Issued \cup {c}
    BY <1>1, <1>2 DEF Shape, Unacked, Settled, Issued
  <1>5. c \notin Issued /\ Unacked \subseteq Issued
    BY <1>2 DEF Issued, Unacked
  <1>6. \A b \in Issued : b < c
    <2> SUFFICES ASSUME NEW b \in Issued PROVE b < c
      OBVIOUS
    <2>1. b \in Nat /\ c \in Nat /\ b \in Commands
      BY Shapes, <1>1 DEF Issued
    <2>2. ~(c < b)
      BY <1>5, <2>1 DEF Ordering, Prefix
    <2>3. b # c
      BY <1>5
    <2>4. QED
      BY <2>1, <2>2, <2>3
  <1>7. \A k \in Calls : Waiting(k)' = Waiting(k)
    BY <1>2 DEF Waiting
  <1>8. OneReplay'
    BY <1>2, <1>3 DEF Ordering, OneReplay, Replaying
  <1>9. InOrder'
    <2>1. \A b \in Commands : InFlight(b) => b < c
      BY <1>5, <1>6 DEF Ordering, Unsettled
    <2>2. \A b, d \in Commands : InFlight(b) /\ enq'[d] = "stored" => b < d
      BY <1>1, <1>2, <2>1 DEF Ordering, InOrder, Shape
    <2>3. QED
      BY <1>2, <1>3, <1>7, <2>2 DEF Ordering, InOrder
  <1>10. Unsettled'
    BY <1>1, <1>2, <1>3, <1>4 DEF Ordering, Unsettled, Shape
  <1>11. NothingLost'
    <2>1. enq'[c] = "stored" /\ \A b \in Commands : b # c => enq'[b] = enq[b]
      BY <1>1, <1>2 DEF Shape
    <2>2. open => dialled \in Calls
      BY <1>1, Shapes
    <2>3. Unacked \subseteq Commands
      BY DEF Unacked
    <2>4. QED
      BY <1>2, <1>3, <1>4, <1>7, <2>1, <2>2, <2>3 DEF Ordering, NothingLost
  <1>12. Prefix'
    <2>1. \A b \in Commands : b < c => b \in Issued
      <3> SUFFICES ASSUME NEW b \in Commands, b < c PROVE b \in Issued
        OBVIOUS
      <3>1. b \in Nat /\ b > 0 /\ c \in Nat
        BY <1>1, Shapes
      <3>2. c - 1 \in Issued /\ c - 1 \in Commands /\ (b = c - 1 \/ b < c - 1)
        BY <1>2, <3>1 DEF Issued
      <3>3. QED
        BY <3>2 DEF Ordering, Prefix
    <2>2. QED
      BY <2>1, <1>2, <1>4 DEF Ordering, Prefix
  <1>13. Latest'
    <2> SUFFICES ASSUME NEW d \in Issued', d + 1 \notin Issued', ReportedDone(d)'
                 PROVE  node' = kind'[d]
      BY DEF Latest
    <2>1. d # c
      <3> SUFFICES ASSUME d = c PROVE FALSE
        OBVIOUS
      <3>1. row'[c] = "QUEUED"
        BY <1>1, <1>2 DEF Shape
      <3>2. ~InFlight(c)
        BY <1>5 DEF Ordering, Unsettled
      <3>3. QED
        BY <3>1, <3>2, <1>2 DEF ReportedDone, InFlight
    <2>2. d \in Issued /\ d < c /\ d \in Nat /\ c \in Nat /\ c \in Commands
      BY <1>1, <1>4, <1>6, <2>1, Shapes DEF Issued
    <2>3. d + 1 = c \/ (d + 1 < c /\ d + 1 \in Commands)
      BY <2>2, CommandsAssumption DEF Commands
    <2>4. d + 1 \in Issued'
      BY <1>4, <1>12, <2>3 DEF Prefix, Issued
    <2>5. QED
      BY <2>4
  <1>14. QED
    BY <1>0, <1>8, <1>9, <1>10, <1>11, <1>12, <1>13 DEF OInv, Ordering

LEMMA WriteStoredOrdered ==
  ASSUME OInv, NEW c \in Commands, WriteStored(c), orderly'
  PROVE  OInv'
  <1>0. IInv'
    BY WriteStoredSafe DEF OInv, Ordering
  <1>1. Shape
    BY DEF OInv, Ordering, IInv
  <1>2. /\ enq[c] = "stored" /\ \A b \in 1..c - 1 : enq[b] # "stored"
        /\ wire' = IF Reaches THEN Append(wire, c) ELSE wire
        /\ enq' = [enq EXCEPT ![c] = IF registered # None THEN "mark" ELSE "over"]
        /\ UNCHANGED <<row, kind, stripped, registered, sync, todo, marking, noticed, dialled,
                       open, busy, node, executed, acks>>
    BY DEF WriteStored, MayRace, Write, rows, memory, agent
  <1>3. Unacked' = Unacked /\ Settled' = Settled /\ Issued' = Issued
    BY <1>2 DEF Unacked, Settled, Issued
  <1>4. ~Replaying /\ \A k \in Calls : Waiting(k) = {} /\ Waiting(k)' = {}
    <2>1. ~Replaying
      BY <1>2 DEF OInv, Ordering, OneReplay
    <2>2. \A k \in Calls : todo[k] = {}
      BY <2>1 DEF OInv, Ordering, IInv, ReplayInv, Replaying
    <2>3. QED
      BY <2>1, <2>2, <1>2 DEF Waiting
  <1>5. \A b \in Commands : InFlight(b) => b < c
    BY <1>2 DEF OInv, Ordering, InOrder
  <1>6. \A b \in Commands : enq'[b] = "stored" => enq[b] = "stored" /\ c < b
    <2> SUFFICES ASSUME NEW b \in Commands, enq'[b] = "stored"
                 PROVE  enq[b] = "stored" /\ c < b
      OBVIOUS
    <2>1. b # c /\ enq[b] = "stored"
      BY <1>1, <1>2 DEF Shape
    <2>2. b \in Nat /\ b > 0 /\ c \in Nat /\ c > 0
      BY <1>1, Shapes
    <2>3. b \notin 1..c - 1
      BY <1>2, <2>1
    <2>4. QED
      BY <2>1, <2>2, <2>3
  <1>a. CASE ~Reaches
    <2>1. wire' = wire
      BY <1>a, <1>2
    <2>2. \A b \in Commands : InFlight(b)' <=> InFlight(b)
      BY <1>2, <2>1 DEF InFlight
    <2>3. OneReplay'
      BY <1>2, <1>6, <2>2 DEF OInv, Ordering, OneReplay, Replaying
    <2>4. InOrder'
      BY <1>2, <1>4, <1>6, <2>1, <2>2 DEF OInv, Ordering, InOrder
    <2>5. Unsettled'
      BY <1>1, <1>2, <1>3, <2>2 DEF OInv, Ordering, Unsettled, Shape
    <2>6. NothingLost'
      <3>1. ~(open /\ sync[dialled] \in {"replay", "synced"})
        BY <1>a DEF OInv, Ordering, IInv, LiveCallRegistered, Reaches
      <3>2. QED
        BY <3>1, <1>2 DEF NothingLost
    <2>7. Prefix' /\ Latest'
      BY <1>2, <1>3 DEF OInv, Ordering, Prefix, Latest, ReportedDone
    <2>8. QED
      BY <1>0, <2>3, <2>4, <2>5, <2>6, <2>7 DEF OInv, Ordering
  <1>b. CASE Reaches
    <2>0. wire \in Seq(Commands) /\ wire' = Append(wire, c)
      BY <1>b, <1>1, <1>2 DEF Shape
    <2>1. /\ DOMAIN wire = 1..Len(wire) /\ Len(wire) \in Nat
          /\ DOMAIN wire' = 1..Len(wire) + 1
          /\ \A j \in DOMAIN wire : wire'[j] = wire[j]
          /\ wire'[Len(wire) + 1] = c
      BY <2>0, AppendElements
    <2>2. \A b \in Commands : InFlight(b)' <=> InFlight(b) \/ b = c
      BY <1>2, <2>1 DEF InFlight
    <2>3. OneReplay'
      <3>1. \A k \in Calls : sync[k] \in {"hello", "registered"} => k # dialled
        BY <1>b, <1>4 DEF Replaying, Reaches, OInv, Ordering, OneReplay
      <3>2. QED
        BY <1>2, <1>4, <3>1 DEF OInv, Ordering, OneReplay, Replaying
    <2>4. InOrder'
      <3>0. \A j \in DOMAIN wire' : j \in DOMAIN wire \/ j = Len(wire) + 1
        BY <2>1
      <3>1. \A j \in DOMAIN wire : wire[j] \in Commands /\ wire[j] < c
        BY <1>1, <1>5, Shapes DEF InFlight
      <3>2. \A i \in DOMAIN acks : acks[i].cmd < c
        BY <1>1, <1>5, Shapes DEF InFlight
      <3>3. \A k \in Calls : busy[k] < c
        BY <1>1, <1>5, Shapes DEF InFlight, None
      <3>4. \A i, j \in DOMAIN wire' : i < j => wire'[i] < wire'[j]
        <4> SUFFICES ASSUME NEW i \in DOMAIN wire', NEW j \in DOMAIN wire', i < j
                     PROVE  wire'[i] < wire'[j]
          OBVIOUS
        <4>1. i \in DOMAIN wire
          BY <2>1
        <4>2. QED
          BY <4>1, <2>1, <3>0, <3>1 DEF OInv, Ordering, InOrder
      <3>5. \A i \in DOMAIN acks, j \in DOMAIN wire' : acks[i].cmd < wire'[j]
        BY <2>1, <3>0, <3>2 DEF OInv, Ordering, InOrder
      <3>6. \A k \in Calls, j \in DOMAIN wire' : busy[k] < wire'[j]
        BY <2>1, <3>0, <3>3 DEF OInv, Ordering, InOrder
      <3>7. \A b, d \in Commands : InFlight(b)' /\ enq'[d] = "stored" => b < d
        BY <1>6, <2>2 DEF OInv, Ordering, InOrder
      <3>8. QED
        BY <1>2, <1>4, <3>4, <3>5, <3>6, <3>7 DEF OInv, Ordering, InOrder
    <2>5. Unsettled'
      BY <1>1, <1>2, <1>3, <2>2 DEF OInv, Ordering, Unsettled, Shape
    <2>6. NothingLost'
      <3>1. \A b \in Commands : b # c => enq'[b] = enq[b]
        BY <1>1, <1>2 DEF Shape
      <3>2. open => dialled \in Calls
        BY <1>1, Shapes
      <3>3. Unacked \subseteq Commands
        BY DEF Unacked
      <3>4. QED
        BY <1>2, <1>3, <1>4, <2>2, <3>1, <3>2, <3>3 DEF OInv, Ordering, NothingLost
    <2>7. Prefix' /\ Latest'
      BY <1>2, <1>3 DEF OInv, Ordering, Prefix, Latest, ReportedDone
    <2>8. QED
      BY <1>0, <2>3, <2>4, <2>5, <2>6, <2>7 DEF OInv, Ordering
  <1>7. QED
    BY <1>a, <1>b

LEMMA MarkSentOrdered ==
  ASSUME OInv, NEW c \in Commands, MarkSent(c)
  PROVE  OInv'
  <1>0. IInv'
    BY MarkSentSafe DEF OInv, Ordering
  <1>1. Shape
    BY DEF OInv, Ordering, IInv
  <1>2. /\ row' = [row EXCEPT ![c] = "SENT"]
        /\ enq' = [enq EXCEPT ![c] = "over"] /\ enq[c] = "mark"
        /\ UNCHANGED <<kind, stripped, registered, sync, todo, marking, noticed, dialled, open,
                       busy, node, executed, wire, acks>>
    BY DEF MarkSent, memory, agent
  <1>3. c \in Unacked
    BY <1>2 DEF OInv, Ordering, Unsettled
  <1>4. Unacked' = Unacked /\ Settled' = Settled /\ Issued' = Issued
    BY <1>1, <1>2, <1>3 DEF Shape, Unacked, Settled, Issued
  <1>5. \A b \in Commands : InFlight(b)' <=> InFlight(b)
    BY <1>2 DEF InFlight
  <1>6. \A b \in Commands : (enq'[b] = "stored" <=> enq[b] = "stored")
                            /\ (enq'[b] = "mark" => enq[b] = "mark")
    BY <1>1, <1>2 DEF Shape
  <1>7. \A k \in Calls : Waiting(k)' = Waiting(k)
    BY <1>2 DEF Waiting
  <1>8. OneReplay'
    BY <1>2, <1>5, <1>6 DEF OInv, Ordering, OneReplay, Replaying
  <1>9. InOrder'
    BY <1>2, <1>5, <1>6, <1>7 DEF OInv, Ordering, InOrder
  <1>10. Unsettled'
    <2>1. \A b \in stripped : b # c
      BY <1>3 DEF OInv, Ordering, Unsettled, Unacked
    <2>2. \A b \in stripped : row'[b] = row[b]
      BY <1>1, <1>2, <2>1 DEF Shape
    <2>3. QED
      BY <1>2, <1>4, <1>5, <1>6, <2>2 DEF OInv, Ordering, Unsettled
  <1>11. NothingLost'
    <2>1. open => dialled \in Calls
      BY <1>1, CallsAssumption DEF Shape, Calls
    <2>2. QED
      BY <1>2, <1>4, <1>5, <1>6, <1>7, <2>1 DEF OInv, Ordering, NothingLost, Unacked
  <1>12. Prefix'
    BY <1>2, <1>4 DEF OInv, Ordering, Prefix
  <1>13. Latest'
    <2>1. \A b \in Issued : ReportedDone(b)' => ReportedDone(b)
      BY <1>1, <1>2 DEF ReportedDone, Shape, Issued
    <2>2. QED
      BY <1>2, <1>4, <2>1 DEF OInv, Ordering, Latest
  <1>14. QED
    BY <1>0, <1>8, <1>9, <1>10, <1>11, <1>12, <1>13 DEF OInv, Ordering

\* What a step leaves alone when it touches neither the queue nor the rows.
SameQueue ==
  /\ UNCHANGED <<row, kind, stripped, enq, open, dialled, wire, busy, acks, node>>

LEMMA SameQueueSame ==
  ASSUME SameQueue
  PROVE  /\ Unacked' = Unacked /\ Settled' = Settled /\ Issued' = Issued
         /\ \A c \in Commands : InFlight(c)' <=> InFlight(c)
         /\ Prefix' = Prefix /\ Latest' = Latest
  BY DEF SameQueue, Unacked, Settled, Issued, InFlight, Prefix, Latest, ReportedDone

LEMMA HelloDoneOrdered ==
  ASSUME OInv, NEW k \in Calls, HelloDone(k), orderly'
  PROVE  OInv'
  <1>0. IInv'
    BY HelloDoneSafe DEF OInv, Ordering
  <1>1. Shape
    BY DEF OInv, Ordering, IInv
  <1>2. /\ sync[k] = "hello" /\ \A c \in Commands : enq[c] # "stored"
        /\ \/ k \in noticed /\ sync' = [sync EXCEPT ![k] = "ended"] /\ registered' = registered
           \/ /\ k \notin noticed /\ registered' = k
              /\ sync' = [sync EXCEPT ![k] = "registered"]
        /\ SameQueue /\ UNCHANGED <<todo, marking, noticed>>
    BY DEF HelloDone, MayRace, SameQueue, rows, agent
  <1>3. /\ Unacked' = Unacked
        /\ \A c \in Commands : InFlight(c)' <=> InFlight(c)
        /\ Prefix' /\ Latest'
    BY <1>2, SameQueueSame DEF OInv, Ordering
  <1>4. \A j \in Calls : Waiting(j)' = Waiting(j)
    BY <1>2 DEF Waiting
  <1>5. /\ \A j \in Calls : j # k => sync'[j] = sync[j]
        /\ sync'[k] = "ended" \/ sync'[k] = "registered"
    BY <1>1, <1>2 DEF Shape
  <1>6. k \notin noticed => k = dialled
    BY <1>1, <1>2, Shapes DEF OInv, Ordering, IInv, HelloInv
  <1>7. OneReplay'
    <2>0. UNCHANGED <<open, dialled, busy, acks, enq>>
      BY <1>2 DEF SameQueue
    <2>1. \A j \in Calls : sync'[j] \in {"registered", "replay"} => j = dialled
      BY <1>1, <1>2, <1>5, <1>6 DEF OInv, Ordering, OneReplay, Shape
    <2>2. \A j \in Calls : sync'[j] = "hello" => registered' # j
      BY <1>2, <1>5 DEF OInv, Ordering, OneReplay
    <2>3. open => sync'[dialled] # "ended"
      <3>1. open => dialled \in Calls /\ dialled \notin noticed
        BY <1>1, Shapes DEF OInv, Ordering, IInv, HelloInv
      <3>2. sync'[k] = "ended" => k \in noticed
        BY <1>1, <1>2 DEF Shape
      <3>3. QED
        BY <1>5, <3>1, <3>2 DEF OInv, Ordering, OneReplay
    <2>4. \A j \in Calls : sync'[j] \in {"hello", "registered"} /\ j = dialled =>
            \A c \in Commands : ~InFlight(c)'
      BY <1>2, <1>3, <1>5 DEF OInv, Ordering, OneReplay
    <2>5. \A c \in Commands : enq'[c] # "stored"
      BY <1>2, <2>0
    <2>6. /\ \A j \in Calls : busy'[j] # None => j = dialled'
          /\ \A i \in DOMAIN acks' : acks'[i].call = dialled'
      BY <2>0 DEF OInv, Ordering, OneReplay
    <2>7. QED
      BY <2>0, <2>1, <2>2, <2>3, <2>4, <2>5, <2>6 DEF OneReplay
  <1>8. InOrder'
    BY <1>2, <1>3, <1>4 DEF OInv, Ordering, InOrder, SameQueue
  <1>9. Unsettled'
    BY <1>2, <1>3 DEF OInv, Ordering, Unsettled, SameQueue
  <1>10. NothingLost'
    <2>1. open => dialled \in Calls
      BY <1>1, Shapes
    <2>2. Unacked \subseteq Commands
      BY DEF Unacked
    <2>3. open /\ sync'[dialled] \in {"replay", "synced"} =>
            sync[dialled] \in {"replay", "synced"}
      BY <1>5, <2>1
    <2>4. QED
      BY <1>2, <1>3, <1>4, <2>1, <2>2, <2>3 DEF OInv, Ordering, NothingLost, SameQueue
  <1>11. QED
    BY <1>0, <1>3, <1>7, <1>8, <1>9, <1>10 DEF OInv, Ordering

LEMMA ReplayReadOrdered ==
  ASSUME OInv, NEW k \in Calls, ReplayRead(k)
  PROVE  OInv'
  <1>0. IInv'
    BY ReplayReadSafe DEF OInv, Ordering
  <1>1. Shape
    BY DEF OInv, Ordering, IInv
  <1>2. /\ sync[k] = "registered"
        /\ todo' = [todo EXCEPT ![k] = Unacked]
        /\ sync' = [sync EXCEPT ![k] = "replay"]
        /\ SameQueue /\ UNCHANGED <<registered, marking, noticed>>
    BY DEF ReplayRead, SameQueue, rows, agent, Pending
  <1>3. /\ Unacked' = Unacked
        /\ \A c \in Commands : InFlight(c)' <=> InFlight(c)
        /\ Prefix' /\ Latest'
    BY <1>2, SameQueueSame DEF OInv, Ordering
  <1>4. k = dialled /\ \A c \in Commands : ~InFlight(c)
    BY <1>2 DEF OInv, Ordering, OneReplay
  <1>5. k \notin marking /\ Waiting(k)' = Unacked
    <2>1. todo[k] = {} /\ k \notin marking
      BY <1>1, <1>2 DEF OInv, Ordering, IInv, ReplayInv, Shape
    <2>2. todo'[k] = Unacked /\ k \notin marking'
      BY <1>1, <1>2, <2>1 DEF Shape
    <2>3. QED
      BY <2>1, <2>2 DEF Waiting
  <1>6. \A j \in Calls : j # k => sync'[j] = sync[j]
    BY <1>2
  <1>7. OneReplay'
    <2>0. UNCHANGED <<open, dialled, busy, acks, enq, registered>> /\ sync'[k] = "replay"
      BY <1>1, <1>2 DEF SameQueue, Shape
    <2>1. Replaying
      BY <1>2 DEF Replaying
    <2>2. QED
      BY <1>4, <1>3, <1>6, <2>0, <2>1 DEF OInv, Ordering, OneReplay
  <1>8. InOrder'
    BY <1>2, <1>3, <1>4 DEF OInv, Ordering, InOrder, SameQueue
  <1>9. Unsettled'
    BY <1>1, <1>2, <1>3 DEF OInv, Ordering, Unsettled, SameQueue, Shape
  <1>10. NothingLost'
    BY <1>2, <1>3, <1>4, <1>5 DEF NothingLost, SameQueue
  <1>11. QED
    BY <1>0, <1>3, <1>7, <1>8, <1>9, <1>10 DEF OInv, Ordering

LEMMA ReplayWriteOrdered ==
  ASSUME OInv, NEW k \in Calls, ReplayWrite(k)
  PROVE  OInv'
  <1>0. IInv'
    BY ReplayWriteSafe DEF OInv, Ordering
  <1>1. Shape
    BY DEF OInv, Ordering, IInv
  <1> DEFINE c == First(todo[k])
  <1>2. /\ sync[k] = "replay" /\ k \notin marking /\ todo[k] # {}
        /\ wire' = IF Reaches THEN Append(wire, c) ELSE wire
        /\ marking' = marking \cup {k}
        /\ UNCHANGED <<row, kind, stripped, enq, registered, sync, todo, noticed, dialled,
                       open, busy, node, executed, acks>>
    BY DEF ReplayWrite, Write, rows, agent
  <1>3. c \in todo[k] /\ c \in Commands /\ todo[k] \subseteq Commands /\ c \in Unacked
        /\ \A b \in todo[k] : c <= b
    <2>1. todo[k] \in SUBSET Commands /\ todo[k] \subseteq Unacked
      BY <1>1 DEF Shape, OInv, Ordering, Unsettled
    <2>2. QED
      BY <1>2, <2>1, FirstIsLeast
  <1>4. /\ Waiting(k) = todo[k] /\ Waiting(k)' = todo[k] \ {c}
        /\ \A j \in Calls : j # k => Waiting(j)' = Waiting(j)
    BY <1>2 DEF Waiting
  <1> HIDE DEF c
  <1>5. k = dialled /\ \A b \in Commands : enq[b] # "stored"
    BY <1>2 DEF OInv, Ordering, OneReplay, Replaying
  <1>6. Unacked' = Unacked /\ Settled' = Settled /\ Issued' = Issued
    BY <1>2 DEF Unacked, Settled, Issued
  <1>7. Prefix' /\ Latest'
    BY <1>2, <1>6 DEF OInv, Ordering, Prefix, Latest, ReportedDone
  <1>8. \A b \in Commands : InFlight(b) => b < c
    BY <1>3, <1>4 DEF OInv, Ordering, InOrder
  <1>9. \A j \in Calls : j # k => Waiting(j)' = {}
    <2>1. \A j \in Calls : j # k => todo[j] = {}
      BY <1>5 DEF OInv, Ordering, OneReplay, IInv, ReplayInv
    <2>2. QED
      BY <1>4, <2>1 DEF Waiting
  <1>10. \A j \in Calls, d \in Commands : d \in Waiting(j)' => d \in todo[k] /\ c < d
    BY <1>1, <1>3, <1>4, <1>9, Shapes
  <1>a. CASE ~Reaches
    <2>1. wire' = wire
      BY <1>a, <1>2
    <2>2. \A b \in Commands : InFlight(b)' <=> InFlight(b)
      BY <1>2, <2>1 DEF InFlight
    <2>3. OneReplay'
      BY <1>2, <2>2 DEF OInv, Ordering, OneReplay, Replaying
    <2>4. InOrder'
      BY <1>2, <1>4, <1>10, <2>1, <2>2 DEF OInv, Ordering, InOrder
    <2>5. Unsettled'
      BY <1>2, <1>6, <2>2 DEF OInv, Ordering, Unsettled
    <2>6. NothingLost'
      <3>1. ~(open /\ sync[dialled] \in {"replay", "synced"})
        BY <1>a DEF OInv, Ordering, IInv, LiveCallRegistered, Reaches
      <3>2. QED
        BY <3>1, <1>2 DEF NothingLost
    <2>7. QED
      BY <1>0, <1>7, <2>3, <2>4, <2>5, <2>6 DEF OInv, Ordering
  <1>b. CASE Reaches
    <2>0. wire \in Seq(Commands) /\ wire' = Append(wire, c)
      BY <1>b, <1>1, <1>2 DEF Shape
    <2>1. /\ DOMAIN wire = 1..Len(wire) /\ Len(wire) \in Nat
          /\ DOMAIN wire' = 1..Len(wire) + 1
          /\ \A j \in DOMAIN wire : wire'[j] = wire[j]
          /\ wire'[Len(wire) + 1] = c
      BY <1>3, <2>0, AppendElements
    <2>2. \A b \in Commands : InFlight(b)' <=> InFlight(b) \/ b = c
      BY <1>2, <2>1 DEF InFlight
    <2>3. OneReplay'
      BY <1>2, <1>5, <2>2 DEF OInv, Ordering, OneReplay, Replaying
    <2>4. InOrder'
      <3>0. \A j \in DOMAIN wire' : j \in DOMAIN wire \/ j = Len(wire) + 1
        BY <2>1
      <3>1. \A j \in DOMAIN wire : wire[j] \in Commands /\ wire[j] < c
        BY <1>1, <1>8, Shapes DEF InFlight
      <3>2. \A i \in DOMAIN acks : acks[i].cmd < c
        BY <1>1, <1>8, Shapes DEF InFlight
      <3>3. \A j \in Calls : busy[j] < c
        BY <1>1, <1>3, <1>8, Shapes DEF InFlight, None
      <3>4. \A i, j \in DOMAIN wire' : i < j => wire'[i] < wire'[j]
        <4> SUFFICES ASSUME NEW i \in DOMAIN wire', NEW j \in DOMAIN wire', i < j
                     PROVE  wire'[i] < wire'[j]
          OBVIOUS
        <4>1. i \in DOMAIN wire
          BY <2>1
        <4>2. QED
          BY <4>1, <2>1, <3>0, <3>1 DEF OInv, Ordering, InOrder
      <3>5. \A i \in DOMAIN acks, j \in DOMAIN wire' : acks[i].cmd < wire'[j]
        BY <2>1, <3>0, <3>2 DEF OInv, Ordering, InOrder
      <3>6. \A h \in Calls, j \in DOMAIN wire' : busy[h] < wire'[j]
        BY <2>1, <3>0, <3>3 DEF OInv, Ordering, InOrder
      <3>7. \A b, d \in Commands, j \in Calls : InFlight(b)' /\ d \in Waiting(j)' => b < d
        BY <1>4, <1>9, <1>10, <2>2 DEF OInv, Ordering, InOrder
      <3>8. QED
        BY <1>2, <1>5, <3>4, <3>5, <3>6, <3>7 DEF OInv, Ordering, InOrder
    <2>5. Unsettled'
      BY <1>2, <1>3, <1>6, <2>2 DEF OInv, Ordering, Unsettled
    <2>6. NothingLost'
      <3>1. Unacked \subseteq Commands
        BY DEF Unacked
      <3>2. QED
        BY <1>2, <1>4, <1>5, <1>6, <2>2, <3>1 DEF OInv, Ordering, NothingLost
    <2>7. QED
      BY <1>0, <1>7, <2>3, <2>4, <2>5, <2>6 DEF OInv, Ordering
  <1>11. QED
    BY <1>a, <1>b

LEMMA ReplayMarkOrdered ==
  ASSUME OInv, NEW k \in Calls, ReplayMark(k)
  PROVE  OInv'
  <1>0. IInv'
    BY ReplayMarkSafe DEF OInv, Ordering
  <1>1. Shape
    BY DEF OInv, Ordering, IInv
  <1> DEFINE c == First(todo[k])
  <1>2. /\ k \in marking
        /\ row' = [row EXCEPT ![c] = "SENT"]
        /\ todo' = [todo EXCEPT ![k] = todo[k] \ {c}]
        /\ marking' = marking \ {k}
        /\ UNCHANGED <<kind, stripped, enq, registered, sync, noticed, dialled, open,
                       busy, node, executed, wire, acks>>
    BY DEF ReplayMark, agent
  <1>3. c \in todo[k] /\ c \in Commands /\ c \in Unacked
    <2>1. todo[k] \in SUBSET Commands /\ todo[k] \subseteq Unacked /\ todo[k] # {}
      BY <1>1, <1>2 DEF Shape, OInv, Ordering, Unsettled
    <2>2. QED
      BY <2>1, FirstIsLeast
  <1>4. \A j \in Calls : Waiting(j)' = Waiting(j)
    <2>1. todo'[k] = todo[k] \ {c} /\ \A j \in Calls : j # k => todo'[j] = todo[j]
      BY <1>1, <1>2 DEF Shape
    <2>2. QED
      BY <1>2, <2>1 DEF Waiting
  <1>5. \A j \in Calls : todo'[j] \subseteq todo[j]
    BY <1>1, <1>2 DEF Shape
  <1> HIDE DEF c
  <1>6. Unacked' = Unacked /\ Settled' = Settled /\ Issued' = Issued
    BY <1>1, <1>2, <1>3 DEF Shape, Unacked, Settled, Issued
  <1>7. \A b \in Commands : InFlight(b)' <=> InFlight(b)
    BY <1>2 DEF InFlight
  <1>8. OneReplay'
    BY <1>2, <1>7 DEF OInv, Ordering, OneReplay, Replaying
  <1>9. InOrder'
    BY <1>2, <1>4, <1>7 DEF OInv, Ordering, InOrder
  <1>10. Unsettled'
    <2>1. \A b \in stripped : b # c
      BY <1>3 DEF OInv, Ordering, Unsettled, Unacked
    <2>2. \A b \in stripped : row'[b] = row[b]
      BY <1>1, <1>2, <2>1 DEF Shape
    <2>3. QED
      BY <1>2, <1>5, <1>6, <1>7, <2>2 DEF OInv, Ordering, Unsettled
  <1>11. NothingLost'
    <2>1. open => dialled \in Calls
      BY <1>1, Shapes
    <2>2. Unacked \subseteq Commands
      BY DEF Unacked
    <2>3. QED
      BY <1>2, <1>4, <1>6, <1>7, <2>1, <2>2 DEF OInv, Ordering, NothingLost
  <1>12. Prefix'
    BY <1>2, <1>6 DEF OInv, Ordering, Prefix
  <1>13. Latest'
    <2>1. \A b \in Issued : ReportedDone(b)' => ReportedDone(b)
      BY <1>1, <1>2 DEF ReportedDone, Shape, Issued
    <2>2. QED
      BY <1>2, <1>6, <2>1 DEF OInv, Ordering, Latest
  <1>14. QED
    BY <1>0, <1>8, <1>9, <1>10, <1>11, <1>12, <1>13 DEF OInv, Ordering

LEMMA ReplayDoneOrdered ==
  ASSUME OInv, NEW k \in Calls, ReplayDone(k)
  PROVE  OInv'
  <1>0. IInv'
    BY ReplayDoneSafe DEF OInv, Ordering
  <1>1. Shape
    BY DEF OInv, Ordering, IInv
  <1>2. /\ sync[k] = "replay"
        /\ sync' = [sync EXCEPT ![k] = "synced"]
        /\ SameQueue /\ UNCHANGED <<registered, todo, marking, noticed>>
    BY DEF ReplayDone, SameQueue, rows, agent
  <1>3. /\ Unacked' = Unacked
        /\ \A c \in Commands : InFlight(c)' <=> InFlight(c)
        /\ Prefix' /\ Latest'
    BY <1>2, SameQueueSame DEF OInv, Ordering
  <1>4. \A j \in Calls : Waiting(j)' = Waiting(j)
    BY <1>2 DEF Waiting
  <1>5. sync'[k] = "synced" /\ \A j \in Calls : j # k => sync'[j] = sync[j]
    BY <1>1, <1>2 DEF Shape
  <1>6. OneReplay'
    <2>0. UNCHANGED <<open, dialled, busy, acks, enq, registered>>
      BY <1>2 DEF SameQueue
    <2>1. Replaying' => Replaying
      BY <1>5 DEF Replaying
    <2>2. open => dialled \in Calls
      BY <1>1, Shapes
    <2>3. QED
      BY <1>3, <1>5, <2>0, <2>1, <2>2 DEF OInv, Ordering, OneReplay
  <1>7. InOrder'
    BY <1>2, <1>3, <1>4 DEF OInv, Ordering, InOrder, SameQueue
  <1>8. Unsettled'
    BY <1>2, <1>3 DEF OInv, Ordering, Unsettled, SameQueue
  <1>9. NothingLost'
    <2>1. open => dialled \in Calls
      BY <1>1, Shapes
    <2>2. Unacked \subseteq Commands
      BY DEF Unacked
    <2>3. open /\ sync'[dialled] \in {"replay", "synced"} =>
            sync[dialled] \in {"replay", "synced"}
      BY <1>2, <1>5, <2>1
    <2>4. QED
      BY <1>2, <1>3, <1>4, <2>1, <2>2, <2>3 DEF OInv, Ordering, NothingLost, SameQueue
  <1>10. QED
    BY <1>0, <1>3, <1>6, <1>7, <1>8, <1>9 DEF OInv, Ordering

LEMMA CloseSeenOrdered ==
  ASSUME OInv, NEW k \in Calls, CloseSeen(k)
  PROVE  OInv'
  <1>0. IInv'
    BY CloseSeenSafe DEF OInv, Ordering
  <1>1. Shape
    BY DEF OInv, Ordering, IInv
  <1>2. /\ registered' \in {registered, None}
        /\ SameQueue /\ UNCHANGED <<sync, todo, marking>>
    BY DEF CloseSeen, Unregister, SameQueue, rows, agent
  <1>3. /\ Unacked' = Unacked
        /\ \A c \in Commands : InFlight(c)' <=> InFlight(c)
        /\ Prefix' /\ Latest'
    BY <1>2, SameQueueSame DEF OInv, Ordering
  <1>4. \A j \in Calls : Waiting(j)' = Waiting(j)
    BY <1>2 DEF Waiting
  <1>5. OneReplay'
    <2>0. UNCHANGED <<open, dialled, busy, acks, enq, sync>>
      BY <1>2 DEF SameQueue
    <2>1. \A j \in Calls : sync[j] = "hello" => registered' # j
      BY <1>1, <1>2, Shapes DEF OInv, Ordering, OneReplay, None
    <2>2. Replaying' = Replaying
      BY <2>0 DEF Replaying
    <2>3. QED
      BY <1>3, <2>0, <2>1, <2>2 DEF OInv, Ordering, OneReplay
  <1>6. InOrder'
    BY <1>2, <1>3, <1>4 DEF OInv, Ordering, InOrder, SameQueue
  <1>7. Unsettled'
    BY <1>2, <1>3 DEF OInv, Ordering, Unsettled, SameQueue
  <1>8. NothingLost'
    <2>1. open => dialled \in Calls
      BY <1>1, Shapes
    <2>2. Unacked \subseteq Commands
      BY DEF Unacked
    <2>3. QED
      BY <1>2, <1>3, <1>4, <2>1, <2>2 DEF OInv, Ordering, NothingLost, SameQueue
  <1>9. QED
    BY <1>0, <1>3, <1>5, <1>6, <1>7, <1>8 DEF OInv, Ordering

LEMMA HandleAckOrdered ==
  ASSUME OInv, NEW i \in DOMAIN acks, HandleAck(i), orderly'
  PROVE  OInv'
  <1>0. IInv'
    BY HandleAckSafe DEF OInv, Ordering
  <1>1. Shape
    BY DEF OInv, Ordering, IInv
  <1> DEFINE Ack == [cmd : Commands, outcome : {"ACKED", "FAILED"}, call : Calls]
             c == acks[1].cmd
             outcome == acks[1].outcome
  <1>2. /\ i = 1 /\ 1 \in DOMAIN acks /\ ~MarkPending(c)
        /\ row' = [row EXCEPT ![c] = outcome]
        /\ stripped' = stripped \cup {c}
        /\ acks' = RemoveAt(acks, 1)
        /\ UNCHANGED <<kind, enq, registered, sync, todo, marking, noticed, dialled, open,
                       busy, node, executed, wire>>
    BY DEF HandleAck, MayRace, memory, agent
  <1>3. c \in Commands /\ outcome \in {"ACKED", "FAILED"}
    <2>1. acks \in Seq(Ack)
      BY <1>1 DEF Shape
    <2>2. acks[1] \in Ack
      <3> HIDE DEF Ack
      <3>1. QED
        BY <1>2, <2>1
    <2>3. QED
      BY <2>2
  <1>4. /\ Len(acks) \in Nat /\ DOMAIN acks = 1..Len(acks)
        /\ DOMAIN acks' = 1..Len(acks) - 1
        /\ \A j \in 1..Len(acks) - 1 : acks'[j] = acks[j + 1]
    <2>1. acks \in Seq(Ack)
      BY <1>1 DEF Shape
    <2>2. /\ Len(acks) \in Nat /\ DOMAIN acks = 1..Len(acks)
          /\ DOMAIN RemoveAt(acks, 1) = 1..Len(acks) - 1
          /\ \A j \in 1..Len(acks) - 1 :
               RemoveAt(acks, 1)[j] = IF j < 1 THEN acks[j] ELSE acks[j + 1]
      <3> HIDE DEF Ack
      <3>1. QED
        BY <1>2, <2>1, RemoveAtElements
    <2>3. QED
      BY <1>2, <2>2
  <1>5. /\ \A j \in DOMAIN acks' : j \in Nat /\ j + 1 \in DOMAIN acks /\ acks'[j] = acks[j + 1]
        /\ \A j \in DOMAIN acks : j = 1 \/ (j - 1 \in DOMAIN acks' /\ acks'[j - 1] = acks[j])
    BY <1>4
  <1> HIDE DEF c, outcome
  <1>6. \A j \in DOMAIN acks : j # 1 => c < acks[j].cmd
    BY <1>2, <1>4 DEF OInv, Ordering, InOrder, c
  <1>7. /\ InFlight(c) /\ c \in Unacked
        /\ \A k \in Calls : busy[k] # c
        /\ \A j \in DOMAIN wire : wire[j] # c
    <2>1. InFlight(c) /\ c \in Unacked
      BY <1>2, <1>3 DEF OInv, Ordering, Unsettled, InFlight, c
    <2>2. \A k \in Calls : busy[k] # None => c < busy[k]
      BY <1>2 DEF OInv, Ordering, InOrder, c
    <2>3. \A j \in DOMAIN wire : c < wire[j]
      BY <1>2 DEF OInv, Ordering, InOrder, c
    <2>4. QED
      BY <1>1, <1>3, <2>1, <2>2, <2>3, Shapes DEF None
  <1>8. \A b \in Commands : InFlight(b)' <=> InFlight(b) /\ b # c
    <2> SUFFICES ASSUME NEW b \in Commands PROVE InFlight(b)' <=> InFlight(b) /\ b # c
      OBVIOUS
    <2>1. (\E j \in DOMAIN acks' : acks'[j].cmd = b) <=>
            b # c /\ \E j \in DOMAIN acks : acks[j].cmd = b
      <3>1. ASSUME NEW j \in DOMAIN acks', acks'[j].cmd = b
            PROVE  b # c /\ \E h \in DOMAIN acks : acks[h].cmd = b
        <4>1. j + 1 \in DOMAIN acks /\ acks[j + 1].cmd = b /\ j + 1 # 1
          BY <1>4, <3>1
        <4>2. c < b
          BY <1>6, <4>1
        <4>3. QED
          BY <1>1, <1>3, <4>1, <4>2, Shapes
      <3>2. ASSUME NEW j \in DOMAIN acks, acks[j].cmd = b, b # c
            PROVE  \E h \in DOMAIN acks' : acks'[h].cmd = b
        BY <1>5, <3>2 DEF c
      <3>3. QED
        BY <3>1, <3>2
    <2>2. QED
      BY <1>2, <1>7, <2>1 DEF InFlight
  <1>9. /\ \A b \in Commands : b # c => row'[b] = row[b]
        /\ row'[c] = outcome
    BY <1>1, <1>2, <1>3 DEF Shape
  <1>10. /\ Unacked' = Unacked \ {c} /\ Settled' = Settled \cup {c} /\ Issued' = Issued
    BY <1>3, <1>7, <1>9 DEF Unacked, Settled, Issued
  <1>11. \A k \in Calls : Waiting(k)' = Waiting(k)
    BY <1>2 DEF Waiting
  <1>12. OneReplay'
    <2>1. \A j \in DOMAIN acks' : acks'[j].call = dialled
      BY <1>5 DEF OInv, Ordering, OneReplay
    <2>2. Replaying' = Replaying
      BY <1>2 DEF Replaying
    <2>3. QED
      BY <1>2, <1>8, <2>1, <2>2 DEF OInv, Ordering, OneReplay
  <1>13. InOrder'
    <2>1. \A h, j \in DOMAIN acks' : h < j => acks'[h].cmd < acks'[j].cmd
      <3> SUFFICES ASSUME NEW h \in DOMAIN acks', NEW j \in DOMAIN acks', h < j
                   PROVE  acks'[h].cmd < acks'[j].cmd
        OBVIOUS
      <3>1. h + 1 \in DOMAIN acks /\ j + 1 \in DOMAIN acks /\ h + 1 < j + 1
        BY <1>5
      <3>2. QED
        BY <1>5, <3>1 DEF OInv, Ordering, InOrder
    <2>2. \A j \in DOMAIN acks' : \E h \in DOMAIN acks : acks'[j] = acks[h]
      BY <1>5
    <2>3. QED
      BY <1>2, <1>8, <1>11, <2>1, <2>2 DEF OInv, Ordering, InOrder
  <1>14. Unsettled'
    <2>1. enq[c] # "stored"
      BY <1>1, <1>3, <1>7, Shapes DEF OInv, Ordering, InOrder
    <2>2. enq[c] # "mark"
      BY <1>2 DEF MarkPending
    <2>3. \A k \in Calls : c \notin todo[k]
      <3> SUFFICES ASSUME NEW k \in Calls, c \in todo[k] PROVE FALSE
        OBVIOUS
      <3>1. c \notin Waiting(k)
        BY <1>1, <1>3, <1>7, Shapes DEF OInv, Ordering, InOrder
      <3>2. k \in marking /\ c = First(todo[k])
        BY <3>1 DEF Waiting
      <3>3. QED
        BY <1>2, <3>2 DEF MarkPending
    <2>4. \A b \in stripped' : row'[b] \in {"ACKED", "FAILED"}
      BY <1>1, <1>2, <1>3, <1>9 DEF OInv, Ordering, Unsettled, Shape
    <2>5. QED
      BY <1>2, <1>8, <1>10, <2>1, <2>2, <2>3, <2>4 DEF OInv, Ordering, Unsettled
  <1>15. NothingLost'
    <2>1. Unacked \subseteq Commands
      BY DEF Unacked
    <2>2. open => dialled \in Calls
      BY <1>1, Shapes
    <2>3. QED
      BY <1>2, <1>8, <1>10, <1>11, <2>1, <2>2 DEF OInv, Ordering, NothingLost
  <1>16. Prefix'
    <2>1. \A b \in Commands : b < c => b \in Settled
      <3> SUFFICES ASSUME NEW b \in Commands, b < c, b \notin Settled PROVE FALSE
        OBVIOUS
      <3>1. PICK j \in DOMAIN acks : acks[j].cmd = b
        BY <1>2 DEF OInv, Ordering, Prefix, c
      <3>2. j = 1 \/ c < b
        BY <1>6, <3>1
      <3>3. QED
        BY <1>1, <1>3, <3>1, <3>2, Shapes DEF c
    <2>2. \A j \in DOMAIN acks', b \in Commands : b < acks'[j].cmd =>
            b \in Settled' \/ \E h \in DOMAIN acks' : acks'[h].cmd = b
      <3> SUFFICES ASSUME NEW j \in DOMAIN acks', NEW b \in Commands, b < acks'[j].cmd,
                          b \notin Settled'
                   PROVE  \E h \in DOMAIN acks' : acks'[h].cmd = b
        OBVIOUS
      <3>1. b < acks[j + 1].cmd /\ j + 1 \in DOMAIN acks /\ b \notin Settled /\ b # c
        BY <1>5, <1>10
      <3>2. PICK h \in DOMAIN acks : acks[h].cmd = b
        BY <3>1 DEF OInv, Ordering, Prefix
      <3>3. h # 1
        BY <3>1, <3>2 DEF c
      <3>4. QED
        BY <1>5, <3>2, <3>3
    <2>3. \A b, d \in Commands : b < d /\ d \in Settled' => b \in Settled'
      BY <1>10, <2>1 DEF OInv, Ordering, Prefix
    <2>4. QED
      BY <1>10, <2>2, <2>3 DEF OInv, Ordering, Prefix
  <1>17. Latest'
    <2>1. \A b \in Issued : ReportedDone(b)' => ReportedDone(b)
      <3> SUFFICES ASSUME NEW b \in Issued, ReportedDone(b)' PROVE ReportedDone(b)
        OBVIOUS
      <3>1. CASE row'[b] = "ACKED"
        <4>1. b = c => acks[1].cmd = b /\ acks[1].outcome = "ACKED"
          BY <3>1, <1>9 DEF c, outcome
        <4>2. b # c => row[b] = "ACKED"
          BY <3>1, <1>9 DEF Issued
        <4>3. QED
          BY <1>2, <4>1, <4>2 DEF ReportedDone
      <3>2. CASE \E j \in DOMAIN acks' : acks'[j].cmd = b /\ acks'[j].outcome = "ACKED"
        BY <1>5, <3>2 DEF ReportedDone
      <3>3. QED
        BY <3>1, <3>2 DEF ReportedDone
    <2>2. QED
      BY <1>2, <1>10, <2>1 DEF OInv, Ordering, Latest
  <1>18. QED
    BY <1>0, <1>12, <1>13, <1>14, <1>15, <1>16, <1>17 DEF OInv, Ordering

LEMMA LoseAckOrdered ==
  ASSUME OInv, NEW i \in DOMAIN acks, LoseAck(i)
  PROVE  OInv'
  <1>0. IInv'
    BY LoseAckSafe DEF OInv, Ordering
  <1>1. Shape
    BY DEF OInv, Ordering, IInv
  <1> DEFINE Ack == [cmd : Commands, outcome : {"ACKED", "FAILED"}, call : Calls]
  <1>2. /\ ~open /\ \A j \in i + 1..Len(acks) : acks[j].call # acks[i].call
        /\ acks' = RemoveAt(acks, i)
        /\ UNCHANGED <<row, kind, stripped, enq, registered, sync, todo, marking, noticed,
                       dialled, open, busy, node, executed, wire>>
    BY DEF LoseAck, rows, memory, agent, OInv, Ordering, OneReplay
  <1>3. /\ i \in 1..Len(acks) /\ Len(acks) \in Nat /\ DOMAIN acks = 1..Len(acks)
        /\ DOMAIN acks' = 1..Len(acks) - 1
        /\ \A j \in 1..Len(acks) - 1 : acks'[j] = IF j < i THEN acks[j] ELSE acks[j + 1]
    <2>1. acks \in Seq(Ack)
      BY <1>1 DEF Shape
    <2>2. QED
      <3> HIDE DEF Ack
      <3>1. QED
        BY <1>2, <2>1, RemoveAtElements
  <1>4. i = Len(acks)
    <2> SUFFICES ASSUME i # Len(acks) PROVE FALSE
      OBVIOUS
    <2>1. Len(acks) \in i + 1..Len(acks) /\ Len(acks) \in DOMAIN acks
      BY <1>3
    <2>2. QED
      BY <1>2, <2>1 DEF OInv, Ordering, OneReplay
  <1>5. /\ \A j \in DOMAIN acks' : j \in DOMAIN acks /\ acks'[j] = acks[j]
        /\ \A j, h \in DOMAIN acks : j < h => j \in DOMAIN acks'
    BY <1>3, <1>4
  <1>6. Unacked' = Unacked /\ Settled' = Settled /\ Issued' = Issued
    BY <1>2 DEF Unacked, Settled, Issued
  <1>7. \A b \in Commands : InFlight(b)' => InFlight(b)
    BY <1>2, <1>5 DEF InFlight
  <1>8. \A k \in Calls : Waiting(k)' = Waiting(k)
    BY <1>2 DEF Waiting
  <1>9. OneReplay'
    <2>1. Replaying' = Replaying
      BY <1>2 DEF Replaying
    <2>2. QED
      BY <1>2, <1>5, <1>7, <2>1 DEF OInv, Ordering, OneReplay
  <1>10. InOrder'
    BY <1>2, <1>5, <1>7, <1>8 DEF OInv, Ordering, InOrder
  <1>11. Unsettled'
    BY <1>2, <1>6, <1>7 DEF OInv, Ordering, Unsettled
  <1>12. NothingLost'
    BY <1>2 DEF NothingLost
  <1>13. Prefix'
    <2>1. ASSUME NEW j \in DOMAIN acks', NEW b \in Commands, b < acks'[j].cmd,
                 b \notin Settled
          PROVE  \E h \in DOMAIN acks' : acks'[h].cmd = b
      <3>1. PICK h \in DOMAIN acks : acks[h].cmd = b
        BY <1>5, <2>1 DEF OInv, Ordering, Prefix
      <3>2. j \in DOMAIN acks /\ acks'[j] = acks[j] /\ j \in Nat /\ h \in Nat
        BY <1>3, <1>5
      <3>3. h < j
        <4>1. ~(j < h)
          BY <1>1, <2>1, <3>1, <3>2, Shapes DEF OInv, Ordering, InOrder
        <4>2. j # h
          BY <1>1, <2>1, <3>1, <3>2, Shapes
        <4>3. QED
          BY <3>2, <4>1, <4>2
      <3>4. QED
        BY <1>5, <3>1, <3>2, <3>3
    <2>2. QED
      BY <1>6, <2>1 DEF OInv, Ordering, Prefix
  <1>14. Latest'
    <2>1. \A b \in Issued : ReportedDone(b)' => ReportedDone(b)
      BY <1>2, <1>5 DEF ReportedDone
    <2>2. QED
      BY <1>2, <1>6, <2>1 DEF OInv, Ordering, Latest
  <1>15. QED
    BY <1>0, <1>9, <1>10, <1>11, <1>12, <1>13, <1>14 DEF OInv, Ordering

LEMMA DialOrdered ==
  ASSUME OInv, Dial, "slow_hello" \notin Races, orderly'
  PROVE  OInv'
  <1>0. IInv'
    BY DialSafe DEF OInv, Ordering
  <1>1. Shape
    BY DEF OInv, Ordering, IInv
  <1>2. /\ ~open /\ dialled < MaxCalls /\ ~Replaying /\ acks = <<>> /\ ~Working
        /\ dialled' = dialled + 1 /\ open' = TRUE
        /\ sync' = [sync EXCEPT ![dialled + 1] = "hello"]
        /\ UNCHANGED <<row, kind, stripped, enq, registered, todo, marking, noticed, wire,
                       busy, acks, node, executed>>
    BY DEF Dial, MayRace, rows
  <1>3. wire = <<>> /\ \A k \in Calls : busy[k] = None
    BY <1>1, <1>2 DEF Shape, Working
  <1>4. \A b \in Commands : ~InFlight(b) /\ ~InFlight(b)'
    BY <1>1, <1>2, <1>3, Shapes DEF InFlight, None
  <1>5. dialled + 1 \in Calls /\ sync'[dialled + 1] = "hello"
        /\ \A k \in Calls : k # dialled + 1 => sync'[k] = sync[k]
    BY <1>1, <1>2, CallsAssumption DEF Shape, Calls
  <1>6. Unacked' = Unacked /\ Settled' = Settled /\ Issued' = Issued
    BY <1>2 DEF Unacked, Settled, Issued
  <1>7. OneReplay'
    <2>1. ~Replaying'
      BY <1>2, <1>5 DEF Replaying
    <2>2. registered # dialled + 1
      BY <1>1 DEF Shape
    <2>3. QED
      BY <1>2, <1>3, <1>4, <1>5, <2>1, <2>2 DEF OInv, Ordering, OneReplay, Replaying
  <1>8. InOrder'
    BY <1>2, <1>3, <1>4 DEF InOrder
  <1>9. Unsettled'
    BY <1>2, <1>4, <1>6 DEF OInv, Ordering, Unsettled
  <1>10. NothingLost'
    BY <1>2, <1>5 DEF NothingLost
  <1>11. Prefix' /\ Latest'
    BY <1>2, <1>6 DEF OInv, Ordering, Prefix, Latest, ReportedDone
  <1>12. QED
    BY <1>0, <1>7, <1>8, <1>9, <1>10, <1>11 DEF OInv, Ordering

\* The loss of the call, and with it of what was on it.
LEMMA CutOrdered ==
  ASSUME OInv, IInv', ~open', wire' = <<>>,
         \A k \in Calls : busy'[k] \in {busy[k], None},
         UNCHANGED <<row, kind, stripped, enq, registered, sync, todo, marking, dialled, acks,
                     node>>
  PROVE  OInv'
  <1>1. Shape
    BY DEF OInv, Ordering, IInv
  <1>2. \A b \in Commands : InFlight(b)' => InFlight(b)
    BY <1>1, Shapes DEF InFlight, None
  <1>3. Unacked' = Unacked /\ Settled' = Settled /\ Issued' = Issued
    BY DEF Unacked, Settled, Issued
  <1>4. \A k \in Calls : Waiting(k)' = Waiting(k)
    BY DEF Waiting
  <1>5. OneReplay'
    <2>1. Replaying' = Replaying
      BY DEF Replaying
    <2>2. QED
      BY <1>2, <2>1 DEF OInv, Ordering, OneReplay
  <1>6. InOrder'
    BY <1>2, <1>4 DEF OInv, Ordering, InOrder
  <1>7. Unsettled'
    BY <1>2, <1>3 DEF OInv, Ordering, Unsettled
  <1>8. NothingLost'
    BY DEF NothingLost
  <1>9. Prefix' /\ Latest'
    BY <1>3 DEF OInv, Ordering, Prefix, Latest, ReportedDone
  <1>10. QED
    BY <1>5, <1>6, <1>7, <1>8, <1>9 DEF OInv, Ordering

LEMMA DropOrdered ==
  ASSUME OInv, Drop
  PROVE  OInv'
  <1>1. IInv'
    BY DropSafe DEF OInv, Ordering
  <1>2. /\ ~open' /\ wire' = <<>> /\ UNCHANGED busy
        /\ UNCHANGED <<row, kind, stripped, enq, registered, sync, todo, marking, dialled, acks,
                       node>>
    BY DEF Drop, rows, memory
  <1>3. \A k \in Calls : busy'[k] \in {busy[k], None}
    BY <1>2
  <1>4. QED
    BY <1>1, <1>2, <1>3, CutOrdered

LEMMA AgentStopsOrdered ==
  ASSUME OInv, AgentStops
  PROVE  OInv'
  <1>1. IInv'
    BY AgentStopsSafe DEF OInv, Ordering
  <1>2. /\ ~open' /\ wire' = <<>>
        /\ UNCHANGED <<row, kind, stripped, enq, registered, sync, todo, marking, dialled, acks,
                       node>>
    BY DEF AgentStops, rows, memory
  <1>3. \A k \in Calls : busy'[k] \in {busy[k], None}
    BY DEF AgentStops
  <1>4. QED
    BY <1>1, <1>2, <1>3, CutOrdered

LEMMA TakeOrdered ==
  ASSUME OInv, Take
  PROVE  OInv'
  <1>0. IInv'
    BY TakeSafe DEF OInv, Ordering
  <1>1. Shape
    BY DEF OInv, Ordering, IInv
  <1>2. /\ open /\ wire # <<>> /\ busy[dialled] = None
        /\ busy' = [busy EXCEPT ![dialled] = Head(wire)]
        /\ wire' = Tail(wire)
        /\ UNCHANGED <<row, kind, stripped, enq, registered, sync, todo, marking, noticed,
                       dialled, open, node, executed, acks>>
    BY DEF Take, rows, memory
  <1>3. /\ DOMAIN wire = 1..Len(wire) /\ Len(wire) \in Nat \ {0}
        /\ Head(wire) = wire[1]
        /\ DOMAIN wire' = 1..Len(wire) - 1
        /\ \A j \in 1..Len(wire) - 1 : wire'[j] = wire[j + 1]
    <2>1. wire \in Seq(Commands)
      BY <1>1 DEF Shape
    <2>2. QED
      BY <1>2, <2>1, TailElements
  <1>4. /\ 1 \in DOMAIN wire
        /\ \A j \in DOMAIN wire' : j + 1 \in DOMAIN wire /\ 1 < j + 1 /\ wire'[j] = wire[j + 1]
        /\ \A j \in DOMAIN wire : j = 1 \/ (j - 1 \in DOMAIN wire' /\ wire'[j - 1] = wire[j])
        /\ \A i, j \in DOMAIN wire' : i < j => i + 1 < j + 1
    BY <1>3
  <1>5. /\ dialled \in Calls /\ busy'[dialled] = wire[1]
        /\ \A k \in Calls : k # dialled => busy'[k] = busy[k]
    BY <1>1, <1>2, <1>3, Shapes DEF Shape
  <1>6. \A b \in Commands : InFlight(b)' <=> InFlight(b)
    <2> SUFFICES ASSUME NEW b \in Commands PROVE InFlight(b)' <=> InFlight(b)
      OBVIOUS
    <2>1. (\E k \in Calls : busy'[k] = b) <=> (\E k \in Calls : busy[k] = b) \/ wire[1] = b
      BY <1>1, <1>2, <1>5, Shapes DEF None
    <2>2. (\E j \in DOMAIN wire : wire[j] = b) <=>
            wire[1] = b \/ \E j \in DOMAIN wire' : wire'[j] = b
      BY <1>4
    <2>3. QED
      BY <1>2, <2>1, <2>2 DEF InFlight
  <1>7. Unacked' = Unacked /\ Settled' = Settled /\ Issued' = Issued
    BY <1>2 DEF Unacked, Settled, Issued
  <1>8. \A k \in Calls : Waiting(k)' = Waiting(k)
    BY <1>2 DEF Waiting
  <1>9. OneReplay'
    <2>1. Replaying' = Replaying
      BY <1>2 DEF Replaying
    <2>2. \A k \in Calls : busy'[k] # None => k = dialled
      BY <1>5 DEF OInv, Ordering, OneReplay
    <2>3. QED
      BY <1>2, <1>6, <2>1, <2>2 DEF OInv, Ordering, OneReplay
  <1>10. InOrder'
    <2>1. \A i, j \in DOMAIN wire' : i < j => wire'[i] < wire'[j]
      BY <1>4 DEF OInv, Ordering, InOrder
    <2>2. \A i \in DOMAIN acks, k \in Calls : busy'[k] # None => acks[i].cmd < busy'[k]
      BY <1>4, <1>5 DEF OInv, Ordering, InOrder
    <2>3. \A i \in DOMAIN acks, j \in DOMAIN wire' : acks[i].cmd < wire'[j]
      BY <1>4 DEF OInv, Ordering, InOrder
    <2>4. \A k \in Calls, j \in DOMAIN wire' : busy'[k] < wire'[j]
      BY <1>4, <1>5 DEF OInv, Ordering, InOrder
    <2>5. QED
      BY <1>2, <1>6, <1>8, <2>1, <2>2, <2>3, <2>4 DEF OInv, Ordering, InOrder
  <1>11. Unsettled'
    BY <1>2, <1>6, <1>7 DEF OInv, Ordering, Unsettled
  <1>12. NothingLost'
    <2>1. Unacked \subseteq Commands
      BY DEF Unacked
    <2>2. QED
      BY <1>2, <1>5, <1>6, <1>7, <1>8, <2>1 DEF OInv, Ordering, NothingLost
  <1>13. Prefix' /\ Latest'
    BY <1>2, <1>7 DEF OInv, Ordering, Prefix, Latest, ReportedDone
  <1>14. QED
    BY <1>0, <1>9, <1>10, <1>11, <1>12, <1>13 DEF OInv, Ordering

\* What is in flight ahead of the command being carried out is acked.
LEMMA AheadIsAcked ==
  ASSUME OInv, open, busy[dialled] # None, NEW b \in Commands, b < busy[dialled]
  PROVE  b \in Settled \/ \E j \in DOMAIN acks : acks[j].cmd = b
  <1>1. Shape
    BY DEF OInv, Ordering, IInv
  <1>2. dialled \in Calls /\ busy[dialled] \in Commands /\ InFlight(busy[dialled])
    BY <1>1, Shapes DEF InFlight
  <1>3. busy[dialled] \in Unacked
    BY <1>2 DEF OInv, Ordering, Unsettled
  <1>4. b \in Issued
    BY <1>2, <1>3 DEF OInv, Ordering, Prefix, Unacked, Issued
  <1>5. b \in Settled \/ b \in Unacked
    BY <1>1, <1>4 DEF Settled, Unacked, Issued, Shape
  <1>6. sync[dialled] \in {"replay", "synced"}
    <2>1. sync[dialled] \notin {"hello", "registered"}
      BY <1>2 DEF OInv, Ordering, OneReplay
    <2>2. sync[dialled] # "none"
      BY <1>1, <1>2, Shapes DEF OInv, Ordering, IInv, HelloInv
    <2>3. sync[dialled] # "ended"
      BY DEF OInv, Ordering, OneReplay
    <2>4. QED
      BY <1>1, <1>2, <2>1, <2>2, <2>3 DEF Shape
  <1>7. CASE b \in Unacked
    <2>1. enq[b] = "stored" \/ InFlight(b) \/ b \in Waiting(dialled)
      BY <1>6, <1>7 DEF OInv, Ordering, NothingLost
    <2>2. ~(busy[dialled] < b)
      BY <1>1, <1>2, Shapes
    <2>3. InFlight(b)
      BY <1>2, <2>1, <2>2 DEF OInv, Ordering, InOrder
    <2>4. \A k \in Calls : busy[k] # b
      BY <1>1, <1>2, Shapes DEF OInv, Ordering, OneReplay, None
    <2>5. \A j \in DOMAIN wire : wire[j] # b
      BY <1>2, <2>2 DEF OInv, Ordering, InOrder
    <2>6. QED
      BY <2>3, <2>4, <2>5 DEF InFlight
  <1>8. QED
    BY <1>5, <1>7

LEMMA FinishOrdered ==
  ASSUME OInv, NEW k \in Calls, NEW outcome \in Outcomes, Finish(k, outcome)
  PROVE  OInv'
  <1>0. IInv'
    BY FinishSafe DEF OInv, Ordering
  <1>1. Shape
    BY DEF OInv, Ordering, IInv
  <1> DEFINE Ack == [cmd : Commands, outcome : {"ACKED", "FAILED"}, call : Calls]
             ack == [cmd |-> busy[k], outcome |-> outcome, call |-> k]
             c == busy[k]
  <1>2. /\ c # None
        /\ node' = IF outcome = "ACKED" THEN kind[c] ELSE node
        /\ acks' = IF open /\ k = dialled THEN Append(acks, ack) ELSE acks
        /\ busy' = [busy EXCEPT ![k] = None]
        /\ UNCHANGED <<row, kind, stripped, enq, registered, sync, todo, marking, noticed,
                       dialled, open, wire>>
    BY DEF Finish, rows, memory
  <1>3. /\ k = dialled /\ c \in Commands /\ InFlight(c) /\ c \in Unacked
        /\ c \notin Settled
    <2>1. k = dialled /\ c \in Commands /\ InFlight(c)
      BY <1>1, <1>2, Shapes DEF OInv, Ordering, OneReplay, InFlight
    <2>2. QED
      BY <2>1 DEF OInv, Ordering, Unsettled, Settled, Unacked
  <1>4. /\ \A h \in Calls : h # k => busy'[h] = busy[h] /\ busy[h] = None
        /\ busy'[k] = None
    BY <1>1, <1>2, <1>3 DEF Shape, OInv, Ordering, OneReplay
  <1>5. Unacked' = Unacked /\ Settled' = Settled /\ Issued' = Issued
    BY <1>2 DEF Unacked, Settled, Issued
  <1>6. \A h \in Calls : Waiting(h)' = Waiting(h)
    BY <1>2 DEF Waiting
  <1>7. \A i \in DOMAIN acks : acks[i].cmd < c
    BY <1>2 DEF OInv, Ordering, InOrder
  \* The last command issued, reported done, is what the node did last.
  <1>8. \A d \in Issued : d + 1 \notin Issued /\ ReportedDone(d) => FALSE
    <2> SUFFICES ASSUME NEW d \in Issued, d + 1 \notin Issued, ReportedDone(d) PROVE FALSE
      OBVIOUS
    <2>1. d \in Commands /\ d \in Nat /\ c \in Nat /\ c \in Issued
      BY <1>1, <1>3, Shapes DEF Issued, Unacked
    <2>2. c <= d
      <3> SUFFICES ASSUME d < c PROVE FALSE
        BY <2>1
      <3>1. \A b, e \in Commands : b < e /\ e \in Issued => b \in Issued
        BY DEF OInv, Ordering, Prefix
      <3>2. d + 1 = c \/ d + 1 < c
        BY <2>1
      <3>3. d + 1 \in Commands
        BY <1>3, <2>1, <3>2, CommandsAssumption DEF Commands
      <3>4. QED
        BY <1>3, <2>1, <3>1, <3>2, <3>3
    <2>3. CASE row[d] = "ACKED"
      <3>1. d \in Settled
        BY <2>1, <2>3 DEF Settled
      <3>2. c = d \/ c < d
        BY <2>1, <2>2
      <3>3. QED
        BY <1>3, <2>1, <3>1, <3>2 DEF OInv, Ordering, Prefix
    <2>4. CASE \E i \in DOMAIN acks : acks[i].cmd = d /\ acks[i].outcome = "ACKED"
      BY <1>7, <2>1, <2>2, <2>4
    <2>5. QED
      BY <2>3, <2>4 DEF ReportedDone
  <1>a. CASE ~open
    <2>1. acks' = acks
      BY <1>2, <1>a
    <2>2. \A b \in Commands : InFlight(b)' => InFlight(b)
      BY <1>1, <1>2, <1>4, <2>1, Shapes DEF InFlight, None
    <2>3. OneReplay'
      BY <1>2, <1>4, <2>1, <2>2 DEF OInv, Ordering, OneReplay, Replaying
    <2>4. InOrder'
      <3>1. \A h \in Calls, j \in DOMAIN wire : busy'[h] < wire[j]
        BY <1>1, <1>4, Shapes DEF None
      <3>2. QED
        BY <1>2, <1>4, <1>6, <2>1, <2>2, <3>1 DEF OInv, Ordering, InOrder
    <2>5. Unsettled'
      BY <1>2, <1>5, <2>2 DEF OInv, Ordering, Unsettled
    <2>6. NothingLost'
      BY <1>2, <1>a DEF NothingLost
    <2>7. Prefix'
      BY <1>5, <2>1 DEF OInv, Ordering, Prefix
    <2>8. Latest'
      BY <1>2, <1>5, <1>8, <2>1 DEF Latest, ReportedDone
    <2>9. QED
      BY <1>0, <2>3, <2>4, <2>5, <2>6, <2>7, <2>8 DEF OInv, Ordering
  <1>b. CASE open
    <2>1. acks \in Seq(Ack) /\ ack \in Ack /\ acks' = Append(acks, ack)
      BY <1>1, <1>2, <1>3, <1>b, OutcomesAssumption DEF Shape
    <2>2. ack.cmd = c /\ ack.outcome = outcome /\ ack.call = k
      OBVIOUS
    <2> HIDE DEF Ack, ack
    <2>3. /\ DOMAIN acks = 1..Len(acks) /\ Len(acks) \in Nat
          /\ DOMAIN acks' = 1..Len(acks) + 1
          /\ \A j \in DOMAIN acks : acks'[j] = acks[j]
          /\ acks'[Len(acks) + 1] = ack
      BY <2>1, AppendElements
    <2> DEFINE new == Len(acks) + 1
    <2>4. /\ new \in DOMAIN acks' /\ acks'[new].cmd = c /\ acks'[new].outcome = outcome
          /\ acks'[new].call = dialled
          /\ \A j \in DOMAIN acks' : j = new \/ (j \in DOMAIN acks /\ acks'[j] = acks[j])
          /\ \A j \in DOMAIN acks : j \in DOMAIN acks'
          /\ \A i, j \in DOMAIN acks' : i < j => i # new
      BY <1>3, <2>2, <2>3
    <2> HIDE DEF new, c
    <2>5. \A b \in Commands : InFlight(b)' <=> InFlight(b)
      <3> SUFFICES ASSUME NEW b \in Commands PROVE InFlight(b)' <=> InFlight(b)
        OBVIOUS
      <3>1. (\E i \in DOMAIN acks' : acks'[i].cmd = b) <=>
              b = c \/ \E i \in DOMAIN acks : acks[i].cmd = b
        BY <2>3, <2>4
      <3>2. (\E h \in Calls : busy[h] = b) <=> b = c
        BY <1>1, <1>4, Shapes DEF None, c
      <3>3. ~\E h \in Calls : busy'[h] = b
        BY <1>1, <1>4, Shapes DEF None
      <3>4. QED
        BY <1>2, <3>1, <3>2, <3>3 DEF InFlight
    <2>6. OneReplay'
      <3>1. \A i \in DOMAIN acks' : acks'[i].call = dialled
        BY <2>4 DEF OInv, Ordering, OneReplay
      <3>2. \A h \in Calls : busy'[h] = None
        BY <1>4
      <3>3. Replaying' = Replaying
        BY <1>2 DEF Replaying
      <3>4. QED
        BY <1>2, <2>5, <3>1, <3>2, <3>3 DEF OInv, Ordering, OneReplay
    <2>7. InOrder'
      <3>1. \A i, j \in DOMAIN acks' : i < j => acks'[i].cmd < acks'[j].cmd
        BY <1>7, <2>4 DEF OInv, Ordering, InOrder
      <3>2. \A i \in DOMAIN acks', j \in DOMAIN wire : acks'[i].cmd < wire[j]
        BY <2>4 DEF OInv, Ordering, InOrder, c
      <3>3. \A h \in Calls, j \in DOMAIN wire : busy'[h] < wire[j]
        BY <1>1, <1>4, Shapes DEF None
      <3>4. \A h \in Calls : busy'[h] = None
        BY <1>4
      <3>5. QED
        BY <1>2, <1>6, <2>5, <3>1, <3>2, <3>3, <3>4 DEF OInv, Ordering, InOrder
    <2>8. Unsettled'
      BY <1>2, <1>5, <2>5 DEF OInv, Ordering, Unsettled
    <2>9. NothingLost'
      <3>1. Unacked \subseteq Commands
        BY DEF Unacked
      <3>2. QED
        BY <1>2, <1>3, <1>5, <1>6, <2>5, <3>1 DEF OInv, Ordering, NothingLost
    <2>10. Prefix'
      <3>1. \A b \in Commands : b < c => b \in Settled \/ \E j \in DOMAIN acks : acks[j].cmd = b
        BY <1>2, <1>3, <1>b, AheadIsAcked DEF c
      <3>2. \A i \in DOMAIN acks', b \in Commands : b < acks'[i].cmd =>
              b \in Settled \/ \E j \in DOMAIN acks : acks[j].cmd = b
        BY <2>4, <3>1 DEF OInv, Ordering, Prefix
      <3>3. \A b \in Commands : (\E j \in DOMAIN acks : acks[j].cmd = b) =>
              \E j \in DOMAIN acks' : acks'[j].cmd = b
        BY <2>3, <2>4
      <3>4. QED
        BY <1>5, <3>2, <3>3 DEF OInv, Ordering, Prefix
    <2>11. Latest'
      <3> SUFFICES ASSUME NEW d \in Issued, d + 1 \notin Issued, ReportedDone(d)'
                   PROVE  node' = kind[d]
        BY <1>2, <1>5 DEF Latest
      <3>1. ~ReportedDone(d)
        BY <1>8
      <3>2. d = c /\ outcome = "ACKED"
        BY <1>2, <2>4, <3>1 DEF ReportedDone
      <3>3. QED
        BY <1>2, <3>2
    <2>12. QED
      BY <1>0, <2>6, <2>7, <2>8, <2>9, <2>10, <2>11 DEF OInv, Ordering
  <1>9. QED
    BY <1>a, <1>b

LEMMA RestartOrdered ==
  ASSUME OInv, Restart
  PROVE  OInv'
  <1>0. IInv'
    BY RestartSafe DEF OInv, Ordering
  <1>1. Shape
    BY DEF OInv, Ordering, IInv
  <1>2. /\ ~open' /\ wire' = <<>> /\ acks' = <<>> /\ marking' = {}
        /\ \A c \in Commands : enq'[c] \in {"none", "over"}
        /\ \A k \in Calls : sync'[k] \in {"ended", "none"} /\ todo'[k] = {}
        /\ UNCHANGED <<row, kind, stripped, dialled, busy, node>>
    BY DEF Restart, rows
  <1>3. \A b \in Commands : InFlight(b)' => InFlight(b)
    BY <1>2 DEF InFlight
  <1>4. Unacked' = Unacked /\ Settled' = Settled /\ Issued' = Issued
    BY <1>2 DEF Unacked, Settled, Issued
  <1>5. \A k \in Calls : Waiting(k)' = {}
    BY <1>2 DEF Waiting
  <1>6. OneReplay'
    BY <1>2 DEF OInv, Ordering, OneReplay, Replaying
  <1>7. InOrder'
    BY <1>2, <1>5 DEF InOrder
  <1>8. Unsettled'
    BY <1>2, <1>3, <1>4 DEF OInv, Ordering, Unsettled
  <1>9. NothingLost'
    BY <1>2 DEF NothingLost
  <1>10. Prefix' /\ Latest'
    BY <1>2, <1>4 DEF OInv, Ordering, Prefix, Latest, ReportedDone
  <1>11. QED
    BY <1>0, <1>6, <1>7, <1>8, <1>9, <1>10 DEF OInv, Ordering

-----------------------------------------------------------------------------
(***************************************************************************)
(* And through whatever overlapped before.                                 *)
(***************************************************************************)
\* Whatever is on the stream, being carried out or acked has a row.
Sent ==
  /\ Range(wire) \subseteq Issued
  /\ \A k \in Calls : busy[k] \in Issued \cup {None}
  /\ \A i \in DOMAIN acks : acks[i].cmd \in Issued

\* What holds whether anything overlapped or not: a call whose Hello is still
\* being checked is not registered, the open one was not refused, rows are
\* created in order and what lost its credentials has a row.
Aux ==
  /\ Sent
  /\ \A k \in Calls : sync[k] = "hello" => registered # k
  /\ open => sync[dialled] # "ended"
  /\ \A b, c \in Commands : b < c /\ c \in Issued => b \in Issued
  /\ stripped \subseteq Issued

\* No step takes a row away, and only a command with a row is written.
LEMMA IssuedKept ==
  ASSUME IInv, Sent, Next
  PROVE  Issued \subseteq Issued'
  <1>1. Shape
    BY DEF IInv
  <1>2. ASSUME NEW c \in Commands, NEW what \in Kinds, Enqueue(c, what)
        PROVE  Issued \subseteq Issued'
    BY <1>1, <1>2 DEF Enqueue, Shape, Issued
  <1>3. ASSUME NEW c \in Commands, MarkSent(c) PROVE Issued \subseteq Issued'
    BY <1>1, <1>3 DEF MarkSent, Shape, Issued
  <1>4. ASSUME NEW k \in Calls, ReplayMark(k) PROVE Issued \subseteq Issued'
    BY <1>1, <1>4 DEF ReplayMark, Shape, Issued
  <1>5. ASSUME NEW i \in DOMAIN acks, HandleAck(i) PROVE Issued \subseteq Issued'
    <2>1. \A c \in Commands : row'[c] = row[c] \/ row'[c] = acks[i].outcome
      BY <1>1, <1>5 DEF HandleAck, Shape
    <2>2. acks[i].outcome # "none"
      <3> DEFINE Ack == [cmd : Commands, outcome : {"ACKED", "FAILED"}, call : Calls]
      <3>1. acks \in Seq(Ack)
        BY <1>1 DEF Shape
      <3>2. acks[i] \in Ack
        <4> HIDE DEF Ack
        <4>1. QED
          BY <3>1
      <3>3. QED
        BY <3>2
    <2>3. QED
      BY <2>1, <2>2 DEF Issued
  <1>6. CASE UNCHANGED row
    BY <1>6 DEF Issued
  <1>7. QED
    BY <1>2, <1>3, <1>4, <1>5, <1>6
       DEF Next, Backend, Agent, WriteStored, HelloDone, ReplayRead, ReplayWrite, ReplayDone,
           CloseSeen, LoseAck, Dial, Take, Finish, Drop, AgentStops, Restart, rows

LEMMA SentKept ==
  ASSUME IInv, Sent, Next
  PROVE  Sent'
  <1>0. Shape /\ Issued \subseteq Issued' /\ (open => dialled \in Calls)
    BY IssuedKept, Shapes DEF IInv
  <1> DEFINE Ack == [cmd : Commands, outcome : {"ACKED", "FAILED"}, call : Calls]
  <1>a. acks \in Seq(Ack) /\ wire \in Seq(Commands)
    BY <1>0 DEF Shape
  <1> HIDE DEF Ack
  <1>1. ASSUME NEW c \in Issued, Write(c), UNCHANGED <<busy, acks>> PROVE Sent'
    <2>1. c \in Commands
      BY DEF Issued
    <2>2. Range(wire') \subseteq Range(wire) \cup {c}
      BY <1>1, <1>a, <2>1, AppendKeeps DEF Write
    <2>3. QED
      BY <1>0, <1>1, <2>2 DEF Sent
  <1>2. ASSUME NEW c \in Commands, WriteStored(c) PROVE Sent'
    <2>1. c \in Issued
      BY <1>2 DEF WriteStored, IInv, RowInv, Issued
    <2>2. QED
      BY <1>1, <1>2, <2>1 DEF WriteStored, agent
  <1>3. ASSUME NEW k \in Calls, ReplayWrite(k) PROVE Sent'
    <2>1. todo[k] \in SUBSET Commands /\ todo[k] # {} /\ todo[k] \subseteq Issued
      BY <1>0, <1>3 DEF ReplayWrite, Shape, IInv, RowInv
    <2>2. First(todo[k]) \in Issued
      BY <2>1, FirstIsLeast
    <2>3. QED
      BY <1>1, <1>3, <2>2 DEF ReplayWrite, agent
  <1>4. ASSUME NEW i \in DOMAIN acks, HandleAck(i) \/ LoseAck(i) PROVE Sent'
    <2>1. \A j \in DOMAIN RemoveAt(acks, i) : \E k \in DOMAIN acks : RemoveAt(acks, i)[j] = acks[k]
      BY <1>a, RemoveAtKeeps
    <2>2. acks' = RemoveAt(acks, i) /\ UNCHANGED <<wire, busy>>
      BY <1>4 DEF HandleAck, LoseAck, memory, agent
    <2>3. QED
      BY <1>0, <2>1, <2>2 DEF Sent
  <1>5. CASE Take
    <2>1. /\ wire # <<>> /\ busy' = [busy EXCEPT ![dialled] = Head(wire)]
          /\ wire' = Tail(wire) /\ UNCHANGED acks
      BY <1>5 DEF Take
    <2>2. Range(wire) = Range(wire') \cup {Head(wire)}
      BY <1>a, <2>1, TailKeeps
    <2>3. \A k \in Calls : busy'[k] \in {busy[k], Head(wire)}
      BY <1>0, <2>1 DEF Shape
    <2>4. QED
      BY <1>0, <2>1, <2>2, <2>3 DEF Sent
  <1>6. ASSUME NEW k \in Calls, NEW outcome \in Outcomes, Finish(k, outcome) PROVE Sent'
    <2> DEFINE ack == [cmd |-> busy[k], outcome |-> outcome, call |-> k]
    <2>1. /\ busy[k] # None /\ busy' = [busy EXCEPT ![k] = None] /\ UNCHANGED wire
          /\ acks' = IF open /\ k = dialled THEN Append(acks, ack) ELSE acks
      BY <1>6 DEF Finish
    <2>2. busy[k] \in Issued /\ busy[k] \in Commands
      BY <2>1 DEF Sent, Issued
    <2>3. ack \in Ack
      BY <2>2, OutcomesAssumption DEF Ack
    <2>4. ack.cmd \in Issued
      BY <2>2
    <2> HIDE DEF ack
    <2>5. \A i \in DOMAIN acks' : \/ i \in DOMAIN acks /\ acks'[i] = acks[i]
                                \/ acks'[i] = ack
      BY <1>a, <2>1, <2>3, AppendElements
    <2>6. \A h \in Calls : busy'[h] \in {busy[h], None}
      BY <1>0, <2>1 DEF Shape
    <2>7. QED
      BY <1>0, <2>1, <2>4, <2>5, <2>6 DEF Sent
  <1>7. CASE /\ wire' \in {wire, <<>>} /\ acks' \in {acks, <<>>}
             /\ busy' \in {busy, [k \in Calls |-> None]}
    BY <1>0, <1>7 DEF Sent, Range
  <1>8. CASE Dial \/ Drop \/ AgentStops \/ Restart
    BY <1>7, <1>8 DEF Dial, Drop, AgentStops, Restart
  <1>9. CASE \E k \in Calls : \/ HelloDone(k) \/ ReplayRead(k) \/ ReplayMark(k)
                              \/ ReplayDone(k) \/ CloseSeen(k)
    BY <1>7, <1>9 DEF HelloDone, ReplayRead, ReplayMark, ReplayDone, CloseSeen, agent
  <1>10. CASE \E c \in Commands : MarkSent(c) \/ \E what \in Kinds : Enqueue(c, what)
    BY <1>7, <1>10 DEF MarkSent, Enqueue, agent
  <1>11. QED
    BY <1>2, <1>3, <1>4, <1>5, <1>6, <1>8, <1>9, <1>10 DEF Next, Backend, Agent

LEMMA AuxCalls ==
  ASSUME Aux, Sent', UNCHANGED <<registered, sync, dialled>>, open' => open,
         Issued' = Issued, stripped' \subseteq Issued
  PROVE  Aux'
  BY DEF Aux

LEMMA AuxKept ==
  ASSUME IInv, Aux, Next, "slow_hello" \notin Races
  PROVE  Aux'
  <1>0. Sent'
    BY SentKept DEF Aux
  <1>1. Shape /\ (open => dialled \in Calls)
    BY Shapes DEF IInv
  <1>2. ASSUME NEW c \in Commands, NEW what \in Kinds, Enqueue(c, what) PROVE Aux'
    <2>1. /\ c - 1 \in Issued \cup {0} /\ row' = [row EXCEPT ![c] = "QUEUED"]
          /\ UNCHANGED <<stripped, registered, sync, dialled, open>>
      BY <1>2 DEF Enqueue, memory, agent
    <2>2. Issued' = Issued \cup {c}
      BY <1>1, <2>1 DEF Shape, Issued
    <2>3. \A b \in Commands : b < c => b \in Issued
      <3> SUFFICES ASSUME NEW b \in Commands, b < c PROVE b \in Issued
        OBVIOUS
      <3>1. b \in Nat /\ b > 0 /\ c \in Nat
        BY <1>1, Shapes
      <3>2. c - 1 \in Issued /\ c - 1 \in Commands /\ (b = c - 1 \/ b < c - 1)
        BY <2>1, <3>1 DEF Issued
      <3>3. QED
        BY <3>2 DEF Aux
    <2>4. QED
      BY <1>0, <2>1, <2>2, <2>3 DEF Aux
  <1>3. ASSUME NEW c \in Commands, WriteStored(c) \/ MarkSent(c) PROVE Aux'
    <2>1. UNCHANGED <<registered, sync, dialled, open, stripped>>
      BY <1>3 DEF WriteStored, MarkSent, rows, memory, agent
    <2>2. Issued' = Issued
      BY <1>1, <1>3 DEF WriteStored, MarkSent, rows, IInv, RowInv, Issued, Shape
    <2>3. QED
      BY <2>1, <2>2, AuxCalls, <1>0 DEF Aux
  <1>4. ASSUME NEW k \in Calls, HelloDone(k) PROVE Aux'
    <2>1. /\ sync[k] = "hello" /\ UNCHANGED <<row, stripped, dialled, open>>
          /\ \/ k \in noticed /\ sync' = [sync EXCEPT ![k] = "ended"] /\ registered' = registered
             \/ registered' = k /\ sync' = [sync EXCEPT ![k] = "registered"]
      BY <1>4 DEF HelloDone, rows, agent
    <2>2. \A j \in Calls : sync'[j] = "hello" => sync[j] = "hello" /\ j # k
      BY <1>1, <2>1 DEF Shape
    <2>3. open => sync'[dialled] # "ended"
      <3>1. open => dialled \notin noticed
        BY DEF IInv, HelloInv
      <3>2. QED
        BY <1>1, <2>1, <3>1 DEF Aux, Shape
    <2>4. Issued' = Issued
      BY <2>1 DEF Issued
    <2>5. QED
      BY <1>0, <2>1, <2>2, <2>3, <2>4 DEF Aux
  <1>5. ASSUME NEW k \in Calls, ReplayRead(k) \/ ReplayDone(k) PROVE Aux'
    <2>1. /\ UNCHANGED <<row, stripped, registered, dialled, open>>
          /\ sync' \in {[sync EXCEPT ![k] = "replay"], [sync EXCEPT ![k] = "synced"]}
      BY <1>5 DEF ReplayRead, ReplayDone, rows, agent
    <2>2. /\ \A j \in Calls : sync'[j] = "hello" => sync[j] = "hello"
          /\ open /\ sync'[dialled] = "ended" => sync[dialled] = "ended"
      BY <1>1, <2>1 DEF Shape
    <2>3. Issued' = Issued
      BY <2>1 DEF Issued
    <2>4. QED
      BY <1>0, <2>1, <2>2, <2>3 DEF Aux
  <1>6. ASSUME NEW k \in Calls, ReplayWrite(k) PROVE Aux'
    <2>1. UNCHANGED <<row, stripped, registered, sync, dialled, open>>
      BY <1>6 DEF ReplayWrite, rows, agent
    <2>2. QED
      BY <2>1, AuxCalls, <1>0 DEF Aux, Issued
  <1>7. ASSUME NEW k \in Calls, ReplayMark(k) PROVE Aux'
    <2>1. /\ row' = [row EXCEPT ![First(todo[k])] = "SENT"] /\ k \in marking
          /\ UNCHANGED <<stripped, registered, sync, dialled, open>>
      BY <1>7 DEF ReplayMark, agent
    <2>2. First(todo[k]) \in Issued
      <3>1. todo[k] # {} /\ todo[k] \in SUBSET Commands /\ todo[k] \subseteq Issued
        BY <2>1 DEF IInv, Shape, RowInv
      <3>2. QED
        BY <3>1, FirstIsLeast
    <2>3. Issued' = Issued
      BY <1>1, <2>1, <2>2 DEF Issued, Shape
    <2>4. QED
      BY <2>1, <2>3, AuxCalls, <1>0 DEF Aux
  <1>8. ASSUME NEW k \in Calls, CloseSeen(k) PROVE Aux'
    <2>1. /\ UNCHANGED <<row, stripped, sync, dialled, open>>
          /\ registered' \in {registered, None}
      BY <1>8 DEF CloseSeen, Unregister, rows, agent
    <2>2. \A j \in Calls : j # None
      BY DEF Calls, None
    <2>3. Issued' = Issued
      BY <2>1 DEF Issued
    <2>4. QED
      BY <1>0, <2>1, <2>2, <2>3 DEF Aux
  <1>9. ASSUME NEW i \in DOMAIN acks, HandleAck(i) PROVE Aux'
    <2>1. acks[i].cmd \in Issued /\ acks[i].outcome \in {"ACKED", "FAILED"}
      <3> DEFINE Ack == [cmd : Commands, outcome : {"ACKED", "FAILED"}, call : Calls]
      <3>1. acks \in Seq(Ack)
        BY <1>1 DEF Shape
      <3>2. acks[i] \in Ack
        <4> HIDE DEF Ack
        <4>1. QED
          BY <3>1
      <3>3. QED
        BY <3>2 DEF Aux, Sent
    <2>2. /\ row' = [row EXCEPT ![acks[i].cmd] = acks[i].outcome]
          /\ stripped' = stripped \cup {acks[i].cmd}
          /\ UNCHANGED <<registered, sync, dialled, open>>
      BY <1>9 DEF HandleAck, memory, agent
    <2>3. Issued' = Issued
      BY <1>1, <2>1, <2>2 DEF Issued, Shape
    <2>4. QED
      BY <2>1, <2>2, <2>3, AuxCalls, <1>0 DEF Aux
  <1>10. CASE Dial
    <2>1. /\ dialled < MaxCalls /\ dialled' = dialled + 1
          /\ sync' = [sync EXCEPT ![dialled + 1] = "hello"]
          /\ UNCHANGED <<row, stripped, registered>>
      BY <1>10 DEF Dial, rows
    <2>2. dialled \in Nat /\ dialled + 1 \in Calls /\ registered \in 0..dialled
      BY <1>1, <2>1, CallsAssumption DEF Shape, Calls
    <2>3. /\ sync'[dialled + 1] = "hello"
          /\ \A k \in Calls : k # dialled + 1 => sync'[k] = sync[k]
      BY <1>1, <2>1, <2>2 DEF Shape
    <2>4. registered # dialled + 1
      BY <2>2
    <2>5. Issued' = Issued
      BY <2>1 DEF Issued
    <2>6. QED
      BY <1>0, <2>1, <2>2, <2>3, <2>4, <2>5 DEF Aux
  <1>11. CASE Drop \/ AgentStops \/ Take
    <2>1. UNCHANGED <<row, stripped, registered, sync, dialled>> /\ (open' => open)
      BY <1>11 DEF Drop, AgentStops, Take, rows, memory
    <2>2. QED
      BY <2>1, AuxCalls, <1>0 DEF Aux, Issued
  <1>12. ASSUME NEW k \in Calls, NEW outcome \in Outcomes, Finish(k, outcome) PROVE Aux'
    <2>1. UNCHANGED <<row, stripped, registered, sync, dialled, open>>
      BY <1>12 DEF Finish, rows, memory
    <2>2. QED
      BY <2>1, AuxCalls, <1>0 DEF Aux, Issued
  <1>13. ASSUME NEW i \in DOMAIN acks, LoseAck(i) PROVE Aux'
    <2>1. UNCHANGED <<row, stripped, registered, sync, dialled, open>>
      BY <1>13 DEF LoseAck, rows, memory, agent
    <2>2. QED
      BY <2>1, AuxCalls, <1>0 DEF Aux, Issued
  <1>14. CASE Restart
    <2>1. /\ UNCHANGED <<row, stripped>> /\ ~open'
          /\ \A k \in Calls : sync'[k] # "hello"
      BY <1>14 DEF Restart, rows
    <2>2. Issued' = Issued
      BY <2>1 DEF Issued
    <2>3. QED
      BY <1>0, <2>1, <2>2 DEF Aux
  <1>15. QED
    BY <1>2, <1>3, <1>4, <1>5, <1>6, <1>7, <1>8, <1>9, <1>10, <1>11, <1>12, <1>13, <1>14
       DEF Next, Backend, Agent

\* An outbox at rest has everything in order, whatever happened before: what
\* overlapped does not linger.
LEMMA QuietIsOrdered ==
  ASSUME IInv, Aux, Quiet
  PROVE  Ordering
  <1>1. Shape
    BY DEF IInv
  <1>2. /\ Unacked = {} /\ wire = <<>> /\ acks = <<>> /\ ~Replaying
        /\ \A k \in Calls : busy[k] = None
        /\ \A c \in Commands : enq[c] \in {"none", "over"}
    BY DEF Quiet, Working
  <1>3. \A k \in Calls : todo[k] = {} /\ Waiting(k) = {}
    BY <1>2 DEF IInv, ReplayInv, Replaying, Waiting
  <1>4. \A c \in Commands : ~InFlight(c)
    BY <1>1, <1>2, Shapes DEF InFlight, None
  <1>5. Settled = Issued
    BY <1>1, <1>2 DEF Settled, Issued, Unacked, Shape
  <1>6. OneReplay
    BY <1>2, <1>4 DEF Aux, OneReplay, Replaying
  <1>7. InOrder
    BY <1>2, <1>4 DEF InOrder
  <1>8. Unsettled
    BY <1>2, <1>3, <1>4, <1>5 DEF Unsettled, Aux, Settled
  <1>9. NothingLost
    BY <1>2 DEF NothingLost
  <1>10. Prefix
    BY <1>2, <1>5 DEF Prefix, Aux
  <1>11. QED
    BY <1>6, <1>7, <1>8, <1>9, <1>10 DEF Ordering

\* A step in order keeps the queue in order; a command issued at rest begins
\* a new one.
LEMMA OrderlyStep ==
  ASSUME IInv, Aux, orderly => OInv, Next, orderly', "slow_hello" \notin Races
  PROVE  OInv'
  <1>1. ASSUME NEW c \in Commands, NEW what \in Kinds, Enqueue(c, what) PROVE OInv'
    <2>1. orderly \/ Quiet
      BY <1>1 DEF Enqueue
    <2>2. Ordering
      BY <2>1, QuietIsOrdered DEF OInv
    <2>3. QED
      BY <1>1, <2>2, EnqueueOrdered
  <1>2. ASSUME Backend \/ Agent \/ Drop \/ AgentStops \/ Restart PROVE orderly
    BY <1>2 DEF Backend, Agent, WriteStored, MarkSent, HelloDone, ReplayRead, ReplayWrite,
       ReplayMark, ReplayDone, CloseSeen, HandleAck, LoseAck, Dial, Take, Finish, Drop,
       AgentStops, Restart, MayRace, history
  <1>3. CASE Backend
    <2>0. OInv
      BY <1>2, <1>3
    <2>1. ASSUME NEW c \in Commands, WriteStored(c) PROVE OInv'
      BY <2>0, <2>1, WriteStoredOrdered
    <2>2. ASSUME NEW c \in Commands, MarkSent(c) PROVE OInv'
      BY <2>0, <2>2, MarkSentOrdered
    <2>3. ASSUME NEW k \in Calls, HelloDone(k) PROVE OInv'
      BY <2>0, <2>3, HelloDoneOrdered
    <2>4. ASSUME NEW k \in Calls, ReplayRead(k) PROVE OInv'
      BY <2>0, <2>4, ReplayReadOrdered
    <2>5. ASSUME NEW k \in Calls, ReplayWrite(k) PROVE OInv'
      BY <2>0, <2>5, ReplayWriteOrdered
    <2>6. ASSUME NEW k \in Calls, ReplayMark(k) PROVE OInv'
      BY <2>0, <2>6, ReplayMarkOrdered
    <2>7. ASSUME NEW k \in Calls, ReplayDone(k) PROVE OInv'
      BY <2>0, <2>7, ReplayDoneOrdered
    <2>8. ASSUME NEW k \in Calls, CloseSeen(k) PROVE OInv'
      BY <2>0, <2>8, CloseSeenOrdered
    <2>9. ASSUME NEW i \in DOMAIN acks, HandleAck(i) PROVE OInv'
      BY <2>0, <2>9, HandleAckOrdered
    <2>10. ASSUME NEW i \in DOMAIN acks, LoseAck(i) PROVE OInv'
      BY <2>0, <2>10, LoseAckOrdered
    <2>11. QED
      BY <1>3, <2>1, <2>2, <2>3, <2>4, <2>5, <2>6, <2>7, <2>8, <2>9, <2>10 DEF Backend
  <1>4. CASE Agent
    <2>0. OInv
      BY <1>2, <1>4
    <2>1. ASSUME NEW k \in Calls, NEW outcome \in Outcomes, Finish(k, outcome)
          PROVE OInv'
      BY <2>0, <2>1, FinishOrdered
    <2>2. QED
      BY <2>0, <1>4, <2>1, DialOrdered, TakeOrdered DEF Agent
  <1>5. CASE Drop \/ AgentStops \/ Restart
    BY <1>2, <1>5, DropOrdered, AgentStopsOrdered, RestartOrdered
  <1>6. QED
    BY <1>1, <1>3, <1>4, <1>5 DEF Next

LEMMA Stutters ==
  ASSUME IInv, Aux, OInv, UNCHANGED vars
  PROVE  OInv'
  <1>1. IInv'
    BY DEF vars, OInv, Ordering, IInv, Shape, LiveCallRegistered, NothingStranded, HelloInv,
       ReplayInv, RowInv, OnItsWay, Unacked, Issued
  <1>2. SameQueue /\ UNCHANGED <<registered, sync, todo, marking>>
    BY DEF vars, SameQueue
  <1>3. /\ Unacked' = Unacked /\ Prefix' /\ Latest'
        /\ \A c \in Commands : InFlight(c)' <=> InFlight(c)
    BY <1>2, SameQueueSame DEF OInv, Ordering
  <1>4. \A k \in Calls : Waiting(k)' = Waiting(k)
    BY <1>2 DEF Waiting
  <1>5. OneReplay' /\ InOrder' /\ Unsettled'
    BY <1>2, <1>3, <1>4 DEF OInv, Ordering, OneReplay, InOrder, Unsettled, SameQueue, Replaying
  <1>6. NothingLost'
    <2>1. open => dialled \in Calls
      BY Shapes DEF OInv, Ordering, IInv
    <2>2. Unacked \subseteq Commands
      BY DEF Unacked
    <2>3. QED
      BY <1>2, <1>3, <1>4, <2>1, <2>2 DEF OInv, Ordering, NothingLost, SameQueue
  <1>7. QED
    BY <1>1, <1>3, <1>5, <1>6 DEF OInv, Ordering

\* The queue is in order in every state since a command was issued at rest,
\* if nothing overlapped since.
THEOREM QueueInvariant ==
  ASSUME "slow_hello" \notin Races
  PROVE  Spec => [](Aux /\ (orderly => OInv))
  <1>1. Init /\ IInv => Aux /\ OInv
    <2> SUFFICES ASSUME Init, IInv PROVE Aux /\ OInv
      OBVIOUS
    <2>1. /\ \A c \in Commands : row[c] = "none" /\ enq[c] = "none"
          /\ \A k \in Calls : sync[k] = "none" /\ todo[k] = {} /\ busy[k] = None
          /\ stripped = {} /\ marking = {} /\ ~open /\ wire = <<>> /\ acks = <<>>
      BY DEF Init
    <2>2. \A c \in Commands : ~InFlight(c)
      BY <2>1, CommandsAssumption DEF InFlight, Commands, None
    <2>3. Issued = {} /\ Settled = {} /\ \A k \in Calls : Waiting(k) = {}
      BY <2>1 DEF Issued, Settled, Waiting
    <2>4. OneReplay
      BY <2>1 DEF OneReplay, Replaying
    <2>5. InOrder
      BY <2>1, <2>2 DEF InOrder
    <2>6. Unsettled
      BY <2>1, <2>2 DEF Unsettled
    <2>7. NothingLost
      BY <2>1 DEF NothingLost
    <2>8. Prefix /\ Latest
      BY <2>1, <2>3 DEF Prefix, Latest
    <2>9. Aux
      BY <2>1, <2>3 DEF Aux, Sent, Range
    <2>10. QED
      BY <2>4, <2>5, <2>6, <2>7, <2>8, <2>9 DEF OInv, Ordering
  <1>2. IInv /\ IInv' /\ Aux /\ (orderly => OInv) /\ [Next]_vars
        => Aux' /\ (orderly => OInv)'
    <2>1. ASSUME IInv, Aux, orderly => OInv, Next PROVE Aux' /\ (orderly' => OInv')
      BY <2>1, AuxKept, OrderlyStep
    <2>2. ASSUME IInv, Aux, orderly => OInv, UNCHANGED vars
          PROVE  Aux' /\ (orderly' => OInv')
      <3>1. Aux'
        BY <2>2 DEF vars, Aux, Sent, Issued
      <3>2. orderly' = orderly
        BY <2>2 DEF vars
      <3>3. QED
        BY <2>2, <3>1, <3>2, Stutters
    <2>3. QED
      BY <2>1, <2>2
  <1>3. QED
    BY <1>1, <1>2, Invariant, PTL DEF Spec

\* The last command issued for a credential, once it is recorded as carried
\* out, decides what the node does with it, through any number of lost calls,
\* lost acks, replays and restarts, and whatever overlapped before the outbox
\* was last at rest.
THEOREM LastDecides ==
  ASSUME "slow_hello" \notin Races
  PROVE  Spec => []LastOrderlyDecides
  <1>1. Aux /\ (orderly => OInv) => LastOrderlyDecides
    BY DEF OInv, Latest, ReportedDone, LastCommandDecides, LastOrderlyDecides
  <1>2. QED
    BY <1>1, QueueInvariant, PTL

=============================================================================
