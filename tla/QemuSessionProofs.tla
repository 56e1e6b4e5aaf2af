-------------------------- MODULE QemuSessionProofs --------------------------
(***************************************************************************)
(* Proofs about QemuSession and the modules it composes, Qmp and           *)
(* NetworkPool: any machines, networks and subnets, any number of guests   *)
(* started and of cancellations.                                           *)
(***************************************************************************)
EXTENDS QemuSession, SequenceTheorems, WellFoundedInduction, TLAPS

------------------------------------------------------------------------------
(* Networks *)

LEMMA LeastNatural ==
  ASSUME NEW S \in SUBSET Nat, S # {}
  PROVE  \E k \in S : \A j \in S : k <= j
<1>1. IsWellFoundedOn(OpToRel(<, Nat), Nat)
  BY NatLessThanWellFounded
<1>2. PICK k \in S : \A j \in S : ~(<<j, k>> \in OpToRel(<, Nat))
  BY <1>1, WFMin
<1>3. \A j \in S : ~(j < k)
  BY <1>2 DEF OpToRel
<1>4. QED
  BY <1>3

LEMMA AroundReaches ==
  ASSUME NEW N \in Nat, NEW h \in 0..(N - 1), NEW x \in 0..(N - 1)
  PROVE  \E k \in 0..(N - 1) : (h + k) % N = x
<1>1. CASE h <= x
  <2>1. x - h \in 0..(N - 1) /\ h + (x - h) = x
    BY <1>1
  <2>2. x % N = x
    OBVIOUS
  <2>3. QED
    BY <2>1, <2>2
<1>2. CASE x < h
  <2>1. x - h + N \in 0..(N - 1) /\ h + (x - h + N) = x + N
    BY <1>2
  <2>2. (x + N) % N = x
    OBVIOUS
  <2>3. QED
    BY <2>1, <2>2
<1>3. QED
  BY <1>1, <1>2

\* Around the subnets from its hash on, a network finds a free one if there is one.
LEMMA AllocatedIsFree ==
  ASSUME NEW n \in UserNets, ~(0..(Subnets - 1) \subseteq Taken)
  PROVE  Allocated(n) \in 0..(Subnets - 1) /\ Allocated(n) \notin Taken
<1> DEFINE free == {k \in 0..(Subnets - 1) : (Hash[n] + k) % Subnets \notin Taken}
<1>1. Hash[n] \in 0..(Subnets - 1) /\ Subnets \in Nat
  BY NetworkAssumption
<1>2. PICK x \in 0..(Subnets - 1) : x \notin Taken
  OBVIOUS
<1>3. PICK k \in 0..(Subnets - 1) : (Hash[n] + k) % Subnets = x
  BY <1>1, AroundReaches
<1>4. free \in SUBSET Nat /\ free # {}
  BY <1>1, <1>2, <1>3
<1> DEFINE least == CHOOSE j \in free : \A i \in free : j <= i
<1>5. least \in free
  <2> HIDE DEF free
  <2>1. \E j \in free : \A i \in free : j <= i
    BY <1>4, LeastNatural
  <2>2. QED
    BY <2>1
<1>6. Allocated(n) = (Hash[n] + least) % Subnets
  BY DEF Allocated
<1> HIDE DEF least
<1>7. least \in 0..(Subnets - 1) /\ (Hash[n] + least) % Subnets \notin Taken
  BY <1>5
<1>8. Subnets > 0 /\ Hash[n] + least \in Nat
  BY <1>1, <1>7
<1>9. (Hash[n] + least) % Subnets \in 0..(Subnets - 1)
  BY <1>1, <1>8
<1>10. QED
  BY <1>6, <1>7, <1>9

PoolInv == PoolTypeOK(Sources) /\ SubnetsDistinct

LEMMA PoolInitial == PoolInit => PoolInv
BY DEF PoolInit, PoolInv, PoolTypeOK, SubnetsDistinct, Unused

LEMMA AttachKeepsPool ==
  ASSUME PoolInv, source \in Sources, AttachNetwork
  PROVE  PoolInv'
<1>1. PICK i \in DOMAIN Networks[source] : Attach(source, Networks[source][i])
  BY DEF AttachNetwork
<1> DEFINE n == Networks[source][i]
<1>2. ~CannotAttach(source, Networks[source]) /\ Attach(source, n)
  BY <1>1 DEF AttachNetwork
<1> HIDE DEF n
<1>3. CASE /\ n \in SocketNets /\ ~Contains(sourceIds[n], source)
           /\ sourceIds' = [sourceIds EXCEPT ![n] = Append(@, source)] /\ UNCHANGED subnets
  <2>1. Len(sourceIds[n]) # 2
    BY <1>1, <1>2, <1>3 DEF CannotAttach, n
  <2>2. sourceIds[n] \in Seq(Sources) /\ Len(sourceIds[n]) <= 2
    BY <1>3 DEF PoolInv, PoolTypeOK, SubnetsDistinct
  <2>3. Append(sourceIds[n], source) \in Seq(Sources)
        /\ Len(Append(sourceIds[n], source)) <= 2
    <3>1. \A k \in Nat : k <= 2 /\ k # 2 => k <= 1
      OBVIOUS
    <3>2. Len(sourceIds[n]) \in Nat
      BY <2>2
    <3>3. Len(sourceIds[n]) <= 1
      BY <2>1, <2>2, <3>1, <3>2, Zenon
    <3>4. QED
      BY <2>2, <3>3
  <2>4. PoolTypeOK(Sources)'
    BY <1>3, <2>3 DEF PoolInv, PoolTypeOK, Unused
  <2>5. SubnetsDistinct'
    BY <1>3, <2>3 DEF PoolInv, PoolTypeOK, SubnetsDistinct, Unused
  <2>6. QED
    BY <2>4, <2>5 DEF PoolInv
<1>4. CASE /\ n \in UserNets /\ subnets[n] = Unused
           /\ subnets' = [subnets EXCEPT ![n] = Allocated(n)] /\ UNCHANGED sourceIds
  <2>1. ~(0..(Subnets - 1) \subseteq Taken)
    BY <1>1, <1>2, <1>4 DEF CannotAttach, n
  <2>2. Allocated(n) \in 0..(Subnets - 1) /\ Allocated(n) \notin Taken
    BY <1>4, <2>1, AllocatedIsFree
  <2>3. PoolTypeOK(Sources)'
    BY <1>4, <2>2 DEF PoolInv, PoolTypeOK, Unused
  <2>4. \A m \in UserNets \ {n} : subnets'[m] = subnets[m] /\ subnets[m] # Allocated(n)
    BY <1>4, <2>2 DEF Taken, PoolInv, PoolTypeOK
  <2>5. subnets'[n] = Allocated(n)
    BY <1>4 DEF PoolInv, PoolTypeOK
  <2>6. SubnetsDistinct'
    BY <1>4, <2>4, <2>5 DEF PoolInv, SubnetsDistinct, Unused
  <2>7. QED
    BY <2>3, <2>6 DEF PoolInv
<1>5. QED
  BY <1>2, <1>3, <1>4 DEF Attach
------------------------------------------------------------------------------
(***************************************************************************)
(* The monitor and its client.                                             *)
(***************************************************************************)

Values == {"ok", "error", "inmigrate", "running", "paused", "postmigrate", "none",
           "loading", "active", "completed", "failed"}
Reply(v) == [of |-> Script[op][at], value |-> v]

\* What an answer the client has not read yet says is still so.
Believable(v) ==
  /\ op = "save" =>
       /\ at = 3 /\ v = "paused" => runState \in {"paused", "postmigrate"}
       /\ at = 4 => flushed
       /\ at = 6 => v = "error" \/ migration \in {"active", "completed", "failed"}
       /\ at = 7 => /\ v \in {"active", "completed", "failed"}
                    /\ v = "completed" => migration = "completed"
  /\ op = "resume" =>
       /\ at = 4 /\ v \in {"paused", "running"} => runState = v
       /\ at = 5 => runState = v
       /\ at = 6 => runState = "running"

\* One answer at a time, with an event before it at most.
InboxShape ==
  \/ inbox = <<>> \/ inbox = <<Event>>
  \/ /\ op # "none" /\ request = "none"
     /\ \E v \in Values : Believable(v) /\ (inbox = <<Reply(v)>> \/ inbox = <<Event, Reply(v)>>)

\* What the place in the script says about QEMU.
PlaceKnown ==
  /\ op = "none" => at = 0 /\ ~open /\ inbox = <<>>
  /\ op # "none" => at \in 1..Len(Script[op]) /\ open /\ request \in {"none", Script[op][at]}
  /\ op = "save" => /\ at >= 4 => runState \in {"paused", "postmigrate"}
                    /\ at >= 5 => flushed
                    /\ at >= 7 => migration \in {"active", "completed", "failed"}
  /\ op = "resume" => /\ migration # "active"
                      /\ at >= 5 => runState \in {"paused", "running"}
  /\ migration = "loading" => runState = "inmigrate"

QmpInv == QmpTypeOK /\ InboxShape /\ PlaceKnown

LEMMA ScriptFacts ==
  /\ Ops = {"save", "resume"}
  /\ Len(Script["save"]) = 7 /\ Len(Script["resume"]) = 6
  /\ Script["save"][1] = "qmp_capabilities" /\ Script["save"][2] = "stop"
  /\ Script["save"][3] = "query-status" /\ Script["save"][4] = "flush"
  /\ Script["save"][5] = "compress" /\ Script["save"][6] = "migrate"
  /\ Script["save"][7] = "query-migrate"
  /\ Script["resume"][1] = "qmp_capabilities" /\ Script["resume"][2] = "compress"
  /\ Script["resume"][3] = "migrate-incoming" /\ Script["resume"][4] = "query-status"
  /\ Script["resume"][5] = "query-status" /\ Script["resume"][6] = "cont"
BY DEF Ops, Script

LEMMA ScriptCommands ==
  ASSUME NEW o \in Ops, NEW i \in 1..Len(Script[o])
  PROVE  Script[o][i] \in Commands /\ Script[o][i] # "event"
<1>1. DOMAIN Script[o] = 1..Len(Script[o])
  BY DEF Ops, Script
<1>2. Script[o][i] \in Commands
  BY <1>1 DEF Commands, ToSet
<1>3. Script[o][i] # "event"
  <2>1. CASE o = "save"
    <3>1. i \in 1..7
      BY <2>1, ScriptFacts
    <3>2. QED
      BY <2>1, <3>1, ScriptFacts
  <2>2. CASE o = "resume"
    <3>1. i \in 1..6
      BY <2>2, ScriptFacts
    <3>2. QED
      BY <2>2, <3>1, ScriptFacts
  <2>3. QED
    BY <2>1, <2>2, ScriptFacts
<1>4. QED
  BY <1>2, <1>3

LEMMA OneTuple ==
  ASSUME NEW a
  PROVE  <<a>> # <<>> /\ Head(<<a>>) = a /\ Tail(<<a>>) = <<>> /\ Append(<<>>, a) = <<a>>
<1>1. <<a>> # <<>> /\ Append(<<>>, a) = <<a>>
  OBVIOUS
<1>2. Head(<<a>>) = a /\ Tail(<<a>>) = <<>>
  OBVIOUS
<1>3. QED
  BY <1>1, <1>2

LEMMA TwoTuple ==
  ASSUME NEW a, NEW b
  PROVE  Head(<<a, b>>) = a /\ Tail(<<a, b>>) = <<b>> /\ Append(<<a>>, b) = <<a, b>>
<1>1. Head(<<a, b>>) = a
  OBVIOUS
<1>2. Tail(<<a, b>>) = <<b>>
  OBVIOUS
<1>3. Append(<<a>>, b) = <<a, b>>
  <2> DEFINE S == {a, b}
             s == Append(<<a>>, b)
  <2>1. <<a>> \in Seq(S) /\ b \in S /\ <<a, b>> \in Seq(S) /\ Len(<<a>>) = 1
    OBVIOUS
  <2>2. s \in Seq(S) /\ Len(s) = 2 /\ s[1] = a /\ s[2] = b
    BY <2>1, AppendProperties
  <2>3. Len(<<a, b>>) = 2 /\ <<a, b>>[1] = a /\ <<a, b>>[2] = b
    OBVIOUS
  <2> HIDE DEF s, S
  <2>4. \A i \in 1..2 : s[i] = <<a, b>>[i]
    BY <2>2, <2>3
  <2>5. QED
    BY <2>1, <2>2, <2>3, <2>4, SeqEqual DEF s
<1>4. QED
  BY <1>1, <1>2, <1>3

LEMMA ShortTuples ==
  ASSUME NEW S, NEW a \in S, NEW b \in S
  PROVE  /\ <<>> \in Seq(S) /\ Len(<<>>) <= 2
         /\ <<a>> \in Seq(S) /\ Len(<<a>>) <= 2
         /\ <<a, b>> \in Seq(S) /\ Len(<<a, b>>) <= 2
<1>1. <<>> \in Seq(S) /\ Len(<<>>) <= 2
  OBVIOUS
<1>2. <<a>> \in Seq(S) /\ Len(<<a>>) <= 2
  OBVIOUS
<1>3. <<a, b>> \in Seq(S) /\ Len(<<a, b>>) <= 2
  OBVIOUS
<1>4. QED
  BY <1>1, <1>2, <1>3

\* An answer that matches is a message and no event.
LEMMA ReplyType ==
  ASSUME NEW o \in Ops, o = op, at \in 1..Len(Script[o]), NEW v \in Values
  PROVE  Reply(v) \in Messages /\ Reply(v) # Event /\ Reply(v).value = v
BY ScriptCommands DEF Reply, Messages, Event, Values

LEMMA InboxType ==
  ASSUME InboxShape, op # "none" => op \in Ops /\ at \in 1..Len(Script[op])
  PROVE  inbox \in Seq(Messages) /\ Len(inbox) <= 2
<1>1. Event \in Messages
  BY DEF Messages
<1>2. CASE inbox = <<>> \/ inbox = <<Event>>
  BY <1>1, <1>2, ShortTuples, Zenon
<1>3. ASSUME NEW v \in Values, op # "none", inbox = <<Reply(v)>> \/ inbox = <<Event, Reply(v)>>
      PROVE  inbox \in Seq(Messages) /\ Len(inbox) <= 2
  <2>1. Reply(v) \in Messages
    BY <1>3, ReplyType
  <2>2. QED
    BY <1>1, <1>3, <2>1, ShortTuples, Zenon
<1>4. QED
  BY <1>2, <1>3 DEF InboxShape

LEMMA AnswersAreMatched == QmpInv => AnswersMatch
<1> SUFFICES ASSUME QmpInv, NEW i \in DOMAIN inbox, op # "none", inbox[i] # Event
             PROVE  inbox[i].of = Script[op][at]
  BY DEF AnswersMatch
<1>1. CASE inbox = <<>> \/ inbox = <<Event>>
  BY <1>1
<1>2. ASSUME NEW v \in Values, inbox = <<Reply(v)>> \/ inbox = <<Event, Reply(v)>>
      PROVE  inbox[i] = Reply(v)
  BY <1>2
<1>3. QED
  BY <1>1, <1>2 DEF QmpInv, InboxShape, Reply

LEMMA ConnectQmp ==
  ASSUME QmpInv, NEW o \in Ops, Connect(o), o = "resume" => migration # "active"
  PROVE  QmpInv' /\ op' = o
<1>1. op' = o /\ at' = 1 /\ inbox' = <<>> /\ open' /\ request' = Script[o][1]
      /\ UNCHANGED <<runState, migration, flushed>>
  BY DEF Connect, Sent, monitorVars
<1>2. request' \in Commands /\ 1 \in 1..Len(Script[o])
  BY <1>1, ScriptFacts, ScriptCommands
<1>3. o # "none"
  BY ScriptFacts
<1>4. PlaceKnown'
  BY <1>1, <1>2, <1>3 DEF QmpInv, PlaceKnown
<1>5. InboxShape' /\ QmpTypeOK'
  BY <1>1, <1>2 DEF InboxShape, QmpInv, QmpTypeOK, Connect, Sent
<1>6. QED
  BY <1>1, <1>4, <1>5 DEF QmpInv

LEMMA CloseQmp ==
  ASSUME QmpInv, Close, UNCHANGED monitorVars
  PROVE  QmpInv' /\ op' = "none" /\ UNCHANGED <<request, runState, migration, flushed>>
<1>1. op' = "none" /\ at' = 0 /\ open' = FALSE /\ UNCHANGED <<request, runState, migration, flushed>>
  BY DEF Close, monitorVars
<1>2. inbox' = <<>>
  BY DEF Close
<1>3. inbox' \in Seq(Messages) /\ Len(inbox') <= 2
  BY <1>2
<1>4. op' \in Ops \cup {"none"} /\ at' \in 0..7 /\ open' \in BOOLEAN
  <2>1. op' \in Ops \cup {"none"} /\ at' \in 0..7
    BY <1>1
  <2>2. open' \in BOOLEAN
    BY <1>1
  <2>3. QED
    BY <2>1, <2>2
<1>5. QmpTypeOK'
  BY <1>1, <1>3, <1>4 DEF QmpInv, QmpTypeOK
<1>6. InboxShape' /\ PlaceKnown'
  BY <1>1, <1>2 DEF QmpInv, InboxShape, PlaceKnown
<1>7. QED
  BY <1>1, <1>5, <1>6 DEF QmpInv

LEMMA SkipQmp ==
  ASSUME QmpInv, SkipEvent
  PROVE  QmpInv' /\ UNCHANGED <<op, request, runState, migration, flushed>>
<1>1. UNCHANGED <<op, at, request, open, runState, migration, flushed>> /\ op # "none"
      /\ inbox # <<>> /\ Head(inbox) = Event /\ inbox' = Tail(inbox)
  BY DEF SkipEvent, monitorVars
<1>2. InboxShape'
  <2>1. CASE inbox = <<Event>>
    BY <1>1, <2>1, OneTuple DEF InboxShape
  <2>2. ASSUME NEW v \in Values, Believable(v), request = "none",
               inbox = <<Reply(v)>> \/ inbox = <<Event, Reply(v)>>
        PROVE  InboxShape'
    <3>1. Reply(v) # Event
      BY <1>1, ReplyType DEF QmpInv, QmpTypeOK, PlaceKnown
    <3>2. inbox' = <<Reply(v)>>
      <4>1. CASE inbox = <<Reply(v)>>
        BY <1>1, <3>1, <4>1, OneTuple, Zenon
      <4>2. CASE inbox = <<Event, Reply(v)>>
        BY <1>1, <4>2, TwoTuple, Zenon
      <4>3. QED
        BY <2>2, <4>1, <4>2
    <3>3. Reply(v)' = Reply(v) /\ Believable(v)' = Believable(v)
      BY <1>1 DEF Reply, Believable
    <3>4. QED
      BY <1>1, <2>2, <3>2, <3>3 DEF InboxShape
  <2>3. QED
    BY <1>1, <2>1, <2>2 DEF QmpInv, InboxShape
<1>3. PlaceKnown'
  BY <1>1 DEF QmpInv, PlaceKnown
<1>4. inbox' \in Seq(Messages) /\ Len(inbox') <= 2
  BY <1>1, <1>2, InboxType DEF QmpInv, QmpTypeOK, PlaceKnown
<1>5. QED
  BY <1>1, <1>2, <1>3, <1>4 DEF QmpInv, QmpTypeOK

\* The answer that is read: one that came, and is believable.
LEMMA ReadAnswer ==
  ASSUME QmpInv, Answered
  PROVE  \E v \in Values : /\ inbox = <<Reply(v)>> /\ Head(inbox).value = v /\ Tail(inbox) = <<>>
                           /\ Believable(v) /\ request = "none"
<1>1. op # "none" /\ inbox # <<>> /\ Head(inbox) # Event
  BY DEF Answered
<1>2. inbox # <<Event>> /\ \A a : inbox # <<Event, a>>
  BY <1>1, OneTuple, TwoTuple, Zenon
<1>3. PICK v \in Values : Believable(v) /\ inbox = <<Reply(v)>> /\ request = "none"
  BY <1>1, <1>2 DEF QmpInv, InboxShape
<1>4. Head(inbox) = Reply(v) /\ Tail(inbox) = <<>>
  BY <1>3, OneTuple, Zenon
<1>5. Reply(v).value = v
  BY DEF Reply
<1>6. QED
  BY <1>3, <1>4, <1>5

LEMMA ProceedQmp ==
  ASSUME QmpInv, Proceed
  PROVE  QmpInv' /\ UNCHANGED <<op, runState, migration, flushed>>
<1>1. PICK v \in Values : /\ inbox = <<Reply(v)>> /\ Head(inbox).value = v /\ Tail(inbox) = <<>>
                          /\ Believable(v) /\ request = "none"
  BY ReadAnswer DEF Proceed
<1>2. UNCHANGED <<op, runState, migration, flushed>> /\ op # "none" /\ open'
      /\ request' = Script[op][at'] /\ ~Refused(v) /\ (Stay(v) \/ ~IsLast(v))
      /\ at' = IF Stay(v) THEN at ELSE at + 1
  BY <1>1 DEF Proceed, Sent, monitorVars, Answered
<1>3. inbox' = <<>>
  BY <1>1 DEF Proceed
<1>4. op \in Ops /\ at \in 1..Len(Script[op])
  BY <1>2 DEF QmpInv, QmpTypeOK, PlaceKnown
<1>5. at' \in 1..Len(Script[op])
  BY <1>2, <1>4, ScriptFacts DEF IsLast
<1>6. request' \in Commands /\ at' \in 0..7
  <2>1. request' \in Commands
    BY <1>2, <1>4, <1>5, ScriptCommands
  <2>2. Len(Script[op]) \in {6, 7}
    <3>1. CASE op = "save"
      BY <3>1, ScriptFacts
    <3>2. CASE op = "resume"
      BY <3>2, ScriptFacts
    <3>3. QED
      BY <1>4, <3>1, <3>2, ScriptFacts
  <2>3. at' \in 0..7
    <3>1. CASE Len(Script[op]) = 6
      <4>1. at' \in 1..6
        BY <1>5, <3>1
      <4>2. QED
        BY <4>1
    <3>2. CASE Len(Script[op]) = 7
      <4>1. at' \in 1..7
        BY <1>5, <3>2
      <4>2. QED
        BY <4>1
    <3>3. QED
      BY <2>2, <3>1, <3>2
  <2>4. QED
    BY <2>1, <2>3
<1>7. inbox' \in Seq(Messages) /\ Len(inbox') <= 2
  BY <1>3
<1>8. QmpTypeOK'
  <2>1. open' \in BOOLEAN
    BY DEF Proceed, Sent
  <2>2. QED
    BY <1>2, <1>6, <1>7, <2>1 DEF QmpInv, QmpTypeOK
<1>9. PlaceKnown'
  <2>1. CASE op = "save"
    <3>1. at \in 1..7
      BY <1>4, <2>1, ScriptFacts
    <3>2. at' >= 4 => runState \in {"paused", "postmigrate"}
      BY <1>1, <1>2, <2>1, <3>1 DEF Stay, Believable, QmpInv, PlaceKnown
    <3>3. at' >= 5 => flushed
      BY <1>1, <1>2, <2>1, <3>1 DEF Stay, Believable, QmpInv, PlaceKnown
    <3>4. at' >= 7 => migration \in {"active", "completed", "failed"}
      BY <1>1, <1>2, <2>1, <3>1 DEF Stay, Refused, Believable, QmpInv, PlaceKnown
    <3>5. QED
      BY <1>2, <1>5, <2>1, <3>2, <3>3, <3>4 DEF QmpInv, PlaceKnown
  <2>2. CASE op = "resume"
    <3>1. at \in 1..6
      BY <1>4, <2>2, ScriptFacts
    <3>2. at' >= 5 => runState \in {"paused", "running"}
      BY <1>1, <1>2, <2>2, <3>1 DEF Stay, Believable, QmpInv, PlaceKnown
    <3>3. QED
      BY <1>2, <1>5, <2>2, <3>2 DEF QmpInv, PlaceKnown
  <2>3. QED
    BY <1>4, <2>1, <2>2, ScriptFacts
<1>10. QED
  BY <1>2, <1>3, <1>8, <1>9 DEF QmpInv, InboxShape

\* A script that has ended well has done what it was for.
LEMMA FinishQmp ==
  ASSUME QmpInv, Finishes
  PROVE  /\ QmpInv' /\ op' = "none" /\ op # "none" /\ request = "none"
         /\ UNCHANGED <<request, runState, migration, flushed>>
         /\ op = "save" => migration = "completed" /\ flushed
         /\ op = "resume" => runState = "running"
<1>1. PICK v \in Values : /\ inbox = <<Reply(v)>> /\ Head(inbox).value = v /\ Tail(inbox) = <<>>
                          /\ Believable(v) /\ request = "none"
  BY ReadAnswer DEF Finishes
<1>2. ~Refused(v) /\ ~Stay(v) /\ IsLast(v) /\ op # "none"
  BY <1>1 DEF Finishes, Answered
<1>3. op = "save" => migration = "completed" /\ flushed
  <2>1. op = "save" => at = 7
    BY <1>2, ScriptFacts DEF IsLast
  <2>2. QED
    BY <1>1, <1>2, <2>1 DEF Refused, Stay, Believable, QmpInv, PlaceKnown
<1>4. op = "resume" => runState = "running"
  <2>1. op = "resume" => at = 6 \/ (at = 5 /\ v # "paused")
    BY <1>2, ScriptFacts DEF IsLast
  <2>2. op = "resume" /\ at = 5 => runState \in {"paused", "running"}
    BY DEF QmpInv, PlaceKnown
  <2>3. QED
    BY <1>1, <2>1, <2>2 DEF Believable
<1>5. QED
  BY <1>1, <1>2, <1>3, <1>4, CloseQmp DEF Finishes

LEMMA EventQmp ==
  ASSUME QmpInv, SendEvent
  PROVE  QmpInv' /\ UNCHANGED <<op, request, runState, migration, flushed>>
<1>1. UNCHANGED <<op, at, request, open, runState, migration, flushed>> /\ op # "none"
  BY DEF SendEvent, monitorVars
<1>2. inbox' = <<Event>>
  BY DEF SendEvent
<1>3. InboxShape'
  BY <1>2 DEF InboxShape
<1>4. PlaceKnown'
  BY <1>1 DEF QmpInv, PlaceKnown
<1>5. inbox' \in Seq(Messages) /\ Len(inbox') <= 2
  <2>1. Event \in Messages
    BY DEF Messages
  <2>2. QED
    BY <1>2, <2>1, ShortTuples, Zenon
<1>6. QED
  BY <1>1, <1>3, <1>4, <1>5 DEF QmpInv, QmpTypeOK

LEMMA MigrationQmp ==
  ASSUME QmpInv, MigrationEnds
  PROVE  /\ QmpInv' /\ UNCHANGED <<op, request, flushed>> /\ migration \in {"active", "loading"}
         /\ migration' \in {"completed", "failed"}
         /\ runState' # runState => migration = "active" \/ runState = "inmigrate"
<1>1. UNCHANGED <<op, at, request, open, inbox, flushed>>
  BY DEF MigrationEnds, clientVars
<1>2. PlaceKnown'
  BY <1>1 DEF MigrationEnds, QmpInv, QmpTypeOK, PlaceKnown
<1>3. InboxShape'
  <2>1. ASSUME NEW v \in Values, Believable(v), op # "none"
        PROVE  Believable(v)'
    BY <1>1, <2>1 DEF MigrationEnds, QmpInv, QmpTypeOK, PlaceKnown, Believable
  <2>2. \A v \in Values : Reply(v)' = Reply(v)
    BY <1>1 DEF Reply
  <2>3. QED
    BY <1>1, <2>1, <2>2 DEF QmpInv, InboxShape
<1>4. QmpTypeOK'
  BY <1>1 DEF MigrationEnds, QmpInv, QmpTypeOK
<1>5. QED
  BY <1>1, <1>2, <1>3, <1>4 DEF MigrationEnds, QmpInv, QmpTypeOK, PlaceKnown

\* What a command does to QEMU, and what its answer says, at each place.
LEMMA HandledBelievable ==
  ASSUME QmpInv, Handle, op # "none", NEW v, v = Answer(request)
  PROVE  v \in Values /\ Believable(v)'
<1>1. UNCHANGED <<op, at>> /\ request = Script[op][at] /\ op \in Ops /\ at \in 1..Len(Script[op])
  BY DEF Handle, QmpInv, QmpTypeOK, PlaceKnown
<1>2. /\ runState' = IF request = "stop" /\ runState = "running" THEN "paused"
                     ELSE IF request = "cont" /\ runState = "paused" THEN "running"
                     ELSE runState
      /\ migration' = IF v # "ok" THEN migration
                      ELSE IF request = "migrate" THEN "active"
                      ELSE IF request = "migrate-incoming" THEN "loading"
                      ELSE migration
      /\ flushed' = ((flushed \/ request = "flush") /\ runState' # "running")
  BY DEF Handle
<1>3. v \in Values
  BY DEF Answer, Values, QmpInv, QmpTypeOK
<1>4. CASE op = "save"
  <2>1. at = 3 => request = "query-status"
    BY <1>1, <1>4, ScriptFacts
  <2>2. at = 4 => request = "flush" /\ runState \in {"paused", "postmigrate"}
    BY <1>1, <1>4, ScriptFacts DEF QmpInv, PlaceKnown
  <2>3. at = 6 => request = "migrate"
    BY <1>1, <1>4, ScriptFacts
  <2>4. at = 7 => request = "query-migrate" /\ migration \in {"active", "completed", "failed"}
    BY <1>1, <1>4, ScriptFacts DEF QmpInv, PlaceKnown
  <2>5. at = 3 /\ v = "paused" => runState' \in {"paused", "postmigrate"}
    BY <1>2, <2>1 DEF Answer
  <2>6. at = 4 => flushed'
    BY <1>2, <2>2
  <2>7. at = 6 => v = "error" \/ migration' = "active"
    BY <1>2, <2>3 DEF Answer
  <2>8. at = 7 => v = migration /\ migration' = migration
    BY <1>2, <2>4 DEF Answer
  <2>9. QED
    BY <1>1, <1>3, <1>4, <2>4, <2>5, <2>6, <2>7, <2>8 DEF Believable
<1>5. CASE op = "resume"
  <2>1. at \in {4, 5} => request = "query-status"
    BY <1>1, <1>5, ScriptFacts
  <2>2. at = 6 => request = "cont" /\ runState \in {"paused", "running"}
    BY <1>1, <1>5, ScriptFacts DEF QmpInv, PlaceKnown
  <2>3. at \in {4, 5} => runState' = v
    BY <1>2, <2>1 DEF Answer
  <2>4. at = 6 => runState' = "running"
    BY <1>2, <2>2
  <2>5. QED
    BY <1>1, <1>3, <1>5, <2>3, <2>4 DEF Believable
<1>6. QED
  BY <1>1, <1>4, <1>5, ScriptFacts

LEMMA HandleQmp ==
  ASSUME QmpInv, Handle
  PROVE  QmpInv' /\ UNCHANGED op /\ request # "none"
<1>0. PICK v : v = Answer(request)
  OBVIOUS
<1>1. UNCHANGED <<op, at, open>> /\ request # "none" /\ request' = "none"
  BY DEF Handle
<1>2. /\ runState' = IF request = "stop" /\ runState = "running" THEN "paused"
                     ELSE IF request = "cont" /\ runState = "paused" THEN "running"
                     ELSE runState
      /\ migration' = IF v # "ok" THEN migration
                      ELSE IF request = "migrate" THEN "active"
                      ELSE IF request = "migrate-incoming" THEN "loading"
                      ELSE migration
      /\ flushed' = ((flushed \/ request = "flush") /\ runState' # "running")
  BY <1>0 DEF Handle
<1>3. inbox = <<>> \/ inbox = <<Event>>
  BY <1>1 DEF QmpInv, InboxShape
<1>4. InboxShape'
  <2>1. CASE op = "none"
    BY <1>1, <2>1 DEF Handle, QmpInv, PlaceKnown, InboxShape
  <2>2. CASE op # "none"
    <3>1. request = Script[op][at] /\ open
      BY <1>1, <2>2 DEF QmpInv, PlaceKnown
    <3>2. inbox' = Append(inbox, Reply(v))
      BY <1>0, <3>1 DEF Handle, Reply
    <3>3. inbox' = <<Reply(v)>> \/ inbox' = <<Event, Reply(v)>>
      BY <1>3, <3>2, OneTuple, TwoTuple, ZenonT(30)
    <3>4. Reply(v)' = Reply(v) /\ v \in Values /\ Believable(v)'
      BY <1>0, <1>1, <2>2, HandledBelievable DEF Reply
    <3>5. QED
      BY <1>1, <2>2, <3>3, <3>4 DEF InboxShape, Reply
  <2>3. QED
    BY <2>1, <2>2
<1>5. migration' = "loading" => runState' = "inmigrate"
  BY <1>0, <1>2 DEF Answer, QmpInv, PlaceKnown
<1>6. PlaceKnown'
  <2>1. CASE op = "none"
    BY <1>1, <1>5, <2>1 DEF Handle, QmpInv, PlaceKnown
  <2>2. CASE op = "save"
    <3>1. request = Script["save"][at] /\ at \in 1..7
      BY <1>1, <2>2, ScriptFacts DEF QmpInv, PlaceKnown
    <3>2. at >= 4 => request \notin {"stop", "cont"} /\ runState \in {"paused", "postmigrate"}
      BY <2>2, <3>1, ScriptFacts DEF QmpInv, PlaceKnown
    <3>3. at >= 7 => request = "query-migrate" /\ migration \in {"active", "completed", "failed"}
      BY <2>2, <3>1, ScriptFacts DEF QmpInv, PlaceKnown
    <3>4. at >= 4 => runState' \in {"paused", "postmigrate"}
      BY <1>2, <3>2
    <3>5. at >= 5 => flushed'
      <4>1. at >= 5 => flushed /\ at >= 4
        BY <2>2, <3>1 DEF QmpInv, PlaceKnown
      <4>2. QED
        BY <1>2, <3>4, <4>1
    <3>6. at >= 7 => migration' \in {"active", "completed", "failed"}
      BY <1>2, <3>3
    <3>7. QED
      BY <1>1, <1>5, <2>2, <3>4, <3>5, <3>6 DEF QmpInv, PlaceKnown
  <2>3. CASE op = "resume"
    <3>1. request = Script["resume"][at] /\ at \in 1..6
      BY <1>1, <2>3, ScriptFacts DEF QmpInv, PlaceKnown
    <3>2. request # "migrate" /\ migration # "active"
      BY <2>3, <3>1, ScriptFacts DEF QmpInv, PlaceKnown
    <3>3. migration' # "active"
      BY <1>2, <3>2
    <3>4. at >= 5 => runState' \in {"paused", "running"}
      BY <1>2, <2>3 DEF QmpInv, PlaceKnown
    <3>5. QED
      BY <1>1, <1>5, <2>3, <3>3, <3>4 DEF QmpInv, PlaceKnown
  <2>4. QED
    BY <2>1, <2>2, <2>3, ScriptFacts DEF QmpInv, QmpTypeOK
<1>7. inbox' \in Seq(Messages) /\ Len(inbox') <= 2
  <2>1. Event \in Messages
    BY DEF Messages
  <2>2. CASE op = "none"
    BY <2>2 DEF Handle, QmpInv, QmpTypeOK, PlaceKnown
  <2>3. CASE op # "none"
    <3>1. request = Script[op][at] /\ open /\ op \in Ops /\ at \in 1..Len(Script[op])
      BY <1>1, <2>3 DEF QmpInv, QmpTypeOK, PlaceKnown
    <3>2. inbox' = Append(inbox, Reply(v))
      BY <1>0, <3>1 DEF Handle, Reply
    <3>3. Reply(v) \in Messages
      BY <1>0, <2>3, <3>1, HandledBelievable, ReplyType
    <3>4. inbox' = <<Reply(v)>> \/ inbox' = <<Event, Reply(v)>>
      BY <1>3, <3>2, OneTuple, TwoTuple, ZenonT(30)
    <3>5. QED
      BY <2>1, <3>3, <3>4, ShortTuples, Zenon
  <2>4. QED
    BY <2>2, <2>3
<1>8. runState' \in {"inmigrate", "running", "paused", "postmigrate"} /\ flushed' \in BOOLEAN
      /\ migration' \in {"none", "loading", "active", "completed", "failed"}
  BY <1>2 DEF QmpInv, QmpTypeOK
<1>9. QmpTypeOK'
  BY <1>1, <1>7, <1>8 DEF QmpInv, QmpTypeOK
<1>10. QED
  BY <1>1, <1>4, <1>6, <1>9 DEF QmpInv

\* The session opens a client where it should, and closes it.
Early == {"overlay", "attach", "image", "spawn", "spawnCancelled", "spawnEnded",
          "stopSpawned", "resume", "screen", "ready"}

ClientInPlace ==
  /\ op = "resume" => step = "resume"
  /\ op = "save" => step \in {"save", "failing"}
  /\ step \in Early => migration # "active" /\ (op = "none" => request = "none")
  /\ saved => /\ step \in {"close", "stop", "idle", "stopAll", "over"}
              /\ request = "none" /\ migration = "completed" /\ flushed
  /\ step \in {"screen", "ready"} /\ incoming => runState = "running"

------------------------------------------------------------------------------
(* The process *)

ProcessInv ==
  /\ NeverUntracked
  /\ step \in {"overlay", "attach", "image", "spawn", "spawnCancelled"} =>
       proc = "none" /\ stopTask = "none" /\ stopWaits = "none"
  /\ step = "spawnEnded" => stopTask = "none" /\ stopWaits = "none"
  /\ step \in {"resume", "screen", "ready", "save", "failing", "close"} =>
       active /\ stopWaits = "none"
  /\ stopTask = "done" => proc # "running"
  /\ stopTask = "dropped" => signal = "KILL" /\ failed
  /\ stopWaits = "again" => signal = "KILL"
  /\ step = "idle" /\ ~failed => proc # "running"

SessionTypeOK ==
  /\ step \in Steps /\ source \in Sources /\ incoming \in BOOLEAN
  /\ proc \in {"none", "running", "dead"} /\ signal \in {"none", "TERM", "KILL"}
  /\ active \in BOOLEAN /\ saved \in BOOLEAN /\ failed \in BOOLEAN
  /\ stopTask \in {"none", "term", "kill", "done", "dropped"}
  /\ stopWaits \in {"none", "first", "again"}
  /\ starts \in 0..MaxStarts /\ cancels \in 0..MaxCancels

IInv == SessionTypeOK /\ ProcessInv /\ PoolInv /\ QmpInv /\ ClientInPlace

LEMMA SessionInitial == Init => IInv
<1> SUFFICES ASSUME Init
             PROVE  IInv
  OBVIOUS
<1>1. SessionTypeOK
  <2>1. starts \in 0..MaxStarts /\ cancels \in 0..MaxCancels
    BY SessionAssumption DEF Init
  <2>2. QED
    BY <2>1 DEF Init, SessionTypeOK, Steps
<1>2. ProcessInv /\ ClientInPlace
  BY DEF Init, QmpInit, ProcessInv, NeverUntracked, ClientInPlace, Early
<1>3. PoolInv
  BY PoolInitial DEF Init
<1>4. QmpInv
  <2>1. inbox = <<>>
    BY DEF Init, QmpInit
  <2>2. inbox \in Seq(Messages) /\ Len(inbox) <= 2
    BY <2>1
  <2>3. QmpTypeOK
    <3>1. op = "none" /\ at = 0 /\ request = "none" /\ open = FALSE /\ flushed = FALSE
          /\ runState = "running" /\ migration = "none"
      BY DEF Init, QmpInit
    <3>2. op \in Ops \cup {"none"} /\ at \in 0..7 /\ request \in Commands \cup {"none"}
      BY <3>1
    <3>3. open \in BOOLEAN /\ flushed \in BOOLEAN
      BY <3>1
    <3>4. QED
      BY <2>2, <3>1, <3>2, <3>3 DEF QmpTypeOK
  <2>4. InboxShape
    BY <2>1 DEF InboxShape
  <2>5. PlaceKnown
    BY DEF Init, QmpInit, PlaceKnown
  <2>6. QED
    BY <2>3, <2>4, <2>5 DEF QmpInv
<1>5. QED
  BY <1>1, <1>2, <1>3, <1>4 DEF IInv

\* The task and the process.
ProcessKept == SessionTypeOK' /\ ProcessInv'

LEMMA StartProcess ==
  ASSUME SessionTypeOK, ProcessInv, Start
  PROVE  ProcessKept
<1>1. starts' \in 0..MaxStarts /\ cancels' \in 0..MaxCancels
  BY SessionAssumption DEF Start, SessionTypeOK
<1>2. source' \in Sources /\ incoming' \in BOOLEAN /\ failed' \in BOOLEAN
  BY DEF Start, SessionTypeOK
<1>3. SessionTypeOK'
  BY <1>1, <1>2 DEF Start, SessionTypeOK, Steps, Starting
<1>4. ProcessInv'
  BY DEF Start, ProcessInv, NeverUntracked
<1>5. QED
  BY <1>3, <1>4 DEF ProcessKept

LEMMA TaskProcess ==
  ASSUME SessionTypeOK, ProcessInv, TaskStep
  PROVE  ProcessKept
<1> USE DEF SessionTypeOK, ProcessInv, ProcessKept, NeverUntracked, Steps, Starting, Goto, Abort,
            procVars, taskVars
<1>1. CASE OverlayCreated \/ AttachNetwork \/ NetworksAttached \/ ImageResolved
  BY <1>1 DEF OverlayCreated, AttachNetwork, NetworksAttached, ImageResolved
<1>2. CASE StartFails
  BY <1>2 DEF StartFails
<1>3. CASE SpawnEnds \/ Spawned
  BY <1>3 DEF SpawnEnds, Spawned, StopBegins
<1>4. CASE OpenClient("resume") \/ OpenClient("save") \/ OpenFailing \/ ClientReads
  BY <1>4 DEF OpenClient, OpenFailing, ClientReads
<1>5. CASE Resumed \/ ScreenReady \/ BodyEnds
  BY <1>5, ZenonT(30) DEF Resumed, ScreenReady, BodyEnds
<1>6. CASE GuestFails
  BY <1>6 DEF GuestFails, StopBegins
<1>7. CASE Saved \/ SaveFails
  BY <1>7, ZenonT(30) DEF Saved, SaveFails
<1>8. CASE Closed
  BY <1>8 DEF Closed, StopBegins
<1>9. QED
  BY <1>1, <1>2, <1>3, <1>4, <1>5, <1>6, <1>7, <1>8 DEF TaskStep

LEMMA StopProcess ==
  ASSUME SessionTypeOK, ProcessInv, StopStep \/ StopAll
  PROVE  ProcessKept
<1> USE DEF SessionTypeOK, ProcessInv, ProcessKept, NeverUntracked, Steps, Starting, Goto,
            procVars, taskVars
<1>1. CASE StopTimesOut \/ Reaped
  BY <1>1 DEF StopTimesOut, Reaped
<1>2. CASE StopReturns
  BY <1>2 DEF StopReturns, Stopping
<1>3. CASE StopAll
  BY <1>3 DEF StopAll, StopBegins
<1>4. QED
  BY <1>1, <1>2, <1>3 DEF StopStep

LEMMA CancelProcess ==
  ASSUME SessionTypeOK, ProcessInv, Cancel
  PROVE  ProcessKept
<1> USE DEF SessionTypeOK, ProcessInv, ProcessKept, NeverUntracked, Steps, Starting, Abort,
            procVars, taskVars
<1>1. cancels' \in 0..MaxCancels
  BY SessionAssumption DEF Cancel
<1>2. CASE CancelStart
  BY <1>1, <1>2 DEF CancelStart, StopBegins
<1>3. CASE CancelSpawn \/ CancelStopSpawned \/ CancelUse
  BY <1>1, <1>3, ZenonT(30) DEF CancelSpawn, CancelStopSpawned, CancelUse
<1>4. CASE CancelStop
  BY <1>1, <1>4 DEF CancelStop, Stopping
<1>5. QED
  BY <1>2, <1>3, <1>4 DEF Cancel

LEMMA QemuProcess ==
  ASSUME SessionTypeOK, ProcessInv, Exits \/ Monitor \/ UNCHANGED vars
  PROVE  ProcessKept
BY DEF Exits, Monitor, vars, taskVars, procVars, ProcessKept, SessionTypeOK, ProcessInv, NeverUntracked

\* The session and its monitor.
MonitorKept == QmpInv' /\ ClientInPlace'

\* Steps that leave the client and QEMU alone.
QuietStep ==
  \/ OverlayCreated \/ AttachNetwork \/ NetworksAttached \/ ImageResolved \/ StartFails
  \/ SpawnEnds \/ Spawned \/ ScreenReady \/ BodyEnds \/ Closed
  \/ StopStep \/ StopAll \/ CancelSpawn \/ CancelStopSpawned \/ CancelStop
  \/ Exits \/ UNCHANGED vars

LEMMA QuietKeepsQmp == QuietStep => UNCHANGED qmpVars
BY DEF QuietStep, OverlayCreated, AttachNetwork, NetworksAttached, ImageResolved, StartFails,
   SpawnEnds, Spawned, ScreenReady, BodyEnds, Closed, StopStep, StopTimesOut, Reaped, StopReturns,
   StopAll, CancelSpawn, CancelStopSpawned, CancelStop, Exits, vars

LEMMA ClientBusy ==
  ASSUME QmpInv, ClientInPlace
  PROVE  op \in {"none", "save", "resume"} /\ (op # "none" => step \in {"resume", "save", "failing"})
BY ScriptFacts DEF QmpInv, QmpTypeOK, ClientInPlace

LEMMA QuietMonitor ==
  ASSUME QmpInv, ClientInPlace, QuietStep
  PROVE  MonitorKept
<1>1. UNCHANGED <<op, at, request, open, inbox, runState, migration, flushed>>
  BY QuietKeepsQmp DEF qmpVars
<1>2. QmpInv'
  BY <1>1 DEF QmpInv, QmpTypeOK, InboxShape, PlaceKnown, Believable, Reply
<1>3. op # "none" => step \in {"resume", "save", "failing"}
  BY ClientBusy
<1>4. ClientInPlace'
  <2> USE <1>1, <1>3 DEF ClientInPlace, Early, Goto, Abort
  <2>1. CASE UNCHANGED <<step, incoming, saved>>
    BY <2>1
  <2>2. CASE OverlayCreated \/ NetworksAttached \/ ImageResolved
    BY <2>2 DEF OverlayCreated, NetworksAttached, ImageResolved
  <2>3. CASE StartFails
    BY <2>3 DEF StartFails
  <2>4. CASE SpawnEnds \/ Spawned
    BY <2>4 DEF SpawnEnds, Spawned
  <2>5. CASE ScreenReady
    BY <2>5 DEF ScreenReady
  <2>6. CASE BodyEnds
    BY <2>6 DEF BodyEnds
  <2>7. CASE Closed
    BY <2>7 DEF Closed
  <2>8. CASE StopReturns
    BY <2>1, <2>8 DEF StopReturns, Stopping, taskVars
  <2>9. CASE StopAll
    BY <2>9 DEF StopAll
  <2>10. CASE CancelSpawn
    BY <2>10 DEF CancelSpawn
  <2>11. CASE CancelStopSpawned
    BY <2>11 DEF CancelStopSpawned
  <2>12. AttachNetwork \/ StopTimesOut \/ Reaped \/ CancelStop \/ Exits \/ UNCHANGED vars
           => UNCHANGED <<step, incoming, saved>>
    BY DEF AttachNetwork, StopTimesOut, Reaped, CancelStop, Exits, vars, taskVars
  <2>13. QED
    BY <2>1, <2>2, <2>3, <2>4, <2>5, <2>6, <2>7, <2>8, <2>9, <2>10, <2>11, <2>12
       DEF QuietStep, StopStep
<1>5. QED
  BY <1>2, <1>4 DEF MonitorKept

LEMMA StartMonitor ==
  ASSUME Start
  PROVE  MonitorKept
<1>1. /\ op' = "none" /\ at' = 0 /\ request' = "none" /\ open' = FALSE
      /\ runState' \in {"inmigrate", "running"} /\ migration' = "none" /\ flushed' = FALSE
      /\ step' = "overlay" /\ saved' = FALSE
  BY DEF Start, Fresh
<1>2. inbox' = <<>>
  BY DEF Start, Fresh
<1>3. inbox' \in Seq(Messages) /\ Len(inbox') <= 2
  BY <1>2
<1>4. QmpTypeOK'
  <2>1. op' \in Ops \cup {"none"} /\ at' \in 0..7 /\ request' \in Commands \cup {"none"}
    BY <1>1
  <2>2. open' \in BOOLEAN /\ flushed' \in BOOLEAN
    BY <1>1
  <2>3. QED
    BY <1>1, <1>3, <2>1, <2>2 DEF QmpTypeOK
<1>5. InboxShape'
  BY <1>2 DEF InboxShape
<1>6. PlaceKnown'
  BY <1>1, <1>2 DEF PlaceKnown
<1>7. ClientInPlace'
  BY <1>1 DEF ClientInPlace, Early
<1>8. QED
  BY <1>4, <1>5, <1>6, <1>7 DEF MonitorKept, QmpInv

\* Steps of the client: it is opened, reads, and is closed.
LEMMA OpenMonitor ==
  ASSUME QmpInv, ClientInPlace, NEW o \in Ops,
         OpenClient(o) \/ (o = "save" /\ OpenFailing)
  PROVE  MonitorKept
<1>1. /\ UNCHANGED <<step, incoming, saved>> /\ Connect(o) /\ ~saved
      /\ \/ o = "resume" /\ step = "resume"
         \/ o = "save" /\ step \in {"save", "failing"}
  <2>1. o \in {"save", "resume"}
    BY ScriptFacts
  <2>2. QED
    BY <2>1 DEF OpenClient, OpenFailing, taskVars, ClientInPlace
<1>2. QmpInv' /\ op' = o
  BY <1>1, ConnectQmp DEF ClientInPlace, Early
<1>3. UNCHANGED <<runState, migration, flushed>>
  BY <1>1 DEF Connect, monitorVars
<1>4. ClientInPlace'
  BY <1>1, <1>2, <1>3 DEF ClientInPlace, Early
<1>5. QED
  BY <1>2, <1>4 DEF MonitorKept

LEMMA ReadMonitor ==
  ASSUME QmpInv, ClientInPlace, ClientReads
  PROVE  MonitorKept
<1>1. UNCHANGED <<step, incoming, saved>> /\ op # "none"
  BY DEF ClientReads, Proceed, Answered, SkipEvent, taskVars
<1>2. QmpInv' /\ UNCHANGED <<op, runState, migration, flushed>>
  BY ProceedQmp, SkipQmp DEF ClientReads
<1>3. ~saved
  BY <1>1, ClientBusy DEF ClientInPlace
<1>4. ClientInPlace'
  BY <1>1, <1>2, <1>3 DEF ClientInPlace
<1>5. QED
  BY <1>2, <1>4 DEF MonitorKept

LEMMA FinishMonitor ==
  ASSUME QmpInv, ClientInPlace, Resumed \/ Saved
  PROVE  MonitorKept
<1>1. /\ QmpInv' /\ op' = "none" /\ op # "none" /\ request = "none"
      /\ UNCHANGED <<request, runState, migration, flushed>>
      /\ op = "save" => migration = "completed" /\ flushed
      /\ op = "resume" => runState = "running"
  BY FinishQmp DEF Resumed, Saved
<1>2. CASE Resumed
  <2>1. op = "resume" /\ step = "resume" /\ step' = "screen" /\ UNCHANGED saved
    BY <1>1, <1>2, ClientBusy DEF Resumed, Goto, ClientInPlace
  <2>2. ClientInPlace'
    BY <1>1, <2>1 DEF ClientInPlace, Early
  <2>3. QED
    BY <1>1, <2>2 DEF MonitorKept
<1>3. CASE Saved
  <2>1. ClientInPlace'
    BY <1>1, <1>3 DEF Saved, ClientInPlace, Early
  <2>2. QED
    BY <1>1, <2>1 DEF MonitorKept
<1>4. QED
  BY <1>2, <1>3

LEMMA GiveUpMonitor ==
  ASSUME QmpInv, ClientInPlace,
         \/ GuestFails \/ SaveFails \/ CancelUse
         \/ step \in {"resume", "screen"} /\ Abort("stopFailed") /\ GivesUp
  PROVE  MonitorKept
<1>1. QmpInv' /\ op' = "none" /\ UNCHANGED <<request, runState, migration, flushed>>
  BY CloseQmp DEF GuestFails, SaveFails, CancelUse, GivesUp
<1>2. UNCHANGED saved /\ ~saved /\ step' \in {"stopFailed", "failing", "close"}
  BY DEF GuestFails, SaveFails, CancelUse, Abort, ClientInPlace
<1>3. ClientInPlace'
  BY <1>1, <1>2 DEF ClientInPlace, Early
<1>4. QED
  BY <1>1, <1>3 DEF MonitorKept

LEMMA CancelStartMonitor ==
  ASSUME QmpInv, ClientInPlace, CancelStart
  PROVE  MonitorKept
<1>1. CASE step \in {"overlay", "image"} /\ Abort("idle") /\ UNCHANGED qmpVars
  <2>1. UNCHANGED <<op, at, request, open, inbox, runState, migration, flushed>>
    BY <1>1 DEF qmpVars
  <2>2. QmpInv'
    BY <2>1 DEF QmpInv, QmpTypeOK, InboxShape, PlaceKnown, Believable, Reply
  <2>3. ClientInPlace'
    BY <1>1, <2>1, ClientBusy DEF Abort, ClientInPlace, Early
  <2>4. QED
    BY <2>2, <2>3 DEF MonitorKept
<1>2. CASE step \in {"resume", "screen"} /\ Abort("stopFailed") /\ GivesUp
  BY <1>2, GiveUpMonitor
<1>3. QED
  BY <1>1, <1>2 DEF CancelStart

LEMMA QemuMonitor ==
  ASSUME QmpInv, ClientInPlace, Monitor
  PROVE  MonitorKept
<1>1. UNCHANGED <<step, incoming, saved>>
  BY DEF Monitor, taskVars
<1>2. CASE SendEvent
  <2>1. QmpInv' /\ UNCHANGED <<op, request, runState, migration, flushed>>
    BY <1>2, EventQmp
  <2>2. QED
    BY <1>1, <2>1 DEF ClientInPlace, MonitorKept
<1>3. CASE MigrationEnds
  <2>1. /\ QmpInv' /\ UNCHANGED <<op, request, flushed>> /\ migration \in {"active", "loading"}
        /\ migration' \in {"completed", "failed"}
        /\ runState' # runState => migration = "active" \/ runState = "inmigrate"
    BY <1>3, MigrationQmp
  <2>2. ~saved
    BY <2>1 DEF ClientInPlace
  <2>3. step \in {"screen", "ready"} /\ incoming => runState' = "running"
    BY <2>1 DEF ClientInPlace, Early
  <2>4. ClientInPlace'
    BY <1>1, <2>1, <2>2, <2>3 DEF ClientInPlace
  <2>5. QED
    BY <2>1, <2>4 DEF MonitorKept
<1>4. CASE Handle
  <2>1. QmpInv' /\ UNCHANGED op /\ request # "none" /\ request' = "none"
    BY <1>4, HandleQmp DEF Handle
  <2>2. ~saved
    BY <2>1 DEF ClientInPlace
  <2>3. step \notin {"screen", "ready"}
    BY <2>1, ClientBusy DEF ClientInPlace, Early
  <2>4. step \in Early => op = "resume"
    BY <2>1, ClientBusy DEF ClientInPlace, Early
  <2>5. op' = "resume" => migration' # "active"
    BY <2>1 DEF QmpInv, PlaceKnown
  <2>6. ClientInPlace'
    BY <1>1, <2>1, <2>2, <2>3, <2>4, <2>5 DEF ClientInPlace
  <2>7. QED
    BY <2>1, <2>6 DEF MonitorKept
<1>5. QED
  BY <1>2, <1>3, <1>4 DEF Monitor

------------------------------------------------------------------------------
LEMMA PoolKept ==
  ASSUME PoolInv, SessionTypeOK, Next \/ UNCHANGED vars
  PROVE  PoolInv'
<1>1. CASE AttachNetwork
  BY <1>1, AttachKeepsPool DEF SessionTypeOK
<1>2. CASE UNCHANGED poolVars
  BY <1>2 DEF poolVars, PoolInv, PoolTypeOK, SubnetsDistinct
<1>3. AttachNetwork \/ UNCHANGED poolVars
  <2>1. TaskStep => AttachNetwork \/ UNCHANGED poolVars
    BY DEF TaskStep, OverlayCreated, NetworksAttached, ImageResolved, StartFails, SpawnEnds, Spawned,
       OpenClient, OpenFailing, ClientReads, Resumed, ScreenReady, GuestFails, BodyEnds, Saved,
       SaveFails, Closed
  <2>2. Cancel => UNCHANGED poolVars
    BY DEF Cancel, CancelStart, CancelSpawn, CancelStopSpawned, CancelUse, CancelStop
  <2>3. Start \/ StopStep \/ StopAll \/ Exits \/ Monitor \/ Over \/ UNCHANGED vars
          => UNCHANGED poolVars
    BY DEF Start, StopStep, StopTimesOut, Reaped, StopReturns, StopAll, Exits, Monitor, Over, vars
  <2>4. QED
    BY <2>1, <2>2, <2>3 DEF Next
<1>4. QED
  BY <1>1, <1>2, <1>3

LEMMA SessionStep == IInv /\ [Next]_vars => IInv'
<1> SUFFICES ASSUME IInv, Next \/ UNCHANGED vars
             PROVE  IInv'
  OBVIOUS
<1> USE DEF IInv
<1>1. PoolInv'
  BY PoolKept
<1>2. ProcessKept
  BY StartProcess, TaskProcess, StopProcess, CancelProcess, QemuProcess DEF Next, Over
<1>3. MonitorKept
  <2>1. CASE Start
    BY <2>1, StartMonitor
  <2>2. CASE QuietStep
    BY <2>2, QuietMonitor
  <2>3. CASE OpenClient("resume") \/ OpenClient("save") \/ OpenFailing
    BY <2>3, OpenMonitor, ScriptFacts
  <2>4. CASE ClientReads
    BY <2>4, ReadMonitor
  <2>5. CASE Resumed \/ Saved
    BY <2>5, FinishMonitor
  <2>6. CASE GuestFails \/ SaveFails \/ CancelUse
    BY <2>6, GiveUpMonitor
  <2>7. CASE CancelStart
    BY <2>7, CancelStartMonitor
  <2>8. CASE Monitor
    BY <2>8, QemuMonitor
  <2>9. QED
    BY <2>1, <2>2, <2>3, <2>4, <2>5, <2>6, <2>7, <2>8
       DEF Next, TaskStep, Cancel, Over, QuietStep
<1>4. QED
  BY <1>1, <1>2, <1>3 DEF ProcessKept, MonitorKept

\* However the task is cancelled, and whenever QEMU, its monitor or the stop task
\* go on: no live QEMU is untracked, and no two user networks share a subnet.
THEOREM SessionSafe == Spec => []SessionInv
<1>1. Init => IInv
  BY SessionInitial
<1>2. IInv /\ [Next]_vars => IInv'
  BY SessionStep
<1>3. IInv => SessionInv
  BY DEF IInv, SessionInv, SessionTypeOK, TypeOK, ProcessInv, PoolInv, QmpInv
<1>4. QED
  BY <1>1, <1>2, <1>3, PTL DEF Spec

\* Late answers, events and timeouts never let the client take the answer to one
\* command for that of another.
THEOREM AnswersPaired == Spec => []AnswersMatch
<1>1. IInv => AnswersMatch
  BY AnswersAreMatched DEF IInv
<1>2. QED
  BY <1>1, SessionInitial, SessionStep, PTL DEF Spec

\* A saved state belongs to the disk it was flushed to, and a restored guest that
\* a test gets is no longer loading one.
THEOREM MigrationsEnd == Spec => []MigrationsSettled
<1>1. IInv => MigrationsSettled
  BY DEF IInv, ClientInPlace, MigrationsSettled, SavedExact, RestoredRuns
<1>2. QED
  BY <1>1, SessionInitial, SessionStep, PTL DEF Spec
==============================================================================
