----------------------------- MODULE VncProofs ------------------------------
(***************************************************************************)
(* Proofs about Vnc: any screen, any number of changes, notices, calls and *)
(* cancellations.                                                          *)
(***************************************************************************)
EXTENDS Vnc, FiniteSetTheorems, SequenceTheorems, TLAPS

------------------------------------------------------------------------------
(* What is under way *)

Parts == [part : 1..2, of : Messages]

\* s[i] is the body of a message of this kind.
Body(s, i, kind) == s[i].part = 2 /\ s[i].of.kind = kind

\* The bodies of updates whose picture is older than the n-th.
Pictures(s, n) == {i \in 1..Len(s) : Body(s, i, "pixels") /\ s[i].of.of < n}

LEMMA Kinds ==
  ASSUME NEW m \in Messages
  PROVE  /\ m # Nothing /\ m.kind \in {"pixels", "ack", "resize", "text"}
         /\ m.kind = "pixels" => m.rects \subseteq Regions /\ m.of \in 1..MaxEvents + 1
         /\ m.kind = "pixels" => m.of \in Nat /\ m.of >= 1
BY VncAssumption DEF Messages, Nothing

LEMMA Messaged ==
  ASSUME NEW rects \in SUBSET Regions, NEW v \in 1..MaxEvents + 1
  PROVE  /\ [kind |-> "pixels", rects |-> rects, of |-> v] \in Messages
         /\ [kind |-> "ack"] \in Messages
         /\ [kind |-> "resize"] \in Messages
         /\ [kind |-> "text"] \in Messages
BY DEF Messages

LEMMA PartTyped ==
  ASSUME NEW s \in Seq(Parts), NEW i \in 1..Len(s)
  PROVE  s[i].part \in 1..2 /\ s[i].of \in Messages /\ s[i] = [part |-> s[i].part, of |-> s[i].of]
<1>1. s[i] \in Parts
  OBVIOUS
<1>2. QED
  BY <1>1 DEF Parts

LEMMA Sent ==
  ASSUME NEW s \in Seq(Parts), NEW m \in Messages
  PROVE  /\ s \o Both(m) \in Seq(Parts) /\ Len(s \o Both(m)) = Len(s) + 2
         /\ \A i \in 1..Len(s) : (s \o Both(m))[i] = s[i]
         /\ (s \o Both(m))[Len(s) + 1] = [part |-> 1, of |-> m]
         /\ (s \o Both(m))[Len(s) + 2] = [part |-> 2, of |-> m]
<1>1. Both(m) \in Seq(Parts) /\ Len(Both(m)) = 2
  BY DEF Both, Parts
<1>2. Both(m)[1] = [part |-> 1, of |-> m] /\ Both(m)[2] = [part |-> 2, of |-> m]
  BY DEF Both
<1> HIDE DEF Both
<1>3. /\ s \o Both(m) \in Seq(Parts) /\ Len(s \o Both(m)) = Len(s) + Len(Both(m))
      /\ \A i \in 1..Len(s) + Len(Both(m)) :
           (s \o Both(m))[i] = IF i <= Len(s) THEN s[i] ELSE Both(m)[i - Len(s)]
  BY <1>1, ConcatProperties, Zenon
<1>4. Len(s) \in Nat
  OBVIOUS
<1>5. QED
  BY <1>1, <1>2, <1>3, <1>4

LEMMA Taken ==
  ASSUME NEW s \in Seq(Parts), s # <<>>
  PROVE  /\ Tail(s) \in Seq(Parts) /\ Len(Tail(s)) = Len(s) - 1 /\ Len(s) \in Nat /\ Len(s) >= 1
         /\ \A i \in 1..Len(s) - 1 : Tail(s)[i] = s[i + 1]
         /\ Head(s) = s[1]
OBVIOUS

LEMMA PicturesFinite ==
  ASSUME NEW s \in Seq(Parts), NEW n \in Nat
  PROVE  /\ IsFiniteSet(Pictures(s, n)) /\ Cardinality(Pictures(s, n)) \in Nat
         /\ Cardinality(Pictures(s, n)) = 0 <=> Pictures(s, n) = {}
<1>1. Len(s) \in Nat /\ Pictures(s, n) \in SUBSET (1..Len(s))
  BY DEF Pictures
<1>2. IsFiniteSet(1..Len(s))
  BY <1>1, FS_Interval
<1>3. IsFiniteSet(Pictures(s, n))
  BY <1>1, <1>2, FS_Subset
<1>4. QED
  BY <1>3, FS_CardinalityType, FS_EmptySet

\* Reading the first part takes at most the first picture away.
LEMMA PicturesTaken ==
  ASSUME NEW s \in Seq(Parts), s # <<>>, NEW n \in Nat
  PROVE  Cardinality(Pictures(Tail(s), n)) =
           IF Body(s, 1, "pixels") /\ s[1].of.of < n
             THEN Cardinality(Pictures(s, n)) - 1 ELSE Cardinality(Pictures(s, n))
<1> DEFINE S == Pictures(Tail(s), n)
           T == Pictures(s, n) \ {1}
           f == [i \in S |-> i + 1]
<1>1. /\ Tail(s) \in Seq(Parts) /\ Len(Tail(s)) = Len(s) - 1 /\ Len(s) \in Nat /\ Len(s) >= 1
      /\ \A i \in 1..Len(s) - 1 : Tail(s)[i] = s[i + 1]
  BY Taken
<1>2. \A i \in S : i \in 1..Len(s) - 1 /\ i + 1 \in T
  BY <1>1 DEF Pictures, Body
<1>3. \A j \in T : j - 1 \in S /\ j \in Nat
  <2> TAKE j \in T
  <2>1. j \in 1..Len(s) /\ j # 1 /\ Body(s, j, "pixels") /\ s[j].of.of < n
    BY DEF Pictures
  <2>2. j - 1 \in 1..Len(s) - 1 /\ Tail(s)[j - 1] = s[j]
    BY <1>1, <2>1
  <2>3. QED
    BY <1>1, <2>1, <2>2 DEF Pictures, Body
<1>4. f \in Bijection(S, T)
  <2>1. f \in [S -> T]
    BY <1>2
  <2>2. \A i, j \in S : f[i] = f[j] => i = j
    BY <1>2
  <2>3. \A j \in T : \E i \in S : f[i] = j
    <3> TAKE j \in T
    <3>1. j - 1 \in S /\ f[j - 1] = j
      BY <1>3
    <3>2. QED
      BY <3>1
  <2>4. QED
    BY <2>1, <2>2, <2>3 DEF Bijection, Injection, Surjection, IsInjective
<1>5. IsFiniteSet(S)
  BY <1>1, PicturesFinite
<1>6. Cardinality(T) = Cardinality(S)
  BY <1>4, <1>5, FS_Bijection DEF ExistsBijection
<1>7. IsFiniteSet(Pictures(s, n))
  BY PicturesFinite
<1>8. Cardinality(T) = IF 1 \in Pictures(s, n) THEN Cardinality(Pictures(s, n)) - 1 ELSE Cardinality(Pictures(s, n))
  BY <1>7, FS_RemoveElement
<1>9. 1 \in Pictures(s, n) <=> Body(s, 1, "pixels") /\ s[1].of.of < n
  BY <1>1 DEF Pictures
<1>10. QED
  BY <1>6, <1>8, <1>9

\* A message adds a picture if it is an update, at the end.
LEMMA PicturesSent ==
  ASSUME NEW s \in Seq(Parts), NEW m \in Messages, NEW n \in Nat
  PROVE  /\ m.kind # "pixels" \/ m.of >= n => Pictures(s \o Both(m), n) = Pictures(s, n)
         /\ Cardinality(Pictures(s \o Both(m), n)) \in Nat
         /\ Cardinality(Pictures(s \o Both(m), n)) <= Cardinality(Pictures(s, n)) + 1
<1> DEFINE t == s \o Both(m)
<1>1. /\ t \in Seq(Parts) /\ Len(t) = Len(s) + 2 /\ Len(s) \in Nat
      /\ \A i \in 1..Len(s) : t[i] = s[i]
      /\ t[Len(s) + 1] = [part |-> 1, of |-> m] /\ t[Len(s) + 2] = [part |-> 2, of |-> m]
  BY Sent
<1> HIDE DEF t
<1>2. Pictures(t, n) \subseteq Pictures(s, n) \cup {Len(s) + 2} /\ Pictures(s, n) \subseteq Pictures(t, n)
  <2>1. ASSUME NEW i \in Pictures(t, n)
        PROVE  i \in Pictures(s, n) \cup {Len(s) + 2}
    <3>1. i \in 1..Len(s) + 2 /\ t[i].part = 2 /\ t[i].of.kind = "pixels" /\ t[i].of.of < n
      BY <1>1 DEF Pictures, Body
    <3>2. i # Len(s) + 1
      BY <1>1, <3>1
    <3>3. i \in 1..Len(s) \/ i = Len(s) + 2
      BY <1>1, <3>1, <3>2
    <3>4. i \in 1..Len(s) => t[i] = s[i]
      BY <1>1
    <3>5. QED
      BY <3>1, <3>3, <3>4 DEF Pictures, Body
  <2>2. ASSUME NEW i \in Pictures(s, n)
        PROVE  i \in Pictures(t, n)
    BY <1>1 DEF Pictures, Body
  <2>3. QED
    BY <2>1, <2>2
<1>3. Len(s) + 2 \in Pictures(t, n) => m.kind = "pixels" /\ m.of < n
  BY <1>1 DEF Pictures, Body
<1>4. ASSUME m.kind # "pixels" \/ m.of >= n
      PROVE  Pictures(t, n) = Pictures(s, n)
  <2>1. m.kind = "pixels" => m.of \in Nat
    BY Kinds
  <2>2. ~(m.kind = "pixels" /\ m.of < n)
    BY <1>4, <2>1
  <2>3. Len(s) + 2 \notin Pictures(t, n)
    BY <1>3, <2>2, Zenon
  <2>4. QED
    BY <1>2, <2>3, Zenon
<1>5. Cardinality(Pictures(t, n)) \in Nat /\ Cardinality(Pictures(t, n)) <= Cardinality(Pictures(s, n)) + 1
  <2>1. IsFiniteSet(Pictures(s, n)) /\ Cardinality(Pictures(s, n)) \in Nat /\ Cardinality(Pictures(t, n)) \in Nat
    BY <1>1, PicturesFinite
  <2>2. /\ IsFiniteSet(Pictures(s, n) \cup {Len(s) + 2})
        /\ Cardinality(Pictures(s, n) \cup {Len(s) + 2}) \in {Cardinality(Pictures(s, n)), Cardinality(Pictures(s, n)) + 1}
    BY <2>1, FS_AddElement, Zenon
  <2>3. Cardinality(Pictures(t, n)) <= Cardinality(Pictures(s, n) \cup {Len(s) + 2})
    BY <1>2, <2>2, FS_Subset
  <2>4. Cardinality(Pictures(s, n) \cup {Len(s) + 2}) \in Nat
    BY <2>2, FS_CardinalityType
  <2>5. QED
    BY <2>1, <2>2, <2>3, <2>4
<1>6. QED
  BY <1>4, <1>5 DEF t

------------------------------------------------------------------------------
(* Types, and which keys are down *)

Screens == [Regions -> Int]

Typed ==
  /\ TypeOK /\ history \in Seq(Screens) /\ history # <<>>
  /\ channel \in Seq(Parts) /\ mid \in Messages \cup {Nothing} /\ fb \in Screens
  /\ stable \in 0..1

LEMMA TypedInit == Init => Typed
<1> SUFFICES ASSUME Init
             PROVE  Typed
  OBVIOUS
<1>1. channel \in Seq(Parts) /\ Len(channel) \in Nat
  <2>1. [kind |-> "ack"] \in Messages
    BY DEF Messages
  <2>2. [part |-> 1, of |-> [kind |-> "ack"]] \in Parts /\ [part |-> 2, of |-> [kind |-> "ack"]] \in Parts
    BY <2>1 DEF Parts
  <2>3. channel = <<>> \/ channel = <<[part |-> 1, of |-> [kind |-> "ack"]], [part |-> 2, of |-> [kind |-> "ack"]]>>
    BY DEF Init
  <2>4. \A a, b \in Parts : <<a, b>> \in Seq(Parts) /\ Len(<<a, b>>) = 2
    OBVIOUS
  <2>5. <<>> \in Seq(Parts) /\ Len(<<>>) = 0
    OBVIOUS
  <2>6. QED
    BY <2>2, <2>3, <2>4, <2>5
<1>2. [r \in Regions |-> 0] \in Screens /\ Black \in Screens
  BY DEF Screens, Black
<1>3. history \in Seq(Screens) /\ history # <<>> /\ Len(history) = 1 /\ history[1] = [r \in Regions |-> 0]
  BY <1>2 DEF Init
<1>4. TypeOK
  <2>1. Len(history) <= spent.events + 1 /\ spent \in [events : 0..MaxEvents, calls : 0..MaxCalls] /\ arrived \in 0..Len(channel) /\ began \in 0..Len(history)
    BY <1>1, <1>3, VncAssumption DEF Init
  <2>2. held \subseteq 1..3 /\ mods \in {0, 2} /\ bad \in 0..3 /\ pressed \in 0..2 /\ behind \in Nat /\ stable \in 0..2
    BY DEF Init
  <2>3. requested \in BOOLEAN /\ pixels \in BOOLEAN
    BY Zenon DEF Init
  <2>4. dirty \subseteq Regions /\ round \in 1..2
    BY DEF Init
  <2>5. QED
    BY <1>3, <2>1, <2>2, <2>3, <2>4 DEF Init, TypeOK
<1>5. QED
  BY <1>1, <1>2, <1>3, <1>4 DEF Typed, Init

LEMMA Changed ==
  ASSUME Typed, NEW r \in Regions, Change(r)
  PROVE  /\ history' \in Seq(Screens) /\ history' # <<>>
         /\ Len(history) \in Nat /\ Len(history) >= 1 /\ Len(history') = Len(history) + 1
         /\ \A v \in 1..Len(history) : history'[v] = history[v]
         /\ Now' = [Now EXCEPT ![r] = Len(history)] /\ Now \in Screens
<1>1. history \in Seq(Screens) /\ history # <<>>
  BY DEF Typed
<1>2. Len(history) \in Nat /\ Len(history) >= 1
  BY <1>1
<1>3. Now \in Screens
  BY <1>1, <1>2 DEF Now
<1>4. PICK n \in Nat : n = Len(history)
  BY <1>2
<1>5. PICK now : now = [Now EXCEPT ![r] = n]
  OBVIOUS
<1>6. now \in Screens
  BY <1>3, <1>4, <1>5 DEF Screens
<1>7. history' = Append(history, now)
  BY <1>4, <1>5 DEF Change
<1>8. QED
  BY <1>1, <1>2, <1>3, <1>4, <1>5, <1>6, <1>7 DEF Now

\* What an action does to the channel.
LEMMA Grown ==
  ASSUME Typed, NEW m \in Messages, channel' = channel \o Both(m), arrived' = arrived
  PROVE  channel' \in Seq(Parts) /\ arrived' \in 0..Len(channel')
<1>0. channel \in Seq(Parts)
  BY DEF Typed
<1>1. channel' \in Seq(Parts) /\ Len(channel') = Len(channel) + 2 /\ Len(channel) \in Nat
  <2>1. channel \o Both(m) \in Seq(Parts) /\ Len(channel \o Both(m)) = Len(channel) + 2
    BY <1>0, Sent, Zenon
  <2>2. QED
    BY <1>0, <2>1
<1>2. QED
  BY <1>1 DEF Typed, TypeOK

LEMMA Shrunk ==
  ASSUME Typed, Take
  PROVE  /\ channel # <<>> /\ Head(channel) = channel[1] /\ channel[1].of \in Messages
         /\ channel' \in Seq(Parts) /\ arrived' \in 0..Len(channel')
         /\ channel[1].part \in 1..2 /\ requested' = requested /\ channel' = Tail(channel)
<1>1. channel \in Seq(Parts) /\ arrived \in 0..Len(channel) /\ Len(channel) \in Nat
  BY DEF Typed, TypeOK
<1>2. channel # <<>>
  BY <1>1 DEF Take
<1>3. /\ Tail(channel) \in Seq(Parts) /\ Len(Tail(channel)) = Len(channel) - 1 /\ Len(channel) >= 1
      /\ Head(channel) = channel[1]
  BY <1>1, <1>2, Taken
<1>4. channel[1].of \in Messages /\ channel[1].part \in 1..2
  <2>1. 1 \in 1..Len(channel)
    BY <1>1, <1>3
  <2>2. QED
    BY <1>1, <2>1, PartTyped
<1>5. QED
  BY <1>1, <1>2, <1>3, <1>4 DEF Take

LEMMA PaintedTyped ==
  ASSUME Typed, mid \in Messages, mid.kind = "pixels" => mid.of <= Len(history)
  PROVE  Painted(mid) \in Screens
<1>1. CASE mid.kind = "pixels"
  <2>1. mid.of \in Nat /\ mid.of >= 1 /\ history \in Seq(Screens) /\ Len(history) \in Nat
    BY <1>1, Kinds DEF Typed
  <2>2. mid.of \in 1..Len(history)
    BY <1>1, <2>1
  <2>3. history[mid.of] \in Screens
    BY <2>1, <2>2, ElementOfSeq
  <2>4. QED
    BY <1>1, <2>3 DEF Painted, Screens, Typed
<1>2. CASE mid.kind # "pixels"
  BY <1>2 DEF Painted, Screens, Typed, Black
<1>3. QED
  BY <1>1, <1>2

\* A budget is used up step by step.
Unspent == spent' \in [events : 0..MaxEvents, calls : 0..MaxCalls] /\ spent.events <= spent'.events

LEMMA SpentTyped ==
  ASSUME Typed
  PROVE  /\ Spend("events", MaxEvents) => Unspent /\ spent'.events = spent.events + 1
         /\ Spend("calls", MaxCalls) => Unspent
         /\ spent' = spent => Unspent
<1>1. spent \in [events : 0..MaxEvents, calls : 0..MaxCalls] /\ MaxEvents \in Nat /\ MaxCalls \in Nat
  BY VncAssumption DEF Typed, TypeOK
<1>2. QED
  BY <1>1 DEF Spend, Unspent

LEMMA HistoryFits ==
  ASSUME Typed
  PROVE  /\ Len(history) \in 1..MaxEvents + 1
         /\ Unspent => Len(history) <= spent'.events + 1
<1>1. /\ spent \in [events : 0..MaxEvents, calls : 0..MaxCalls] /\ Len(history) <= spent.events + 1
      /\ Len(history) \in Nat /\ Len(history) >= 1
  BY DEF Typed, TypeOK
<1>2. QED
  BY <1>1, VncAssumption DEF Unspent

\* What an operation of the host leaves of the types.
Rest == UNCHANGED <<history, dirty, channel, arrived, mid, fb>>

LEMMA RestTyped ==
  ASSUME Typed, Rest, Unspent, requested' \in BOOLEAN,
         at' \in {"idle", "first", "tail", "more", "mods", "key", "hold", "release"},
         at' \notin {"first", "more"} => at \notin {"first", "more"},
         round' \in 1..2, pixels' \in BOOLEAN, goal' \in {"look", "change", "stable"},
         stable' \in 0..1, began' \in 0..Len(history), result' \in {"none", "frame", "late", "error"},
         held' \subseteq 1..3, mods' \in {0, 2}, bad' \in 0..3, pressed' \in 0..2, behind' \in Nat
  PROVE  Typed'
BY HistoryFits, SMTT(30) DEF Typed, TypeOK, Rest, Unspent

KeysFit ==
  /\ at = "mods" => mods = 2 /\ pressed < 2
  /\ at \in {"key", "hold"} => pressed = mods
  /\ at = "release" => pressed \in 1..2
  /\ at # "idle" => result = "none"
  /\ at = "mods" \/ at = "key" \/ at = "release" => "interrupted" \in odd \/ held = 1..pressed
  /\ at = "hold" => "interrupted" \in odd \/ held = (1..pressed) \cup {3}
  /\ at \in {"idle", "first", "tail", "more"} => "interrupted" \in odd \/ held = {}

LEMMA KeysFitInit == Init => KeysFit
BY DEF Init, KeysFit

LEMMA KeysFitStep ==
  ASSUME Typed, KeysFit, [Next]_vars
  PROVE  KeysFit'
<1> USE DEF KeysFit, Typed, TypeOK
<1>1. ASSUME NEW r \in Regions, Change(r)
      PROVE  KeysFit'
  BY <1>1 DEF Change, wire, reading, waiting, input
<1>2. CASE Serve
  BY <1>2 DEF Serve, reading, waiting, input
<1>3. ASSUME NEW kind \in {"resize", "text"}, Notify(kind)
      PROVE  KeysFit'
  BY <1>3 DEF Notify, reading, waiting, input
<1>4. CASE Arrive
  BY <1>4 DEF Arrive, guest, reading, waiting, input
<1>5. ASSUME NEW for \in {"look", "change", "stable"}, Look(for)
      PROVE  KeysFit'
  BY <1>5 DEF Look, StartFrame, guest
<1>6. CASE Read
  BY <1>6 DEF Read, ReadHead, ReadRest, Misread, ReadBody, ReadMore, AskAgain, FrameReturned, StartFrame, End,
              guest, wire, reading, waiting, input, HasFrame
<1>7. CASE Poll \/ Timeout
  BY <1>7 DEF Poll, PollAgain, WaitExpires, Timeout, StartFrame, End, guest, wire, input, HasFrame
<1>8. ASSUME NEW n \in {0, 2}, NEW wrong \in 0..3, Shortcut(n, wrong)
      PROVE  KeysFit'
  BY <1>8 DEF Shortcut
<1>9. CASE Keys
  <2>1. CASE ModifierDown
    BY <2>1 DEF ModifierDown, Typing, waiting
  <2>2. CASE ModifierUnknown
    BY <2>2 DEF ModifierUnknown, Typing, waiting, input
  <2>3. CASE KeyDown
    BY <2>3 DEF KeyDown, Typing, waiting
  <2>4. CASE KeyUnknown
    BY <2>4 DEF KeyUnknown, AfterFailure, Typing, waiting
  <2>5. CASE KeyUp
    BY <2>5 DEF KeyUp, Typing, waiting
  <2>6. CASE ModifierUp
    BY <2>6 DEF ModifierUp, Typing, waiting
  <2>7. QED
    BY <1>9, <2>1, <2>2, <2>3, <2>4, <2>5, <2>6 DEF Keys
<1>10. CASE Cancelled
  BY <1>10 DEF Cancelled, AfterFailure, Typing, waiting
<1>11. CASE UNCHANGED vars
  BY <1>11 DEF vars, guest, wire, reading, waiting, input
<1>12. QED
  BY <1>1, <1>2, <1>3, <1>4, <1>5, <1>6, <1>7, <1>8, <1>9, <1>10, <1>11 DEF Next, Over

------------------------------------------------------------------------------
(* The order of what is under way *)

\* The body of a message follows its head, and is next when the head was read.
Followed ==
  /\ \A i \in 1..Len(channel) : channel[i].part = 1 =>
       i < Len(channel) /\ channel[i + 1].part = 2 /\ channel[i + 1].of = channel[i].of
  /\ mid # Nothing => channel # <<>> /\ channel[1].part = 2 /\ channel[1].of = mid

\* Updates come in the order of their pictures, which have been shown.
Ordered ==
  /\ \A i, j \in 1..Len(channel) :
       i < j /\ Body(channel, i, "pixels") /\ Body(channel, j, "pixels") => channel[i].of.of <= channel[j].of.of
  /\ \A i \in 1..Len(channel) : channel[i].of.kind = "pixels" => channel[i].of.of <= Len(history)

\* Extended keys are acknowledged once.
OneAck == \A i, j \in 1..Len(channel) : Body(channel, i, "ack") /\ Body(channel, j, "ack") => i = j

WireFits == Followed /\ Ordered /\ OneAck

LEMMA WireInit == Init => WireFits
<1> SUFFICES ASSUME Init
             PROVE  WireFits
  OBVIOUS
<1>1. CASE channel = <<>>
  BY <1>1 DEF Init, WireFits, Followed, Ordered, OneAck
<1>2. CASE channel = <<[part |-> 1, of |-> [kind |-> "ack"]], [part |-> 2, of |-> [kind |-> "ack"]]>>
  <2>1. /\ Len(channel) = 2 /\ channel[1].part = 1 /\ channel[2].part = 2
        /\ channel[1].of = [kind |-> "ack"] /\ channel[2].of = [kind |-> "ack"]
    BY <1>2
  <2>2. \A i \in 1..Len(channel) : channel[i].of.kind = "ack" /\ (channel[i].part = 2 => i = 2)
    BY <2>1
  <2>3. mid = Nothing
    BY DEF Init
  <2>4. Followed
    BY <2>1, <2>3 DEF Followed
  <2>5. Ordered /\ OneAck
    BY <2>2 DEF Ordered, OneAck, Body
  <2>6. QED
    BY <2>4, <2>5 DEF WireFits
<1>3. QED
  BY <1>1, <1>2 DEF Init

LEMMA WireStill ==
  ASSUME Typed, WireFits, channel' = channel, mid' = mid \/ mid' = Nothing,
         Len(history') \in Nat, Len(history) <= Len(history')
  PROVE  WireFits'
<1>1. Followed'
  BY DEF WireFits, Followed
<1>2. Ordered'
  <2>1. ASSUME NEW i \in 1..Len(channel), channel[i].of.kind = "pixels"
        PROVE  channel[i].of.of <= Len(history')
    <3>1. channel \in Seq(Parts) /\ Len(history) \in Nat
      BY DEF Typed
    <3>2. channel[i].of \in Messages
      BY <3>1, PartTyped
    <3>3. channel[i].of.of \in Nat
      BY <2>1, <3>2, Kinds
    <3>4. channel[i].of.of <= Len(history)
      BY <2>1 DEF WireFits, Ordered
    <3>5. QED
      BY <3>1, <3>3, <3>4
  <2>2. QED
    BY <2>1 DEF WireFits, Ordered, Body
<1>3. OneAck'
  BY DEF WireFits, OneAck, Body
<1>4. QED
  BY <1>1, <1>2, <1>3 DEF WireFits

LEMMA WireGrows ==
  ASSUME Typed, WireFits, NEW m \in Messages, channel' = channel \o Both(m), mid' = mid, history' = history,
         m.kind # "ack", m.kind = "pixels" => m.of = Len(history)
  PROVE  WireFits'
<1>1. channel \in Seq(Parts) /\ Len(channel) \in Nat /\ Len(history) \in Nat
  BY DEF Typed
<1>2. /\ channel' \in Seq(Parts) /\ Len(channel') = Len(channel) + 2
      /\ \A i \in 1..Len(channel) : channel'[i] = channel[i]
      /\ channel'[Len(channel) + 1] = [part |-> 1, of |-> m]
      /\ channel'[Len(channel) + 2] = [part |-> 2, of |-> m]
  BY <1>1, Sent, Zenon
<1>3. PICK n \in Nat : n = Len(channel)
  BY <1>1
<1>4. /\ Len(channel') = n + 2 /\ \A i \in 1..n : channel'[i] = channel[i]
      /\ channel'[n + 1].part = 1 /\ channel'[n + 1].of = m /\ channel'[n + 2].part = 2 /\ channel'[n + 2].of = m
  BY <1>2, <1>3
<1>5. \A i \in 1..n + 2 : i \in 1..n \/ i = n + 1 \/ i = n + 2
  BY <1>3
<1>6. Followed'
  <2>1. ASSUME NEW i \in 1..n + 2, channel'[i].part = 1
        PROVE  i < n + 2 /\ channel'[i + 1].part = 2 /\ channel'[i + 1].of = channel'[i].of
    <3>1. CASE i \in 1..n
      BY <1>3, <1>4, <2>1, <3>1 DEF WireFits, Followed
    <3>2. CASE i = n + 1
      BY <1>4, <3>2
    <3>3. QED
      BY <1>4, <1>5, <2>1, <3>1, <3>2
  <2>2. mid # Nothing => channel' # <<>> /\ channel'[1].part = 2 /\ channel'[1].of = mid
    <3>1. channel # <<>> => 1 \in 1..n
      BY <1>1, <1>3
    <3>2. channel' # <<>>
      BY <1>2, <1>1
    <3>3. QED
      BY <3>1, <3>2, <1>4 DEF WireFits, Followed
  <2>3. QED
    BY <1>4, <2>1, <2>2 DEF Followed
<1>7. Ordered'
  <2>1. \A i \in 1..n : channel[i].of.kind = "pixels" => channel[i].of.of <= Len(history)
    BY <1>3 DEF WireFits, Ordered
  <2>2. \A i \in 1..n + 2 : channel'[i].of.kind = "pixels" => channel'[i].of.of <= Len(history)
    <3> TAKE i \in 1..n + 2
    <3>1. CASE i \in 1..n
      BY <3>1, <2>1, <1>4
    <3>2. CASE i \notin 1..n
      BY <3>2, <1>1, <1>4, <1>5, SMTT(30)
    <3>3. QED
      BY <3>1, <3>2
  <2>3. ASSUME NEW i \in 1..n + 2, NEW j \in 1..n + 2, i < j,
               Body(channel', i, "pixels"), Body(channel', j, "pixels")
        PROVE  channel'[i].of.of <= channel'[j].of.of
    <3>1. CASE j \in 1..n
      <4>1. i \in 1..n
        BY <2>3, <3>1
      <4>2. QED
        BY <1>3, <1>4, <2>3, <3>1, <4>1 DEF WireFits, Ordered, Body
    <3>2. CASE j = n + 2
      BY <1>4, <2>2, <2>3, <3>2 DEF Body
    <3>3. QED
      BY <1>4, <1>5, <2>3, <3>1, <3>2 DEF Body
  <2>4. QED
    BY <1>4, <2>2, <2>3 DEF Ordered, Body
<1>8. OneAck'
  <2>1. \A i \in 1..n + 2 : Body(channel', i, "ack") => i \in 1..n /\ Body(channel, i, "ack")
    BY <1>4, <1>5 DEF Body
  <2>2. QED
    BY <1>3, <1>4, <2>1 DEF WireFits, OneAck, Body
<1>9. QED
  BY <1>6, <1>7, <1>8 DEF WireFits

LEMMA WireShrinks ==
  ASSUME Typed, WireFits, channel # <<>>, channel' = Tail(channel), history' = history,
         mid' = Nothing \/ (channel[1].part = 1 /\ mid' = channel[1].of)
  PROVE  WireFits'
<1>1. channel \in Seq(Parts)
  BY DEF Typed
<1>2. /\ channel' \in Seq(Parts) /\ Len(channel') = Len(channel) - 1 /\ Len(channel) \in Nat /\ Len(channel) >= 1
      /\ \A i \in 1..Len(channel) - 1 : channel'[i] = channel[i + 1]
  BY <1>1, Taken
<1>3. PICK n \in Nat : Len(channel) = n + 1
  <2>1. Len(channel) - 1 \in Nat /\ Len(channel) = (Len(channel) - 1) + 1
    BY <1>2
  <2>2. QED
    BY <2>1
<1>4. Len(channel') = n /\ \A i \in 1..n : channel'[i] = channel[i + 1] /\ i + 1 \in 1..n + 1
  BY <1>2, <1>3
<1>5. Followed'
  <2>1. ASSUME NEW i \in 1..n, channel'[i].part = 1
        PROVE  i < n /\ channel'[i + 1].part = 2 /\ channel'[i + 1].of = channel'[i].of
    <3>1. channel[i + 1].part = 1 /\ i + 1 \in 1..n + 1
      BY <1>4, <2>1
    <3>2. i + 1 < n + 1 /\ channel[(i + 1) + 1].part = 2 /\ channel[(i + 1) + 1].of = channel[i + 1].of
      BY <1>3, <3>1 DEF WireFits, Followed
    <3>3. i + 1 \in 1..n
      BY <3>2, <1>3
    <3>4. QED
      BY <1>4, <2>1, <3>2, <3>3
  <2>2. ASSUME mid' # Nothing
        PROVE  channel' # <<>> /\ channel'[1].part = 2 /\ channel'[1].of = mid'
    <3>1. 1 \in 1..n + 1 /\ channel[1].part = 1
      BY <1>3, <2>2
    <3>2. 1 < n + 1 /\ channel[1 + 1].part = 2 /\ channel[1 + 1].of = channel[1].of
      BY <1>3, <3>1 DEF WireFits, Followed
    <3>3. 1 \in 1..n
      BY <3>2, <1>3
    <3>4. channel'[1].part = 2 /\ channel'[1].of = channel[1].of
      BY <1>4, <3>2, <3>3
    <3>5. channel' # <<>>
      BY <1>3, <1>4, <3>3
    <3>6. mid' = channel[1].of
      BY <2>2
    <3>7. QED
      BY <3>4, <3>5, <3>6
  <2>3. QED
    BY <1>4, <2>1, <2>2 DEF Followed
<1>6. Ordered'
  <2>1. \A i \in 1..n : channel'[i].of.kind = "pixels" => channel'[i].of.of <= Len(history)
    BY <1>3, <1>4 DEF WireFits, Ordered
  <2>2. ASSUME NEW i \in 1..n, NEW j \in 1..n, i < j,
               Body(channel', i, "pixels"), Body(channel', j, "pixels")
        PROVE  channel'[i].of.of <= channel'[j].of.of
    <3>1. i + 1 \in 1..n + 1 /\ j + 1 \in 1..n + 1 /\ i + 1 < j + 1
      BY <1>4, <2>2
    <3>2. QED
      BY <1>3, <1>4, <2>2, <3>1 DEF WireFits, Ordered, Body
  <2>3. QED
    BY <1>4, <2>1, <2>2 DEF Ordered, Body
<1>7. OneAck'
  <2>1. ASSUME NEW i \in 1..n, NEW j \in 1..n, Body(channel', i, "ack"), Body(channel', j, "ack")
        PROVE  i = j
    <3>1. i + 1 = j + 1
      BY <1>3, <1>4, <2>1 DEF WireFits, OneAck, Body
    <3>2. QED
      BY <3>1
  <2>2. QED
    BY <1>4, <2>1 DEF OneAck, Body
<1>8. QED
  BY <1>5, <1>6, <1>7 DEF WireFits

LEMMA ShapeStep ==
  ASSUME Typed, KeysFit, WireFits, [Next]_vars
  PROVE  Typed' /\ WireFits'
<1>1. channel \in Seq(Parts) /\ Len(channel) \in Nat /\ history \in Seq(Screens) /\ Len(history) \in Nat
  BY DEF Typed
<1>2. ASSUME Rest, requested' = requested \/ requested' = TRUE
      PROVE  WireFits' /\ requested' \in BOOLEAN
  <2>1. channel' = channel /\ mid' = mid /\ history' = history
    BY <1>2 DEF Rest
  <2>2. Len(history') \in Nat /\ Len(history) <= Len(history')
    BY <1>1, <2>1
  <2>3. requested' \in BOOLEAN
    BY <1>2, Zenon DEF Typed, TypeOK
  <2>4. QED
    BY <2>1, <2>2, <2>3, WireStill
<1>3. ASSUME NEW r \in Regions, Change(r)
      PROVE  Typed' /\ WireFits'
  <2>1. /\ history' \in Seq(Screens) /\ history' # <<>> /\ Len(history) >= 1
        /\ Len(history') = Len(history) + 1 /\ \A v \in 1..Len(history) : history'[v] = history[v]
    BY <1>3, Changed
  <2>2. /\ history'[1] = history[1] /\ began \in 0..Len(history')
        /\ Len(history') <= spent'.events + 1 /\ spent' \in [events : 0..MaxEvents, calls : 0..MaxCalls]
    <3>1. Unspent /\ spent'.events = spent.events + 1 /\ spent.events \in Nat
      BY <1>3, SpentTyped DEF Change, Typed, TypeOK
    <3>2. QED
      BY <1>1, <2>1, <3>1 DEF Unspent, Typed, TypeOK
  <2>3. UNCHANGED <<requested, channel, arrived, at, mid, round, pixels, fb, goal, seen, stable, began,
                    result, mods, bad, pressed, held, behind>> /\ dirty' \subseteq Regions
    BY <1>3 DEF Change, wire, reading, waiting, input, Typed, TypeOK
  <2>4. Typed'
    BY <2>1, <2>2, <2>3 DEF Typed, TypeOK
  <2>5. Len(history') \in Nat /\ Len(history) <= Len(history')
    BY <1>1, <2>1
  <2>6. QED
    BY <2>3, <2>4, <2>5, WireStill
<1>4. ASSUME NEW m \in Messages, channel' = channel \o Both(m), m.kind # "ack", m.kind = "pixels" => m.of = Len(history),
             UNCHANGED <<history, arrived, at, mid, round, pixels, fb, goal, seen, stable, began,
                         result, mods, bad, pressed, held, behind>>,
             dirty' \subseteq Regions, requested' \in BOOLEAN, Unspent
      PROVE  Typed' /\ WireFits'
  <2>1. channel' \in Seq(Parts) /\ arrived' \in 0..Len(channel')
    BY <1>4, Grown
  <2>2. Typed'
    BY <1>4, <2>1, HistoryFits DEF Typed, TypeOK, Unspent
  <2>3. WireFits'
    BY <1>4, WireGrows
  <2>4. QED
    BY <2>2, <2>3
<1>5. CASE Serve
  <2>1. PICK rects \in {dirty, Regions} \ {{}} :
          channel' = channel \o Both([kind |-> "pixels", rects |-> rects, of |-> Len(history)])
    BY <1>5 DEF Serve
  <2>2. rects \in SUBSET Regions /\ Len(history) \in 1..MaxEvents + 1
    BY <1>1, <2>1, HistoryFits DEF Typed, TypeOK
  <2>3. PICK m : m = [kind |-> "pixels", rects |-> rects, of |-> Len(history)]
    OBVIOUS
  <2>4. m \in Messages /\ m.kind # "ack" /\ m.of = Len(history)
    BY <2>2, <2>3, Messaged
  <2>5. /\ UNCHANGED <<history, arrived, at, mid, round, pixels, fb, goal, seen, stable, began,
                       result, mods, bad, pressed, held, behind>>
        /\ dirty' \subseteq Regions /\ requested' = FALSE /\ Unspent
    BY <1>5, SpentTyped DEF Serve, reading, waiting, input
  <2>6. requested' \in BOOLEAN
    BY <2>5, Zenon
  <2>7. QED
    BY <1>4, <2>1, <2>3, <2>4, <2>5, <2>6
<1>6. ASSUME NEW kind \in {"resize", "text"}, Notify(kind)
      PROVE  Typed' /\ WireFits'
  <2>1. PICK m : m = [kind |-> kind]
    OBVIOUS
  <2>2. m \in Messages /\ m.kind # "ack" /\ m.kind # "pixels"
    BY <2>1, Messaged DEF Messages
  <2>3. /\ UNCHANGED <<history, arrived, at, mid, round, pixels, fb, goal, seen, stable, began,
                       result, mods, bad, pressed, held, behind>>
        /\ dirty' \subseteq Regions /\ requested' = requested /\ channel' = channel \o Both(m) /\ Unspent
    BY <1>6, <2>1, SpentTyped DEF Notify, reading, waiting, input, Typed, TypeOK
  <2>4. requested' \in BOOLEAN
    BY <2>3, Zenon DEF Typed, TypeOK
  <2>5. QED
    BY <1>4, <2>2, <2>3, <2>4
<1>7. CASE Arrive
  <2>1. channel' = channel /\ mid' = mid /\ history' = history /\ arrived' \in 0..Len(channel)
    BY <1>1, <1>7 DEF Arrive, guest, reading, Typed, TypeOK
  <2>2. Len(history') \in Nat /\ Len(history) <= Len(history')
    BY <1>1, <2>1
  <2>3. Typed'
    BY <1>7, <2>1 DEF Arrive, guest, reading, waiting, input, Typed, TypeOK
  <2>4. QED
    BY <2>1, <2>2, <2>3, WireStill
<1>8. ASSUME NEW for \in {"look", "change", "stable"}, Look(for)
      PROVE  Typed' /\ WireFits'
  <2>1. Rest /\ requested' = TRUE /\ Unspent
    BY <1>8, SpentTyped DEF Look, StartFrame, Request, guest, Rest
  <2>2. WireFits' /\ requested' \in BOOLEAN
    BY <1>2, <2>1
  <2>3. Typed'
    BY <1>1, <1>8, <2>1, <2>2, RestTyped DEF Look, StartFrame, Typed, TypeOK
  <2>4. QED
    BY <2>2, <2>3
<1>9. CASE ReadHead
  <2>1. /\ channel # <<>> /\ Head(channel) = channel[1] /\ channel[1].of \in Messages
        /\ channel' \in Seq(Parts) /\ arrived' \in 0..Len(channel')
        /\ requested' = requested /\ channel' = Tail(channel)
    BY <1>9, Shrunk DEF ReadHead
  <2>2. channel[1].part = 1 /\ mid' = channel[1].of /\ at \in {"first", "more"} /\ at' = at /\ history' = history
    BY <1>9, <2>1 DEF ReadHead, guest
  <2>3. Typed'
    BY <1>9, <2>1, <2>2 DEF ReadHead, guest, waiting, input, Typed, TypeOK
  <2>4. QED
    BY <2>1, <2>2, <2>3, WireShrinks
<1>10. CASE ReadRest
  <2>1. UNCHANGED <<history, dirty, mid, mods, bad, pressed, held, behind>> /\ mid = Nothing /\ at \in {"first", "more"}
    BY <1>10 DEF ReadRest, guest, input
  <2>2. Unspent
    BY <1>10, SpentTyped DEF ReadRest, Misread
  <2>3. /\ channel' \in Seq(Parts) /\ arrived' \in 0..Len(channel') /\ requested' \in BOOLEAN /\ WireFits'
    <3>1. CASE Take
      <4>1. /\ channel # <<>> /\ channel' \in Seq(Parts) /\ arrived' \in 0..Len(channel')
            /\ requested' = requested /\ channel' = Tail(channel)
        BY <3>1, Shrunk
      <4>2. requested' \in BOOLEAN
        BY <4>1, Zenon DEF Typed, TypeOK
      <4>3. QED
        BY <2>1, <4>1, <4>2, WireShrinks
    <3>2. CASE UNCHANGED wire
      <4>1. channel' = channel /\ arrived' = arrived /\ requested' = requested
        BY <3>2 DEF wire
      <4>2. requested' \in BOOLEAN
        BY <4>1, Zenon DEF Typed, TypeOK
      <4>3. Len(history') \in Nat /\ Len(history) <= Len(history')
        BY <1>1, <2>1
      <4>4. QED
        BY <1>1, <2>1, <4>1, <4>2, <4>3, WireStill DEF Typed, TypeOK
    <3>3. QED
      BY <1>10, <3>1, <3>2 DEF ReadRest, Misread
  <2>4. /\ at' \in {"idle", "tail", "first", "more"} /\ round' \in 1..2 /\ stable' \in 0..1
        /\ goal' \in {"look", "change", "stable"} /\ began' \in 0..Len(history)
        /\ result' \in {"none", "frame", "late", "error"}
    BY <1>1, <1>10, <2>1, SMTT(30) DEF ReadRest, Misread, End, waiting, Typed, TypeOK
  <2>5. fb' \in Screens
    BY <1>10 DEF ReadRest, Misread, Typed, Screens, Black, Junk
  <2>6. pixels' \in BOOLEAN
    <3>1. pixels' = FALSE \/ pixels' = TRUE \/ pixels' = pixels
      BY <1>10 DEF ReadRest, Misread, End
    <3>2. QED
      BY <3>1, Zenon DEF Typed, TypeOK
  <2>7. Typed'
    BY <2>1, <2>2, <2>3, <2>4, <2>5, <2>6, HistoryFits, SMTT(30) DEF Typed, TypeOK, Unspent
  <2>8. QED
    BY <2>3, <2>7
<1>11. CASE ReadBody
  <2>1. /\ channel # <<>> /\ channel' \in Seq(Parts) /\ arrived' \in 0..Len(channel')
        /\ requested' = requested /\ channel' = Tail(channel)
    BY <1>11, Shrunk DEF ReadBody
  <2>2. mid' = Nothing /\ history' = history /\ mid \in Messages /\ fb' = Painted(mid) /\ at' \in {at, "tail"}
    BY <1>11 DEF ReadBody, guest, Typed
  <2>3. 1 \in 1..Len(channel) /\ channel[1].of = mid
    BY <1>1, <2>1, <1>11 DEF ReadBody, WireFits, Followed
  <2>4. fb' \in Screens
    BY <2>2, <2>3, PaintedTyped DEF WireFits, Ordered
  <2>5. pixels' \in BOOLEAN
    BY <1>11, Zenon DEF ReadBody, HadPixels, Typed, TypeOK
  <2>6. Typed'
    BY <1>11, <2>1, <2>2, <2>4, <2>5 DEF ReadBody, guest, waiting, input, Typed, TypeOK
  <2>7. QED
    BY <2>1, <2>2, <2>6, WireShrinks
<1>12. CASE ReadMore
  <2>1. Rest /\ requested' = requested
    BY <1>12 DEF ReadMore, wire, guest, reading, Rest
  <2>2. WireFits' /\ requested' \in BOOLEAN
    BY <1>2, <2>1
  <2>3. Typed'
    BY <1>12, <2>1, <2>2 DEF ReadMore, Rest, reading, waiting, input, Typed, TypeOK
  <2>4. QED
    BY <2>2, <2>3
<1>13. Answered => behind' \in Nat
  BY DEF Answered, Typed, TypeOK
<1>14. CASE AskAgain
  <2>1. Rest /\ requested' = TRUE
    BY <1>14 DEF AskAgain, StartFrame, Request, guest, Rest
  <2>2. WireFits' /\ requested' \in BOOLEAN
    BY <1>2, <2>1
  <2>3. Typed'
    BY <1>13, <1>14, <2>1, <2>2 DEF AskAgain, StartFrame, waiting, input, Rest, Typed, TypeOK
  <2>4. QED
    BY <2>2, <2>3
<1>15. ASSUME FrameReturned \/ WaitExpires
       PROVE  Typed' /\ WireFits'
  <2>1. Rest /\ requested' = requested /\ Answered
    BY <1>15 DEF FrameReturned, WaitExpires, wire, guest, Rest
  <2>2. WireFits' /\ requested' \in BOOLEAN
    BY <1>2, <2>1
  <2>3. pixels' = FALSE /\ at' = "idle" /\ at = "tail" /\ round' = 1 /\ stable' = 0 /\ result' \in {"frame", "late"}
        /\ goal' \in {goal, "look"} /\ began' \in {began, 0} /\ UNCHANGED <<mods, bad, pressed, held, spent>>
    BY <1>15 DEF FrameReturned, WaitExpires, End, HasFrame, input
  <2>4. pixels' \in BOOLEAN
    BY <2>3, Zenon
  <2>5. Typed'
    BY <1>13, <2>1, <2>2, <2>3, <2>4 DEF Rest, Typed, TypeOK
  <2>6. QED
    BY <2>2, <2>5
<1>16. CASE PollAgain
  <2>1. Rest /\ requested' = TRUE /\ Answered
    BY <1>16 DEF PollAgain, StartFrame, Request, guest, Rest
  <2>2. WireFits' /\ requested' \in BOOLEAN
    BY <1>2, <2>1
  <2>3. pixels' = FALSE /\ at' = "first" /\ at = "tail" /\ round' = 1 /\ UNCHANGED <<goal, began, result, mods, bad, pressed, held, spent>>
    BY <1>16 DEF PollAgain, StartFrame, HasFrame, input
  <2>4. pixels' \in BOOLEAN
    BY <2>3, Zenon
  <2>5. stable' \in 0..1
    <3>1. goal \in {"look", "change", "stable"} /\ stable \in 0..1
      BY DEF Typed, TypeOK
    <3>2. CASE goal = "stable"
      <4>1. stable' = (IF Same THEN stable + 1 ELSE 0) /\ ~(Same /\ stable = 1)
        BY <1>16, <3>2 DEF PollAgain, Satisfied
      <4>2. QED
        BY <3>1, <4>1
    <3>3. CASE goal # "stable"
      BY <1>16, <3>1, <3>3 DEF PollAgain
    <3>4. QED
      BY <3>2, <3>3
  <2>6. Typed'
    BY <1>13, <2>1, <2>2, <2>3, <2>4, <2>5 DEF Rest, Typed, TypeOK
  <2>7. QED
    BY <2>2, <2>6
<1>17. CASE Timeout
  <2>1. channel' = channel /\ mid' = Nothing /\ history' = history
    BY <1>17 DEF Timeout, wire, guest
  <2>2. Len(history') \in Nat /\ Len(history) <= Len(history')
    BY <1>1, <2>1
  <2>3. pixels' = FALSE /\ at' = "idle" /\ round' = 1 /\ stable' = 0 /\ result' = "late"
        /\ goal' = "look" /\ began' = 0
        /\ UNCHANGED <<requested, dirty, arrived, fb, mods, bad, pressed, held, behind, spent>>
    BY <1>17 DEF Timeout, End, input, guest, wire
  <2>4. pixels' \in BOOLEAN
    BY <2>3, Zenon
  <2>5. Typed'
    BY <1>1, <2>1, <2>3, <2>4 DEF Typed, TypeOK
  <2>6. QED
    BY <2>1, <2>2, <2>5, WireStill
<1>18. ASSUME NEW n \in {0, 2}, NEW wrong \in 0..3, Shortcut(n, wrong)
       PROVE  Typed' /\ WireFits'
  <2>1. Rest /\ requested' = requested
    BY <1>18 DEF Shortcut, wire, guest, reading, Rest
  <2>2. WireFits' /\ requested' \in BOOLEAN
    BY <1>2, <2>1
  <2>3. Unspent
    BY <1>18, SpentTyped DEF Shortcut
  <2>4. Typed'
    BY <1>1, <1>18, <2>1, <2>2, <2>3, HistoryFits DEF Unspent, Shortcut, Rest, reading, Typed, TypeOK
  <2>5. QED
    BY <2>2, <2>4
<1>19. ASSUME Typing, Unspent, at' \in {"idle", "mods", "key", "hold", "release"}, at \notin {"first", "more"},
              held' \subseteq 1..3, pressed' \in 0..2, mods' = mods, bad' = bad, behind' = behind
       PROVE  Typed' /\ WireFits'
  <2>1. Rest /\ requested' = requested
    BY <1>19 DEF Typing, wire, guest, reading, Rest
  <2>2. WireFits' /\ requested' \in BOOLEAN
    BY <1>2, <2>1
  <2>3. Typed'
    BY <1>19, <2>1, <2>2, HistoryFits DEF Unspent, Typing, Rest, reading, waiting, Typed, TypeOK
  <2>4. QED
    BY <2>2, <2>3
<1>20. CASE Keys
  <2>1. held \subseteq 1..3 /\ mods \in {0, 2} /\ pressed \in 0..2
    BY DEF Typed, TypeOK
  <2>2. CASE ModifierDown
    BY <1>19, <2>1, <2>2, SpentTyped DEF ModifierDown, KeysFit
  <2>3. CASE ModifierUnknown
    BY <1>19, <2>1, <2>3, SpentTyped DEF ModifierUnknown, input
  <2>4. CASE KeyDown
    BY <1>19, <2>1, <2>4, SpentTyped DEF KeyDown
  <2>5. CASE KeyUnknown
    BY <1>19, <2>1, <2>5, SpentTyped DEF KeyUnknown, AfterFailure
  <2>6. CASE KeyUp
    BY <1>19, <2>1, <2>6, SpentTyped DEF KeyUp
  <2>7. CASE ModifierUp
    BY <1>19, <2>1, <2>7, SpentTyped DEF ModifierUp, KeysFit
  <2>8. QED
    BY <1>20, <2>2, <2>3, <2>4, <2>5, <2>6, <2>7 DEF Keys
<1>21. CASE Cancelled
  BY <1>19, <1>21, SpentTyped DEF Cancelled, AfterFailure, Typed, TypeOK
<1>22. CASE UNCHANGED vars
  <2>1. Rest /\ requested' = requested
    BY <1>22 DEF vars, wire, guest, reading, Rest
  <2>2. WireFits'
    BY <1>2, <2>1
  <2>3. QED
    BY <1>22, <2>1, <2>2 DEF vars, guest, wire, reading, waiting, input, Typed, TypeOK
<1>23. QED
  BY <1>3, <1>5, <1>6, <1>7, <1>8, <1>9, <1>10, <1>11, <1>12, <1>14, <1>15, <1>16, <1>17, <1>18, <1>20, <1>21, <1>22
  DEF Next, Over, Read, Poll

------------------------------------------------------------------------------
(* The client reads heads where heads are *)

\* A body is followed by a head, and only a call that was given up between the
\* two leaves a body to be taken for a message.
InStep ==
  /\ \A i \in 1..Len(channel) : channel[i].part = 2 => i = Len(channel) \/ channel[i + 1].part = 1
  /\ OutOfStep => "late" \in odd
  /\ "late" \in odd \/ mid # Nothing \/ channel = <<>> \/ channel[1].part = 1

LEMMA InStepInit == Init => InStep
BY DEF Init, InStep, OutOfStep

LEMMA RestIsLate ==
  ASSUME Typed, InStep, ReadRest
  PROVE  "late" \in odd /\ "late" \in odd'
<1>1. odd \subseteq odd' /\ mid = Nothing /\ arrived > 0 /\ (Head(channel).part = 2 \/ OutOfStep)
  BY DEF ReadRest
<1>2. channel # <<>> /\ Head(channel) = channel[1]
  BY <1>1, Taken DEF Typed, TypeOK
<1>3. "late" \in odd
  BY <1>1, <1>2 DEF InStep
<1>4. QED
  BY <1>1, <1>3

LEMMA StepsGrow ==
  ASSUME Typed, InStep, NEW m \in Messages, channel' = channel \o Both(m), mid' = mid,
         odd' = odd \/ odd' = odd \cup {"text"}
  PROVE  InStep'
<1>1. channel \in Seq(Parts)
  BY DEF Typed
<1>2. PICK n \in Nat : n = Len(channel)
  BY <1>1
<1>3. /\ Len(channel') = n + 2 /\ \A i \in 1..n : channel'[i] = channel[i]
      /\ channel'[n + 1].part = 1 /\ channel'[n + 2].part = 2
  <2>1. /\ Len(channel \o Both(m)) = Len(channel) + 2
        /\ \A i \in 1..Len(channel) : (channel \o Both(m))[i] = channel[i]
        /\ (channel \o Both(m))[Len(channel) + 1] = [part |-> 1, of |-> m]
        /\ (channel \o Both(m))[Len(channel) + 2] = [part |-> 2, of |-> m]
    BY <1>1, Sent, Zenon
  <2>2. QED
    BY <1>2, <2>1
<1>4. ASSUME NEW i \in 1..n + 2, channel'[i].part = 2
      PROVE  i = n + 2 \/ channel'[i + 1].part = 1
  <2>1. CASE i \in 1..n /\ i # n
    <3>1. i + 1 \in 1..n /\ channel[i].part = 2 /\ i \in 1..Len(channel) /\ i # Len(channel)
      BY <1>2, <1>3, <1>4, <2>1
    <3>2. QED
      BY <1>3, <3>1 DEF InStep
  <2>2. CASE i = n
    BY <1>3, <2>2
  <2>3. QED
    BY <1>3, <1>4, <2>1, <2>2
<1>5. channel = <<>> \/ channel[1].part = 1 => channel'[1].part = 1
  <2>1. channel = <<>> => n = 0
    BY <1>2
  <2>2. channel # <<>> => 1 \in 1..n
    BY <1>1, <1>2
  <2>3. QED
    BY <1>3, <2>1, <2>2
<1>6. QED
  BY <1>3, <1>4, <1>5 DEF InStep, OutOfStep

LEMMA StepsShrink ==
  ASSUME Typed, InStep, channel # <<>>, channel' = Tail(channel), OutOfStep' => "late" \in odd',
         "late" \in odd' \/ mid' # Nothing \/ channel[1].part = 2
  PROVE  InStep'
<1>1. PICK n \in Nat : Len(channel) = n + 1
  <2>1. Len(channel) - 1 \in Nat /\ Len(channel) = (Len(channel) - 1) + 1
    BY DEF Typed
  <2>2. QED
    BY <2>1
<1>2. channel' \in Seq(Parts) /\ Len(channel') = n /\ \A i \in 1..n : channel'[i] = channel[i + 1]
  BY <1>1, Taken DEF Typed
<1>3. ASSUME NEW i \in 1..n, channel'[i].part = 2
      PROVE  i = n \/ channel'[i + 1].part = 1
  <2>1. i + 1 \in 1..Len(channel) /\ channel[i + 1].part = 2
    BY <1>1, <1>2, <1>3
  <2>2. i + 1 = Len(channel) \/ channel[(i + 1) + 1].part = 1
    BY <2>1 DEF InStep
  <2>3. QED
    BY <1>1, <1>2, <2>2
<1>4. channel[1].part = 2 => channel' = <<>> \/ channel'[1].part = 1
  <2>1. n = 0 => channel' = <<>>
    BY <1>2
  <2>2. n # 0 /\ channel[1].part = 2 => 1 \in 1..n /\ channel[1 + 1].part = 1
    BY <1>1 DEF InStep
  <2>3. QED
    BY <1>2, <2>1, <2>2
<1>5. QED
  BY <1>2, <1>3, <1>4 DEF InStep

LEMMA InStepStep ==
  ASSUME Typed, WireFits, InStep, [Next]_vars
  PROVE  InStep'
<1>1. ASSUME channel' = channel, OutOfStep' => OutOfStep, "late" \in odd => "late" \in odd',
             mid' = mid \/ "late" \in odd'
      PROVE  InStep'
  BY <1>1 DEF InStep
<1>2. ASSUME UNCHANGED <<channel, mid, odd>>
      PROVE  InStep'
  BY <1>1, <1>2 DEF OutOfStep
<1>3. CASE Serve
  <2>1. PICK rects \in {dirty, Regions} \ {{}} :
          channel' = channel \o Both([kind |-> "pixels", rects |-> rects, of |-> Len(history)])
    BY <1>3 DEF Serve
  <2>2. rects \in SUBSET Regions /\ Len(history) \in 1..MaxEvents + 1
    BY <2>1, HistoryFits DEF Typed, TypeOK
  <2>3. [kind |-> "pixels", rects |-> rects, of |-> Len(history)] \in Messages
    BY <2>2, Messaged
  <2>4. mid' = mid /\ odd' = odd
    BY <1>3 DEF Serve, reading
  <2>5. QED
    BY <2>1, <2>3, <2>4, StepsGrow
<1>4. ASSUME NEW kind \in {"resize", "text"}, Notify(kind)
      PROVE  InStep'
  <2>1. [kind |-> kind] \in Messages
    BY DEF Messages
  <2>2. mid' = mid /\ (odd' = odd \/ odd' = odd \cup {"text"}) /\ channel' = channel \o Both([kind |-> kind])
    BY <1>4 DEF Notify, reading
  <2>3. QED
    BY <2>1, <2>2, StepsGrow
<1>5. CASE ReadHead
  <2>1. /\ channel # <<>> /\ channel' = Tail(channel) /\ mid' = channel[1].of /\ channel[1].of \in Messages
        /\ odd' = odd
    BY <1>5, Shrunk DEF ReadHead
  <2>2. mid' # Nothing
    BY <2>1, Kinds
  <2>3. QED
    BY <2>1, <2>2, StepsShrink DEF InStep, OutOfStep
<1>6. CASE ReadRest
  <2>1. "late" \in odd'
    BY <1>6, RestIsLate
  <2>2. CASE Take
    <3>1. channel # <<>> /\ channel' = Tail(channel)
      BY <2>2, Shrunk
    <3>2. QED
      BY <2>1, <3>1, StepsShrink
  <2>3. CASE UNCHANGED wire
    BY <2>1, <2>3 DEF InStep, wire
  <2>4. QED
    BY <1>6, <2>2, <2>3 DEF ReadRest, Misread
<1>7. CASE ReadBody
  <2>1. channel # <<>> /\ channel' = Tail(channel) /\ channel[1].part = 2
    BY <1>7, Shrunk DEF ReadBody, WireFits, Followed
  <2>2. odd' = odd
    BY <1>7 DEF ReadBody
  <2>3. QED
    BY <2>1, <2>2, StepsShrink DEF InStep, OutOfStep
<1>8. ASSUME NEW r \in Regions, Change(r)
      PROVE  InStep'
  BY <1>2, <1>8 DEF Change, wire, reading
<1>9. ASSUME NEW for \in {"look", "change", "stable"}, Look(for)
      PROVE  InStep'
  BY <1>2, <1>9 DEF Look, StartFrame, Request
<1>10. CASE Arrive \/ ReadMore \/ AskAgain \/ FrameReturned \/ Poll
  BY <1>2, <1>10 DEF Arrive, ReadMore, AskAgain, FrameReturned, Poll, PollAgain, WaitExpires,
                     StartFrame, Request, wire, reading
<1>11. CASE Timeout
  BY <1>1, <1>11 DEF Timeout, wire, OutOfStep
<1>12. ASSUME NEW n \in {0, 2}, NEW wrong \in 0..3, Shortcut(n, wrong)
       PROVE  InStep'
  BY <1>2, <1>12 DEF Shortcut, wire, reading
<1>13. CASE Keys \/ Cancelled
  <2>1. Typing /\ (odd' = odd \/ odd' = odd \cup {"interrupted"})
    BY <1>13 DEF Keys, ModifierDown, ModifierUnknown, KeyDown, KeyUnknown, KeyUp, ModifierUp, Cancelled
  <2>2. QED
    BY <1>1, <2>1 DEF Typing, wire, reading, OutOfStep
<1>14. CASE UNCHANGED vars
  BY <1>2, <1>14 DEF vars, wire, reading
<1>15. QED
  BY <1>3, <1>4, <1>5, <1>6, <1>7, <1>8, <1>9, <1>10, <1>11, <1>12, <1>13, <1>14
  DEF Next, Over, Read

------------------------------------------------------------------------------
(* The pictures the client has and will have *)

\* What a message makes of a framebuffer, as Painted does of the present one.
On(h, p, m) ==
  CASE m.kind = "pixels" -> [r \in Regions |-> IF r \in m.rects THEN h[m.of][r] ELSE p[r]]
    [] m.kind = "resize" -> Black
    [] OTHER -> p

Whole(p) == p = Black \/ \E v \in 1..Len(history) : p = history[v]

\* w[i] is the framebuffer once the first i parts are read.
Foretold(w) ==
  /\ w[0] = fb
  /\ \A i \in 0..Len(channel) : Whole(w[i])
  /\ \A i \in 1..Len(channel) :
       w[i] = IF channel[i].part = 2 THEN On(history, w[i - 1], channel[i].of) ELSE w[i - 1]
  /\ \A i \in 1..Len(channel) : Body(channel, i, "pixels") => w[i] = history[channel[i].of.of]
  /\ \A r \in Regions \ dirty : w[Len(channel)][r] = Now[r]

\* Every framebuffer to come is whole, and the last one agrees with the screen
\* but for what the next update will bring.
PictureKept == ~OutOfStep => \E w \in [0..Len(channel) -> Screens] : Foretold(w)

LEMMA PictureInit == Init => PictureKept
<1> SUFFICES ASSUME Init
             PROVE  PictureKept
  OBVIOUS
<1>1. Typed
  BY TypedInit
<1>2. Black \in Screens /\ Len(channel) \in Nat
  BY <1>1 DEF Black, Screens, Typed
<1> DEFINE w == [i \in 0..Len(channel) |-> Black]
<1>3. w \in [0..Len(channel) -> Screens]
  BY <1>2
<1>4. \A i \in 0..Len(channel) : w[i] = Black
  OBVIOUS
<1>5. \A i \in 1..Len(channel) : i \in 0..Len(channel) /\ i - 1 \in 0..Len(channel) /\ 0 \in 0..Len(channel)
  BY <1>2
<1> HIDE DEF w
<1>6. \A i \in 1..Len(channel) : channel[i].part = 2 => channel[i].of.kind = "ack"
  <2>1. CASE channel = <<>>
    BY <2>1
  <2>2. CASE channel = <<[part |-> 1, of |-> [kind |-> "ack"]], [part |-> 2, of |-> [kind |-> "ack"]]>>
    BY <2>2
  <2>3. QED
    BY <2>1, <2>2 DEF Init
<1>7. fb = Black /\ dirty = Regions /\ 0 \in 0..Len(channel)
  BY <1>2 DEF Init
<1>8. Foretold(w)
  BY <1>4, <1>5, <1>6, <1>7 DEF Foretold, Whole, On, Body
<1>9. QED
  BY <1>3, <1>8 DEF PictureKept

LEMMA PictureStill ==
  ASSUME PictureKept, UNCHANGED <<history, dirty, channel, fb>>, OutOfStep => OutOfStep'
  PROVE  PictureKept'
<1> SUFFICES ASSUME ~OutOfStep'
             PROVE  (\E w \in [0..Len(channel) -> Screens] : Foretold(w))'
  BY DEF PictureKept
<1>1. PICK w \in [0..Len(channel) -> Screens] : Foretold(w)
  BY DEF PictureKept
<1>2. Foretold(w)'
  BY <1>1 DEF Foretold, Whole, Now, Body
<1>3. QED
  BY <1>2

LEMMA PictureChanges ==
  ASSUME Typed, WireFits, PictureKept, NEW r \in Regions, Change(r)
  PROVE  PictureKept'
<1> SUFFICES ASSUME ~OutOfStep'
             PROVE  (\E w \in [0..Len(channel) -> Screens] : Foretold(w))'
  BY DEF PictureKept
<1>0. OutOfStep' = OutOfStep /\ channel' = channel /\ fb' = fb /\ dirty' = dirty \cup {r}
  BY DEF Change, wire, reading, OutOfStep
<1>1. PICK w \in [0..Len(channel) -> Screens] : Foretold(w)
  BY <1>0 DEF PictureKept
<1>2. /\ Len(history) \in Nat /\ Len(history') = Len(history) + 1
      /\ \A v \in 1..Len(history) : history'[v] = history[v] /\ v \in 1..Len(history')
      /\ Now' = [Now EXCEPT ![r] = Len(history)] /\ Now \in Screens
  BY Changed
<1>3. channel \in Seq(Parts) /\ Len(channel) \in Nat
  BY DEF Typed
<1>4. \A i \in 0..Len(channel) : Whole(w[i])'
  BY <1>1, <1>2 DEF Foretold, Whole
<1>5. ASSUME NEW i \in 1..Len(channel)
      PROVE  /\ w[i] = IF channel[i].part = 2 THEN On(history', w[i - 1], channel[i].of) ELSE w[i - 1]
             /\ Body(channel, i, "pixels") => w[i] = history'[channel[i].of.of]
  <2>1. w[i] = IF channel[i].part = 2 THEN On(history, w[i - 1], channel[i].of) ELSE w[i - 1]
    BY <1>1 DEF Foretold
  <2>2. channel[i].of \in Messages
    BY <1>3, PartTyped
  <2>3. channel[i].of.kind = "pixels" => channel[i].of.of \in 1..Len(history)
    <3>1. channel[i].of.kind = "pixels" => channel[i].of.of \in Nat /\ channel[i].of.of >= 1
      BY <2>2, Kinds
    <3>2. channel[i].of.kind = "pixels" => channel[i].of.of <= Len(history)
      BY DEF WireFits, Ordered
    <3>3. QED
      BY <1>2, <3>1, <3>2
  <2>4. On(history', w[i - 1], channel[i].of) = On(history, w[i - 1], channel[i].of)
    BY <1>2, <2>3 DEF On
  <2>5. Body(channel, i, "pixels") => w[i] = history'[channel[i].of.of]
    BY <1>1, <1>2, <2>3 DEF Foretold, Body
  <2>6. QED
    BY <2>1, <2>4, <2>5
<1>6. \A s \in Regions \ dirty' : w[Len(channel)][s] = Now'[s]
  <2> TAKE s \in Regions \ dirty'
  <2>1. s \in Regions \ dirty /\ s # r
    BY <1>0
  <2>2. w[Len(channel)][s] = Now[s]
    BY <1>1, <2>1 DEF Foretold
  <2>3. Now'[s] = Now[s]
    BY <1>2, <2>1 DEF Screens
  <2>4. QED
    BY <2>2, <2>3
<1>7. Foretold(w)'
  BY <1>0, <1>1, <1>4, <1>5, <1>6 DEF Foretold, Body
<1>8. QED
  BY <1>0, <1>7

LEMMA PictureGrows ==
  ASSUME Typed, WireFits, PictureKept, NEW m \in Messages, channel' = channel \o Both(m),
         UNCHANGED <<history, fb>>, OutOfStep => OutOfStep',
         CASE m.kind = "pixels" -> m.of = Len(history) /\ dirty \subseteq m.rects
           [] m.kind = "resize" -> dirty' = Regions
           [] OTHER -> dirty' = dirty
  PROVE  PictureKept'
<1> SUFFICES ASSUME ~OutOfStep'
             PROVE  (\E w \in [0..Len(channel) -> Screens] : Foretold(w))'
  BY DEF PictureKept
<1>1. PICK w \in [0..Len(channel) -> Screens] : Foretold(w)
  BY DEF PictureKept
<1>2. channel \in Seq(Parts) /\ Len(channel) \in Nat /\ history \in Seq(Screens) /\ Len(history) \in Nat /\ Len(history) >= 1
  BY DEF Typed
<1>3. PICK n \in Nat : n = Len(channel)
  BY <1>2
<1>4. /\ Len(channel') = n + 2 /\ \A i \in 1..n : channel'[i] = channel[i]
      /\ channel'[n + 1].part = 1 /\ channel'[n + 2].part = 2 /\ channel'[n + 2].of = m
  <2>1. /\ Len(channel \o Both(m)) = Len(channel) + 2
        /\ \A i \in 1..Len(channel) : (channel \o Both(m))[i] = channel[i]
        /\ (channel \o Both(m))[Len(channel) + 1] = [part |-> 1, of |-> m]
        /\ (channel \o Both(m))[Len(channel) + 2] = [part |-> 2, of |-> m]
    BY <1>2, Sent, Zenon
  <2>2. QED
    BY <1>3, <2>1
<1>5. PICK last : last = On(history, w[n], m)
  OBVIOUS
<1>6. Now \in Screens /\ Now = history[Len(history)] /\ Len(history) \in 1..Len(history)
  BY <1>2 DEF Now
<1>7. w[n] \in Screens /\ Whole(w[n]) /\ \A r \in Regions \ dirty : w[n][r] = Now[r]
  BY <1>1, <1>3 DEF Foretold
<1>8. /\ last \in Screens /\ Whole(last) /\ (m.kind = "pixels" => last = history[m.of])
      /\ \A r \in Regions \ dirty' : last[r] = Now[r]
  <2>1. CASE m.kind = "pixels"
    <3>1. last = [r \in Regions |-> IF r \in m.rects THEN Now[r] ELSE w[n][r]]
      BY <1>5, <1>6, <2>1 DEF On
    <3>2. last = Now
      BY <1>6, <1>7, <2>1, <3>1 DEF Screens
    <3>3. QED
      BY <1>6, <3>2 DEF Whole
  <2>2. CASE m.kind = "resize"
    BY <1>5, <2>2 DEF On, Whole, Black, Screens
  <2>3. CASE m.kind # "pixels" /\ m.kind # "resize"
    BY <1>5, <1>7, <2>3 DEF On
  <2>4. QED
    BY <2>1, <2>2, <2>3
<1> DEFINE u == [i \in 0..n + 2 |-> IF i <= n THEN w[i] ELSE IF i = n + 1 THEN w[n] ELSE last]
<1>9. u \in [0..n + 2 -> Screens]
  BY <1>1, <1>3, <1>7, <1>8
<1>10. (\A i \in 0..n : u[i] = w[i]) /\ u[n + 1] = w[n] /\ u[n + 2] = last /\ u[n] = w[n]
  BY <1>3
<1> HIDE DEF u
<1>11. \A i \in 0..n + 2 : i \in 0..n \/ i = n + 1 \/ i = n + 2
  BY <1>3
<1>12. \A i \in 0..n + 2 : Whole(u[i])
  BY <1>1, <1>3, <1>7, <1>8, <1>10, <1>11 DEF Foretold
<1>13. ASSUME NEW i \in 1..n + 2
       PROVE  u[i] = IF channel'[i].part = 2 THEN On(history, u[i - 1], channel'[i].of) ELSE u[i - 1]
  <2>1. CASE i \in 1..n
    <3>1. i \in 0..n /\ i - 1 \in 0..n
      BY <1>3, <2>1
    <3>2. w[i] = IF channel[i].part = 2 THEN On(history, w[i - 1], channel[i].of) ELSE w[i - 1]
      BY <1>1, <1>3, <2>1 DEF Foretold
    <3>3. QED
      BY <1>4, <1>10, <2>1, <3>1, <3>2
  <2>2. CASE i = n + 1
    <3>1. u[i - 1] = w[n] /\ u[i] = w[n]
      BY <1>3, <1>10, <2>2
    <3>2. channel'[i].part = 1
      BY <1>4, <2>2
    <3>3. QED
      BY <3>1, <3>2
  <2>3. CASE i = n + 2
    <3>1. i - 1 = n + 1
      BY <1>3, <2>3
    <3>2. QED
      BY <1>4, <1>5, <1>10, <2>3, <3>1
  <2>4. i \in 1..n \/ i = n + 1 \/ i = n + 2
    BY <1>3, <1>13
  <2>5. QED
    BY <2>1, <2>2, <2>3, <2>4
<1>14. u[0] = fb
  BY <1>1, <1>3, <1>10 DEF Foretold
<1>15. ASSUME NEW i \in 1..n + 2, Body(channel', i, "pixels")
       PROVE  u[i] = history[channel'[i].of.of]
  <2>1. i \in 1..n \/ i = n + 2
    BY <1>3, <1>4, <1>15 DEF Body
  <2>2. CASE i \in 1..n
    <3>1. i \in 0..n /\ Body(channel, i, "pixels") /\ channel'[i] = channel[i]
      BY <1>3, <1>4, <1>15, <2>2 DEF Body
    <3>2. QED
      BY <1>1, <1>3, <1>10, <2>2, <3>1 DEF Foretold
  <2>3. CASE i = n + 2
    BY <1>4, <1>8, <1>10, <1>15, <2>3 DEF Body
  <2>4. QED
    BY <2>1, <2>2, <2>3
<1>16. Foretold(u)'
  <2>1. \A i \in 1..Len(channel') : Body(channel', i, "pixels") => u[i] = history'[channel'[i].of.of]
    BY <1>4, <1>15
  <2>2. QED
    BY <1>4, <1>8, <1>10, <1>12, <1>13, <1>14, <2>1 DEF Foretold, Whole, Now, Body
<1>17. QED
  BY <1>4, <1>9, <1>16

LEMMA PictureShrinks ==
  ASSUME Typed, WireFits, PictureKept, channel # <<>>, channel' = Tail(channel), UNCHANGED <<history, dirty>>,
         OutOfStep => OutOfStep', fb' = IF channel[1].part = 2 THEN On(history, fb, channel[1].of) ELSE fb
  PROVE  PictureKept'
<1> SUFFICES ASSUME ~OutOfStep'
             PROVE  (\E w \in [0..Len(channel) -> Screens] : Foretold(w))'
  BY DEF PictureKept
<1>1. PICK w \in [0..Len(channel) -> Screens] : Foretold(w)
  BY DEF PictureKept
<1>2. /\ Len(channel') = Len(channel) - 1 /\ Len(channel) \in Nat /\ Len(channel) >= 1
      /\ \A i \in 1..Len(channel) - 1 : channel'[i] = channel[i + 1]
  BY Taken DEF Typed
<1>3. PICK n \in Nat : n = Len(channel) - 1
  <2>1. Len(channel) - 1 \in Nat
    BY <1>2
  <2>2. QED
    BY <2>1
<1>4. Len(channel) = n + 1 /\ Len(channel') = n /\ \A i \in 1..n : channel'[i] = channel[i + 1]
  BY <1>2, <1>3
<1> DEFINE u == [i \in 0..n |-> w[i + 1]]
<1>5. \A i \in 0..n : i + 1 \in 0..Len(channel) /\ i + 1 \in 1..Len(channel)
  BY <1>3, <1>4
<1>6. u \in [0..n -> Screens] /\ \A i \in 0..n : u[i] = w[i + 1]
  BY <1>1, <1>5
<1> HIDE DEF u
<1>7. \A i \in 0..n : Whole(u[i])
  BY <1>1, <1>5, <1>6 DEF Foretold
<1>8. u[0] = fb'
  <2>1. 0 \in 0..n /\ 0 + 1 = 1 /\ 1 \in 1..Len(channel) /\ 1 - 1 = 0
    BY <1>4
  <2>2. w[1] = IF channel[1].part = 2 THEN On(history, w[0], channel[1].of) ELSE w[0]
    BY <1>1, <2>1 DEF Foretold
  <2>3. QED
    BY <1>1, <1>6, <2>1, <2>2 DEF Foretold
<1>9. ASSUME NEW i \in 1..n
      PROVE  /\ u[i] = IF channel'[i].part = 2 THEN On(history, u[i - 1], channel'[i].of) ELSE u[i - 1]
             /\ Body(channel', i, "pixels") => u[i] = history[channel'[i].of.of]
  <2>1. i \in 0..n /\ i - 1 \in 0..n /\ (i + 1) - 1 = i /\ (i - 1) + 1 = i /\ i + 1 \in 1..Len(channel)
    BY <1>3, <1>4
  <2>2. w[i + 1] = IF channel[i + 1].part = 2 THEN On(history, w[i], channel[i + 1].of) ELSE w[i]
    BY <1>1, <2>1 DEF Foretold
  <2>3. u[i] = w[i + 1] /\ u[i - 1] = w[i] /\ channel'[i] = channel[i + 1]
    BY <1>4, <1>6, <2>1
  <2>4. Body(channel', i, "pixels") => u[i] = history[channel'[i].of.of]
    BY <1>1, <2>1, <2>3 DEF Foretold, Body
  <2>5. QED
    BY <2>2, <2>3, <2>4
<1>10. \A r \in Regions \ dirty : u[n][r] = Now[r]
  <2>1. n \in 0..n /\ u[n] = w[Len(channel)]
    BY <1>3, <1>4, <1>6
  <2>2. QED
    BY <1>1, <2>1 DEF Foretold
<1>11. Foretold(u)'
  BY <1>4, <1>7, <1>8, <1>9, <1>10 DEF Foretold, Whole, Now, Body
<1>12. QED
  BY <1>4, <1>6, <1>11

LEMMA BodyRead ==
  ASSUME Typed, WireFits, ReadBody
  PROVE  /\ channel \in Seq(Parts) /\ channel # <<>> /\ channel' = Tail(channel) /\ 1 \in 1..Len(channel)
         /\ channel[1].part = 2 /\ channel[1].of = mid /\ mid \in Messages
         /\ \A kind : Body(channel, 1, kind) <=> mid.kind = kind
         /\ fb' = On(history, fb, mid) /\ UNCHANGED <<history, dirty, requested>>
         /\ at \in {"first", "more"}
<1>1. channel \in Seq(Parts) /\ channel # <<>> /\ channel' = Tail(channel) /\ Len(channel) \in Nat /\ requested' = requested
  BY Shrunk DEF ReadBody, Typed
<1>2. channel[1].part = 2 /\ channel[1].of = mid /\ mid \in Messages /\ 1 \in 1..Len(channel)
  BY <1>1 DEF ReadBody, Typed, WireFits, Followed
<1>3. fb' = On(history, fb, mid) /\ UNCHANGED <<history, dirty>>
  BY DEF ReadBody, Painted, On, guest
<1>4. at \in {"first", "more"}
  BY DEF ReadBody, Typed, TypeOK
<1>5. \A kind : Body(channel, 1, kind) <=> mid.kind = kind
  BY <1>2 DEF Body
<1>6. QED
  BY <1>1, <1>2, <1>3, <1>4, <1>5

LEMMA PictureStep ==
  ASSUME Typed, WireFits, PictureKept, [Next]_vars
  PROVE  PictureKept'
<1> USE PictureStill DEF OutOfStep
<1>1. ASSUME NEW r \in Regions, Change(r)
      PROVE  PictureKept'
  BY <1>1, PictureChanges
<1>2. CASE Serve
  <2>1. PICK rects \in {dirty, Regions} \ {{}} :
          channel' = channel \o Both([kind |-> "pixels", rects |-> rects, of |-> Len(history)])
    BY <1>2 DEF Serve
  <2>2. rects \in SUBSET Regions /\ dirty \subseteq rects /\ Len(history) \in 1..MaxEvents + 1
    BY <2>1, HistoryFits DEF Typed, TypeOK
  <2>3. PICK m : m = [kind |-> "pixels", rects |-> rects, of |-> Len(history)]
    OBVIOUS
  <2>4. m \in Messages /\ m.kind = "pixels" /\ m.of = Len(history) /\ m.rects = rects
    BY <2>2, <2>3, Messaged
  <2>5. UNCHANGED <<history, fb>> /\ (OutOfStep => OutOfStep')
    BY <1>2 DEF Serve, reading
  <2>6. QED
    BY <2>1, <2>2, <2>3, <2>4, <2>5, PictureGrows
<1>3. ASSUME NEW kind \in {"resize", "text"}, Notify(kind)
      PROVE  PictureKept'
  <2>1. PICK m : m = [kind |-> kind]
    OBVIOUS
  <2>2. m \in Messages /\ m.kind = kind
    BY <2>1 DEF Messages
  <2>3. /\ UNCHANGED <<history, fb>> /\ (OutOfStep => OutOfStep') /\ channel' = channel \o Both(m)
        /\ (kind = "resize" => dirty' = Regions) /\ (kind # "resize" => dirty' = dirty)
    BY <1>3, <2>1 DEF Notify, reading
  <2>4. QED
    BY <2>2, <2>3, PictureGrows
<1>4. CASE Arrive
  BY <1>4 DEF Arrive, guest, reading
<1>5. ASSUME NEW for \in {"look", "change", "stable"}, Look(for)
      PROVE  PictureKept'
  BY <1>5 DEF Look, StartFrame, Request, guest
<1>6. CASE ReadHead
  <2>1. channel # <<>> /\ channel' = Tail(channel) /\ channel[1].part = 1
    BY <1>6, Shrunk DEF ReadHead
  <2>2. UNCHANGED <<history, dirty, fb>> /\ (OutOfStep => OutOfStep')
    BY <1>6 DEF ReadHead, guest
  <2>3. fb' = IF channel[1].part = 2 THEN On(history, fb, channel[1].of) ELSE fb
    BY <2>1, <2>2
  <2>4. QED
    BY <2>1, <2>2, <2>3, PictureShrinks
<1>7. CASE ReadRest
  BY <1>7 DEF ReadRest, PictureKept
<1>8. CASE ReadBody
  <2>1. /\ channel # <<>> /\ channel' = Tail(channel) /\ channel[1].part = 2 /\ channel[1].of = mid
        /\ fb' = On(history, fb, mid) /\ UNCHANGED <<history, dirty>>
    BY <1>8, BodyRead
  <2>2. fb' = IF channel[1].part = 2 THEN On(history, fb, channel[1].of) ELSE fb
    BY <2>1
  <2>3. OutOfStep => OutOfStep'
    BY <1>8 DEF ReadBody
  <2>4. QED
    BY <2>1, <2>2, <2>3, PictureShrinks
<1>9. CASE ReadMore \/ AskAgain \/ FrameReturned
  BY <1>9 DEF ReadMore, AskAgain, FrameReturned, StartFrame, Request, End, guest, wire, reading, HasFrame
<1>10. CASE Poll \/ Timeout
  BY <1>10 DEF Poll, PollAgain, WaitExpires, Timeout, StartFrame, Request, End, guest, wire, HasFrame
<1>11. ASSUME NEW n \in {0, 2}, NEW wrong \in 0..3, Shortcut(n, wrong)
       PROVE  PictureKept'
  BY <1>11 DEF Shortcut, guest, wire, reading
<1>12. CASE Keys \/ Cancelled
  <2>1. Typing /\ (OutOfStep => OutOfStep')
    BY <1>12 DEF Keys, ModifierDown, ModifierUnknown, KeyDown, KeyUnknown, KeyUp, ModifierUp, Cancelled
  <2>2. QED
    BY <2>1 DEF Typing, guest, wire, reading
<1>13. CASE UNCHANGED vars
  BY <1>13 DEF vars, guest, wire, reading
<1>14. QED
  BY <1>1, <1>2, <1>3, <1>4, <1>5, <1>6, <1>7, <1>8, <1>9, <1>10, <1>11, <1>12, <1>13 DEF Next, Over, Read

------------------------------------------------------------------------------
(* The answers that are owed, and frames without pixels *)

InFrame == at \in {"first", "tail", "more"}
AckComing == \E i \in 1..Len(channel) : Body(channel, i, "ack")

\* A frame that has read no pixels has read a resize, or the acknowledgement,
\* which comes once.
Ready ==
  /\ at \notin {"tail", "more"} => ~pixels
  /\ at \in {"tail", "more"} /\ ~pixels => "late" \in odd \/ fb = Black \/ (round = 1 /\ ~AckComing)
  /\ at = "first" /\ round = 2 => "late" \in odd \/ fb = Black \/ ~AckComing
  /\ InFrame \/ Returned => began >= 1

LEMMA ReadyInit == Init => Ready
BY DEF Init, Ready, InFrame, Returned

LEMMA NoNewAck ==
  ASSUME Typed, NEW m \in Messages, m.kind # "ack", channel' = channel \o Both(m), AckComing'
  PROVE  AckComing
<1>1. channel \in Seq(Parts) /\ Len(channel) \in Nat
  BY DEF Typed
<1>2. /\ Len(channel') = Len(channel) + 2 /\ \A i \in 1..Len(channel) : channel'[i] = channel[i]
      /\ channel'[Len(channel) + 1] = [part |-> 1, of |-> m]
      /\ channel'[Len(channel) + 2] = [part |-> 2, of |-> m]
  BY <1>1, Sent, ZenonT(30)
<1>3. PICK i \in 1..Len(channel') : channel'[i].part = 2 /\ channel'[i].of.kind = "ack"
  BY DEF AckComing, Body
<1>4. i # Len(channel) + 1 /\ i # Len(channel) + 2
  BY <1>2, <1>3
<1>5. i \in 1..Len(channel)
  BY <1>1, <1>2, <1>3, <1>4
<1>6. QED
  BY <1>2, <1>3, <1>5 DEF AckComing, Body

LEMMA AckRead ==
  ASSUME Typed, WireFits, channel # <<>>, channel' = Tail(channel), AckComing'
  PROVE  AckComing /\ ~Body(channel, 1, "ack")
<1>1. /\ Len(channel') = Len(channel) - 1 /\ Len(channel) \in Nat /\ Len(channel) >= 1
      /\ \A i \in 1..Len(channel) - 1 : channel'[i] = channel[i + 1]
  BY Taken DEF Typed
<1>2. PICK i \in 1..Len(channel') : Body(channel', i, "ack")
  BY DEF AckComing
<1>3. i + 1 \in 1..Len(channel) /\ Body(channel, i + 1, "ack") /\ i + 1 # 1 /\ 1 \in 1..Len(channel)
  BY <1>1, <1>2 DEF Body
<1>4. QED
  BY <1>3 DEF WireFits, OneAck, AckComing

LEMMA ReadyStep ==
  ASSUME Typed, KeysFit, WireFits, InStep, Ready, [Next]_vars
  PROVE  Ready'
<1>1. ASSUME UNCHANGED <<at, pixels, fb, round, result, began>>, AckComing' => AckComing,
             "late" \in odd => "late" \in odd'
      PROVE  Ready'
  BY <1>1 DEF Ready, InFrame, Returned
<1>2. ASSUME channel' = channel
      PROVE  AckComing' <=> AckComing
  BY <1>2 DEF AckComing, Body
<1>3. ASSUME NEW r \in Regions, Change(r)
      PROVE  Ready'
  BY <1>1, <1>2, <1>3 DEF Change, wire, reading, waiting
<1>4. CASE Serve
  <2>1. PICK rects \in {dirty, Regions} \ {{}} :
          channel' = channel \o Both([kind |-> "pixels", rects |-> rects, of |-> Len(history)])
    BY <1>4 DEF Serve
  <2>2. rects \in SUBSET Regions /\ Len(history) \in 1..MaxEvents + 1
    BY <2>1, HistoryFits DEF Typed, TypeOK
  <2>3. PICK m : m = [kind |-> "pixels", rects |-> rects, of |-> Len(history)]
    OBVIOUS
  <2>4. m \in Messages /\ m.kind # "ack"
    BY <2>2, <2>3, Messaged
  <2>5. AckComing' => AckComing
    BY <2>1, <2>3, <2>4, NoNewAck
  <2>6. QED
    BY <1>1, <1>4, <2>5 DEF Serve, reading, waiting
<1>5. ASSUME NEW kind \in {"resize", "text"}, Notify(kind)
      PROVE  Ready'
  <2>1. PICK m : m = [kind |-> kind]
    OBVIOUS
  <2>2. m \in Messages /\ m.kind # "ack"
    BY <2>1 DEF Messages
  <2>3. AckComing' => AckComing
    BY <1>5, <2>1, <2>2, NoNewAck DEF Notify
  <2>4. QED
    BY <1>1, <1>5, <2>3 DEF Notify, reading, waiting
<1>6. CASE Arrive
  BY <1>1, <1>2, <1>6 DEF Arrive, guest, reading, waiting
<1>7. ASSUME NEW for \in {"look", "change", "stable"}, Look(for)
      PROVE  Ready'
  <2>1. at = "idle" /\ at' = "first" /\ round' = 1 /\ pixels' = pixels /\ began' = Len(history)
    BY <1>7 DEF Look, StartFrame
  <2>2. Len(history) >= 1
    BY DEF Typed
  <2>3. QED
    BY <2>1, <2>2 DEF Ready, InFrame, Returned
<1>8. CASE ReadHead
  <2>1. channel # <<>> /\ channel' = Tail(channel)
    BY <1>8, Shrunk DEF ReadHead
  <2>2. AckComing' => AckComing
    BY <2>1, AckRead
  <2>3. QED
    BY <1>1, <1>8, <2>2 DEF ReadHead, waiting
<1>9. CASE ReadRest
  <2>1. "late" \in odd' /\ at \in {"first", "more"}
    BY <1>9, RestIsLate DEF ReadRest
  <2>2. \/ at' = "idle" /\ pixels' = FALSE /\ result' = "error"
        \/ at' = at /\ pixels' = pixels /\ began' = began
        \/ at' = "tail" /\ began' = began
    BY <1>9 DEF ReadRest, Misread, End, waiting
  <2>3. QED
    BY <2>1, <2>2 DEF Ready, InFrame, Returned
<1>10. CASE ReadBody
  <2>1. /\ channel # <<>> /\ channel' = Tail(channel) /\ mid \in Messages
        /\ \A kind : Body(channel, 1, kind) <=> mid.kind = kind
        /\ fb' = On(history, fb, mid) /\ at \in {"first", "more"}
    BY <1>10, BodyRead
  <2>2. UNCHANGED <<round, result, began, odd>> /\ pixels' = (pixels \/ mid.kind = "pixels")
    BY <1>10 DEF ReadBody, HadPixels, waiting
  <2>3. AckComing' => AckComing /\ mid.kind # "ack"
    BY <2>1, AckRead
  <2>4. at' = IF mid.kind = "text" THEN at ELSE "tail"
    BY <1>10 DEF ReadBody
  <2>5. began >= 1
    BY <2>1 DEF Ready, InFrame
  <2>6. CASE mid.kind = "pixels"
    BY <2>1, <2>2, <2>4, <2>5, <2>6 DEF Ready
  <2>7. CASE mid.kind = "text"
    <3>1. fb' = fb /\ at' = at /\ (pixels' <=> pixels)
      BY <2>1, <2>2, <2>4, <2>7 DEF On
    <3>2. QED
      BY <2>1, <2>2, <2>3, <2>5, <3>1 DEF Ready
  <2>8. CASE mid.kind = "resize"
    <3>1. fb' = Black /\ at' = "tail"
      BY <2>1, <2>4, <2>8 DEF On
    <3>2. Black' = Black
      BY DEF Black
    <3>3. QED
      BY <2>5, <2>2, <3>1, <3>2 DEF Ready
  <2>9. CASE mid.kind = "ack"
    <3>1. fb' = fb /\ at' = "tail" /\ (pixels' <=> pixels) /\ ~AckComing'
      BY <2>1, <2>2, <2>3, <2>4, <2>9 DEF On
    <3>2. AckComing
      <4>1. 1 \in 1..Len(channel)
        BY <1>10, BodyRead
      <4>2. QED
        BY <2>1, <2>9, <4>1 DEF AckComing
    <3>3. round \in 1..2
      BY DEF Typed, TypeOK
    <3>4. ~pixels => "late" \in odd \/ fb = Black \/ round = 1
      BY <2>1, <3>2, <3>3 DEF Ready
    <3>5. QED
      BY <2>2, <2>5, <3>1, <3>4 DEF Ready
  <2>10. QED
    BY <2>1, <2>6, <2>7, <2>8, <2>9, Kinds
<1>11. CASE ReadMore
  BY <1>2, <1>11 DEF ReadMore, wire, reading, waiting, Ready, InFrame
<1>12. CASE AskAgain
  BY <1>2, <1>12 DEF AskAgain, StartFrame, Request, waiting, Ready, InFrame
<1>13. ASSUME at' \notin {"first", "tail", "more"}, pixels' = FALSE \/ pixels' = pixels, began' = began \/ result' # "frame",
              at \notin {"tail", "more"} \/ pixels' = FALSE, InFrame \/ Returned \/ result' # "frame"
       PROVE  Ready'
  BY <1>13 DEF Ready, InFrame, Returned
<1>14. ASSUME FrameReturned \/ WaitExpires \/ Timeout
       PROVE  Ready'
  <2>1. at' = "idle" /\ pixels' = FALSE /\ (began' = began \/ result' # "frame") /\ InFrame
    BY <1>14 DEF FrameReturned, WaitExpires, Timeout, End, HasFrame, InFrame
  <2>2. QED
    BY <1>13, <2>1
<1>15. CASE PollAgain
  <2>1. at' = "first" /\ pixels' = FALSE /\ began' = began /\ InFrame /\ round' = 1
    BY <1>15 DEF PollAgain, StartFrame, HasFrame, InFrame
  <2>2. QED
    BY <2>1 DEF Ready
<1>16. ASSUME NEW n \in {0, 2}, NEW wrong \in 0..3, Shortcut(n, wrong)
       PROVE  Ready'
  <2>1. at' \notin {"first", "tail", "more"} /\ pixels' = pixels /\ result' = "none" /\ at = "idle"
    BY <1>16 DEF Shortcut, reading
  <2>2. QED
    BY <1>13, <2>1
<1>17. CASE Keys \/ Cancelled
  <2>1. /\ Typing /\ at \in {"mods", "key", "hold", "release"} /\ at' \notin {"first", "tail", "more"}
    BY <1>17 DEF Keys, ModifierDown, ModifierUnknown, KeyDown, KeyUnknown, KeyUp, ModifierUp, Cancelled, AfterFailure
  <2>2. pixels' = pixels /\ result' = "none"
    BY <2>1 DEF Typing, reading, waiting, KeysFit
  <2>3. QED
    BY <1>13, <2>1, <2>2
<1>18. CASE UNCHANGED vars
  BY <1>1, <1>2, <1>18 DEF vars, guest, wire, reading, waiting
<1>19. QED
  BY <1>3, <1>4, <1>5, <1>6, <1>7, <1>8, <1>9, <1>10, <1>11, <1>12, <1>14, <1>15, <1>16, <1>17, <1>18
  DEF Next, Over, Read, Poll

OrOne(b) == IF b THEN 1 ELSE 0

\* How many pictures of this wait were read before the frame in hand.
Looked == IF goal = "stable" /\ seen # Black THEN 1 + stable ELSE 0

Coming == Cardinality(Pictures(channel, Len(history) + 1))
Stale == Cardinality(Pictures(channel, began))

\* The answers under way are those of this frame and of requests left behind.
Owed == Coming + OrOne(requested) <= behind + OrOne(InFrame /\ ~pixels)

\* A picture older than the call was owed, and each frame of the wait read one.
Caught ==
  InFrame =>
    \/ Pictures(channel, began) = {} /\ (Blank \/ ShownSince(began))
    \/ Stale + OrOne(pixels) + Looked <= behind

Kept == "late" \notin odd => Owed /\ Caught

\* Bounds of sums.
LEMMA Raised == \A a, b \in Nat : a <= b => a + 1 <= b + 1
OBVIOUS

LEMMA Lifted ==
  /\ \A n \in Nat : 1 \in Nat /\ 1 <= 1 + n
  /\ \A a \in 0..1 : 1 + (a + 1) \in Nat /\ 1 + (a + 1) <= 1 + (1 + a)
OBVIOUS

LEMMA Carried ==
  ASSUME NEW a \in Nat, NEW p \in 0..1, NEW n \in Nat, NEW m \in Nat, NEW b \in Nat, NEW c \in Nat,
         a + p + n <= b, b <= c, m <= p + n
  PROVE  a + 0 + m <= c
OBVIOUS

LEMMA Counted ==
  ASSUME Typed
  PROVE  /\ Coming \in Nat /\ Stale \in Nat /\ behind \in Nat /\ Looked \in Nat /\ Stale <= Coming
         /\ Stale = 0 <=> Pictures(channel, began) = {}
         /\ channel \in Seq(Parts) /\ Len(history) \in Nat /\ began \in Nat /\ began <= Len(history)
<1>1. channel \in Seq(Parts) /\ Len(history) \in Nat /\ behind \in Nat /\ stable \in 0..1 /\ began \in 0..Len(history)
  BY DEF Typed, TypeOK
<1>2. began \in Nat /\ began <= Len(history) /\ Len(history) + 1 \in Nat /\ Looked \in Nat
  BY <1>1 DEF Looked
<1>3. /\ Coming \in Nat /\ Stale \in Nat /\ IsFiniteSet(Pictures(channel, Len(history) + 1))
      /\ Stale = 0 <=> Pictures(channel, began) = {}
  BY <1>1, <1>2, PicturesFinite DEF Coming, Stale
<1>4. Pictures(channel, began) \subseteq Pictures(channel, Len(history) + 1)
  <2> SUFFICES ASSUME NEW i \in Pictures(channel, began)
               PROVE  i \in Pictures(channel, Len(history) + 1)
    OBVIOUS
  <2>1. i \in 1..Len(channel) /\ Body(channel, i, "pixels") /\ channel[i].of.of < began
    BY DEF Pictures
  <2>2. channel[i].of \in Messages
    BY <1>1, <2>1, PartTyped
  <2>3. channel[i].of.of \in Nat
    BY <2>1, <2>2, Kinds DEF Body
  <2>4. channel[i].of.of < Len(history) + 1
    BY <1>1, <1>2, <2>1, <2>3
  <2>5. QED
    BY <2>1, <2>4 DEF Pictures
<1>5. Stale <= Coming
  BY <1>3, <1>4, FS_Subset DEF Coming, Stale
<1>6. QED
  BY <1>1, <1>2, <1>3, <1>5 DEF OrOne

LEMMA KeptInit == Init => Kept
<1> SUFFICES ASSUME Init
             PROVE  Kept
  OBVIOUS
<1>1. Typed /\ requested = FALSE /\ behind = 0 /\ at = "idle"
  BY TypedInit DEF Init
<1>2. Pictures(channel, Len(history) + 1) = {}
  <2>1. CASE channel = <<>>
    BY <2>1 DEF Pictures
  <2>2. CASE channel = <<[part |-> 1, of |-> [kind |-> "ack"]], [part |-> 2, of |-> [kind |-> "ack"]]>>
    BY <2>2 DEF Pictures, Body
  <2>3. QED
    BY <2>1, <2>2 DEF Init
<1>3. Coming = 0
  BY <1>2, FS_EmptySet DEF Coming
<1>4. OrOne(requested) = 0 /\ OrOne(InFrame /\ ~pixels) = 0
  BY <1>1 DEF OrOne, InFrame
<1>5. QED
  BY <1>1, <1>3, <1>4 DEF Kept, Owed, Caught, InFrame

\* A change adds no picture, and what was shown since the call still was.
LEMMA KeptChanges ==
  ASSUME Typed, WireFits, Ready, Kept, NEW r \in Regions, Change(r)
  PROVE  Kept'
<1>1. UNCHANGED <<requested, channel, at, pixels, fb, goal, seen, stable, began, behind, odd>>
  BY DEF Change, wire, reading, waiting
<1>2. /\ Len(history) \in Nat /\ Len(history') = Len(history) + 1
      /\ \A v \in 1..Len(history) : history'[v] = history[v]
  BY Changed
<1>3. Pictures(channel, Len(history') + 1) = Pictures(channel, Len(history) + 1)
  <2>1. ASSUME NEW i \in 1..Len(channel), Body(channel, i, "pixels")
        PROVE  channel[i].of.of < Len(history) + 1 /\ channel[i].of.of < Len(history') + 1
    <3>1. channel[i].of \in Messages
      BY PartTyped DEF Typed
    <3>2. channel[i].of.of \in Nat /\ channel[i].of.of <= Len(history)
      BY <2>1, <3>1, Kinds DEF Body, WireFits, Ordered
    <3>3. QED
      BY <1>2, <3>2
  <2>2. QED
    BY <2>1 DEF Pictures
<1>4. Coming' = Coming /\ Stale' = Stale /\ Pictures(channel, began)' = Pictures(channel, began)
  BY <1>1, <1>3 DEF Coming, Stale, Pictures, Body
<1>5. ASSUME InFrame, Blank \/ ShownSince(began)
      PROVE  (Blank \/ ShownSince(began))'
  <2>1. began >= 1 /\ began \in Nat
    BY <1>5, Counted DEF Ready
  <2>2. ASSUME ShownSince(began)
        PROVE  ShownSince(began)'
    <3>1. PICK v \in began..Len(history) : fb = history[v]
      BY <2>2 DEF ShownSince
    <3>2. v \in 1..Len(history) /\ v \in began..Len(history')
      BY <1>2, <2>1
    <3>3. fb' = history'[v]
      BY <1>1, <1>2, <3>1, <3>2
    <3>4. QED
      BY <1>1, <3>2, <3>3 DEF ShownSince
  <2>3. QED
    BY <1>1, <1>5, <2>2 DEF Blank, Black
<1>6. Owed => Owed'
  BY <1>1, <1>4 DEF Owed, InFrame
<1>7. Caught => Caught'
  BY <1>1, <1>4, <1>5 DEF Caught, InFrame, Looked, Black
<1>8. QED
  BY <1>1, <1>6, <1>7 DEF Kept

LEMMA KeptGrows ==
  ASSUME Typed, Kept, NEW m \in Messages, channel' = channel \o Both(m),
         UNCHANGED <<history, at, pixels, fb, goal, seen, stable, began, behind>>,
         "late" \notin odd' => "late" \notin odd,
         m.kind = "pixels" => m.of = Len(history) /\ requested = TRUE /\ requested' = FALSE,
         m.kind # "pixels" => requested' = requested
  PROVE  Kept'
<1>1. /\ Coming \in Nat /\ channel \in Seq(Parts) /\ Len(history) \in Nat /\ began \in Nat /\ began <= Len(history)
      /\ behind \in Nat /\ Len(history) + 1 \in Nat
  BY Counted
<1>2. Pictures(channel', began) = Pictures(channel, began)
  <2>1. m.kind # "pixels" \/ m.of >= began
    BY <1>1
  <2>2. QED
    BY <1>1, <2>1, PicturesSent
<1>3. Coming' \in Nat /\ Coming' <= Coming + 1 /\ (m.kind # "pixels" => Coming' = Coming)
  BY <1>1, PicturesSent DEF Coming
<1>4. Owed => Owed'
  <2>1. CASE m.kind = "pixels"
    <3>1. OrOne(requested) = 1 /\ OrOne(requested') = 0
      BY <2>1 DEF OrOne
    <3>2. PICK n \in Nat : n = behind + OrOne(InFrame /\ ~pixels)
      BY <1>1, Counted DEF OrOne
    <3>3. (behind + OrOne(InFrame /\ ~pixels))' = n
      BY <3>2 DEF InFrame
    <3>4. Coming + 1 <= n => Coming' + 0 <= n
      BY <1>1, <1>3, <3>2
    <3>5. QED
      BY <3>1, <3>2, <3>3, <3>4 DEF Owed
  <2>2. CASE m.kind # "pixels"
    BY <1>3, <2>2 DEF Owed, InFrame
  <2>3. QED
    BY <2>1, <2>2
<1>5. Caught => Caught'
  BY <1>2 DEF Caught, InFrame, Looked, Stale, Black, Blank, ShownSince
<1>6. QED
  BY <1>4, <1>5 DEF Kept

\* Reading a part that is no picture takes nothing away.
LEMMA KeptHead ==
  ASSUME Typed, Kept, ReadHead
  PROVE  Kept'
<1>1. channel # <<>> /\ channel' = Tail(channel) /\ channel[1].part = 1 /\ requested' = requested
  BY Shrunk DEF ReadHead
<1>2. UNCHANGED <<history, at, pixels, fb, goal, seen, stable, began, behind, odd>>
  BY DEF ReadHead, guest, waiting
<1>3. /\ channel \in Seq(Parts) /\ Len(history) + 1 \in Nat /\ began \in Nat /\ Stale \in Nat
      /\ Stale = 0 <=> Pictures(channel, began) = {}
  BY Counted
<1>4. ~Body(channel, 1, "pixels")
  BY <1>1 DEF Body
<1>5. Coming' = Coming
  BY <1>1, <1>2, <1>3, <1>4, PicturesTaken DEF Coming
<1>6. Stale' = Stale
  BY <1>1, <1>2, <1>3, <1>4, PicturesTaken DEF Stale
<1>7. (Pictures(channel, began) = {})' <=> Pictures(channel, began) = {}
  <2>1. channel' \in Seq(Parts)
    BY <1>1, <1>3, Taken
  <2>2. Stale' = 0 <=> Pictures(channel', began) = {}
    BY <1>2, <1>3, <2>1, PicturesFinite DEF Stale
  <2>3. QED
    BY <1>2, <1>3, <1>6, <2>2
<1>8. Owed => Owed'
  BY <1>1, <1>2, <1>5 DEF Owed, InFrame
<1>9. Caught => Caught'
  BY <1>2, <1>6, <1>7 DEF Caught, InFrame, Looked, Black, Blank, ShownSince
<1>10. QED
  BY <1>2, <1>8, <1>9 DEF Kept

\* An update that is read was owed; once a picture since the call was read, all
\* that follow are.
LEMMA KeptBody ==
  ASSUME Typed, WireFits, InStep, Ready, PictureKept, Kept, ReadBody
  PROVE  Kept'
<1>1. /\ channel \in Seq(Parts) /\ channel # <<>> /\ channel' = Tail(channel) /\ 1 \in 1..Len(channel)
      /\ channel[1].of = mid /\ mid \in Messages
      /\ \A kind : Body(channel, 1, kind) <=> mid.kind = kind
      /\ fb' = On(history, fb, mid) /\ UNCHANGED <<history, requested>> /\ at \in {"first", "more"}
  BY BodyRead
<1>2. /\ UNCHANGED <<goal, seen, stable, began, behind, odd>>
      /\ pixels' = (pixels \/ mid.kind = "pixels") /\ at' = IF mid.kind = "text" THEN at ELSE "tail"
  BY DEF ReadBody, HadPixels, waiting
<1>3. InFrame /\ InFrame'
  BY <1>1, <1>2 DEF InFrame
<1>4. /\ Coming \in Nat /\ Stale \in Nat /\ behind \in Nat /\ Looked \in Nat
      /\ Stale = 0 <=> Pictures(channel, began) = {}
      /\ Len(history) \in Nat /\ Len(history) + 1 \in Nat /\ began \in Nat /\ began <= Len(history)
  BY Counted
<1>5. Looked' = Looked
  BY <1>2 DEF Looked, Black
<1>6. channel' \in Seq(Parts) /\ Stale' = Cardinality(Pictures(channel', began))
  BY <1>1, <1>2, Taken DEF Stale
<1>7. Stale' = 0 <=> Pictures(channel', began) = {}
  BY <1>4, <1>6, PicturesFinite
<1> SUFFICES ASSUME "late" \notin odd', Owed, Caught
             PROVE  Owed' /\ Caught'
  BY <1>1, <1>2 DEF Kept
<1>8. CASE mid.kind # "pixels"
  <2>1. ~Body(channel, 1, "pixels")
    BY <1>1, <1>8
  <2>2. Coming' = Coming
    BY <1>1, <1>4, <2>1, PicturesTaken DEF Coming
  <2>3. Stale' = Stale
    BY <1>1, <1>2, <1>4, <2>1, PicturesTaken DEF Stale
  <2>4. pixels' <=> pixels
    BY <1>2, <1>8
  <2>5. OrOne(pixels') = OrOne(pixels) /\ OrOne((InFrame /\ ~pixels)') = OrOne(InFrame /\ ~pixels)
    BY <1>3, <2>4 DEF OrOne
  <2>6. fb' = fb \/ fb' = Black
    BY <1>1, <1>8 DEF On
  <2>7. Owed'
    BY <1>1, <1>2, <2>2, <2>5 DEF Owed
  <2>8. Blank \/ ShownSince(began) => (Blank \/ ShownSince(began))'
    BY <1>1, <1>2, <2>6 DEF Blank, ShownSince, Black
  <2>9. (Pictures(channel, began) = {})' <=> Pictures(channel, began) = {}
    BY <1>2, <1>4, <1>7, <2>3
  <2>10. Caught'
    BY <1>2, <1>3, <1>5, <2>3, <2>5, <2>8, <2>9 DEF Caught
  <2>11. QED
    BY <2>7, <2>10
<1>9. CASE mid.kind = "pixels"
  <2>1. Body(channel, 1, "pixels") /\ mid.of \in Nat /\ mid.of >= 1 /\ mid.of <= Len(history)
    <3>1. mid.of <= Len(history)
      BY <1>1, <1>9 DEF WireFits, Ordered
    <3>2. QED
      BY <1>1, <1>9, <3>1, Kinds
  <2>2. pixels' = TRUE
    BY <1>2, <1>9
  <2>3. OrOne(pixels') = 1 /\ OrOne((InFrame /\ ~pixels)') = 0
    BY <2>2 DEF OrOne
  <2>4. Coming' = Coming - 1
    <3>1. channel[1].of.of < Len(history) + 1
      BY <1>1, <1>4, <2>1
    <3>2. QED
      BY <1>1, <1>4, <2>1, <3>1, PicturesTaken DEF Coming
  <2>5. Owed'
    <3>1. PICK n \in Nat : n = behind
      BY <1>4
    <3>2. PICK q \in {0, 1} : q = OrOne(requested)
      BY <1>4 DEF OrOne
    <3>3. OrOne(InFrame /\ ~pixels) \in {0, 1}
      BY <1>4 DEF OrOne
    <3>4. Coming + q <= n + 1
      BY <1>4, <3>1, <3>2, <3>3 DEF Owed
    <3>5. (Coming - 1) + q <= n + 0
      BY <1>4, <3>1, <3>2, <3>4
    <3>6. QED
      BY <1>1, <1>2, <2>3, <2>4, <3>1, <3>2, <3>5 DEF Owed
  <2>6. CASE mid.of < began
    <3>1. Stale' = Stale - 1
      BY <1>1, <1>2, <1>4, <2>1, <2>6, PicturesTaken DEF Stale
    <3>2. 1 \in Pictures(channel, began)
      BY <1>1, <2>1, <2>6 DEF Pictures
    <3>3. Stale + OrOne(pixels) + Looked <= behind
      BY <1>3, <3>2 DEF Caught
    <3>4. PICK p \in {0, 1} : p = OrOne(pixels)
      BY <1>4 DEF OrOne
    <3>5. (Stale - 1) + 1 + Looked <= behind
      BY <1>4, <3>3, <3>4
    <3>6. QED
      BY <1>2, <1>5, <2>3, <2>5, <3>1, <3>5 DEF Caught
  <2>7. CASE mid.of >= began
    <3>1. Pictures(channel', began) = {}
      <4> SUFFICES ASSUME NEW i \in Pictures(channel', began)
                   PROVE  FALSE
        OBVIOUS
      <4>1. i \in 1..Len(channel') /\ Body(channel', i, "pixels") /\ channel'[i].of.of < began
        BY DEF Pictures
      <4>2. /\ Len(channel') = Len(channel) - 1 /\ Len(channel) \in Nat
            /\ \A j \in 1..Len(channel) - 1 : channel'[j] = channel[j + 1]
        BY <1>1, Taken
      <4>3. i + 1 \in 1..Len(channel) /\ 1 < i + 1 /\ channel'[i] = channel[i + 1]
        BY <4>1, <4>2
      <4>4. Body(channel, i + 1, "pixels")
        BY <4>1, <4>3 DEF Body
      <4>5. channel[1].of.of <= channel[i + 1].of.of
        BY <1>1, <2>1, <4>3, <4>4 DEF WireFits, Ordered
      <4>6. channel[i + 1].of.of \in Nat
        BY <1>1, <4>3, <4>4, PartTyped, Kinds DEF Body
      <4>7. QED
        BY <1>1, <1>4, <2>1, <2>7, <4>1, <4>3, <4>5, <4>6
    <3>2. fb' = history[mid.of]
      <4>1. PICK w \in [0..Len(channel) -> Screens] : Foretold(w)
        BY <1>2 DEF PictureKept, InStep
      <4>2. w[0] = fb /\ 1 - 1 = 0 /\ channel[1].part = 2
        BY <2>1, <4>1 DEF Foretold, Body
      <4>3. w[1] = On(history, w[1 - 1], channel[1].of)
        BY <1>1, <4>1, <4>2 DEF Foretold
      <4>4. w[1] = history[channel[1].of.of]
        BY <1>1, <2>1, <4>1 DEF Foretold
      <4>5. QED
        BY <1>1, <4>2, <4>3, <4>4
    <3>3. mid.of \in began..Len(history)
      BY <1>4, <2>1, <2>7
    <3>4. ShownSince(began)'
      BY <1>1, <1>2, <3>2, <3>3 DEF ShownSince
    <3>5. QED
      BY <1>2, <2>5, <3>1, <3>4 DEF Caught
  <2>8. QED
    BY <1>4, <2>1, <2>6, <2>7
<1>10. QED
  BY <1>8, <1>9

\* A new call owes its own request; what is older was left behind.
LEMMA KeptLooks ==
  ASSUME Typed, Ready, Kept, NEW for \in {"look", "change", "stable"}, Look(for)
  PROVE  Kept'
<1>1. /\ UNCHANGED <<history, dirty, channel, pixels, fb, stable, behind, odd>> /\ at = "idle"
      /\ at' = "first" /\ requested' = TRUE /\ goal' = for /\ began' = Len(history)
      /\ seen' = IF for = "change" THEN fb ELSE Black
  BY DEF Look, StartFrame, Request, guest
<1>2. ~pixels /\ ~InFrame /\ InFrame'
  BY <1>1 DEF Ready, InFrame
<1>3. /\ Coming \in Nat /\ behind \in Nat /\ channel \in Seq(Parts) /\ Len(history) \in Nat
  BY Counted
<1>4. Coming' = Coming
  BY <1>1 DEF Coming
<1>5. Looked' = 0
  BY <1>1 DEF Looked, Black
<1> SUFFICES ASSUME Owed
             PROVE  Owed' /\ Caught'
  BY <1>1 DEF Kept
<1>6. OrOne(InFrame /\ ~pixels) = 0 /\ OrOne((InFrame /\ ~pixels)') = 1 /\ OrOne(requested') = 1 /\ OrOne(pixels') = 0
  BY <1>1, <1>2, <1>3 DEF OrOne
<1>7. Coming <= behind
  <2>1. PICK q \in {0, 1} : q = OrOne(requested)
    BY <1>3 DEF OrOne
  <2>2. Coming + q <= behind + 0
    BY <1>6, <2>1 DEF Owed
  <2>3. QED
    BY <1>3, <2>1, <2>2
<1>8. Owed'
  <2>1. Coming + 1 <= behind + 1
    BY <1>3, <1>7
  <2>2. QED
    BY <1>1, <1>4, <1>6, <2>1 DEF Owed
<1>9. Stale' \in Nat /\ Stale' <= Coming
  <2>1. Pictures(channel, Len(history)) \subseteq Pictures(channel, Len(history) + 1)
    <3> SUFFICES ASSUME NEW i \in Pictures(channel, Len(history))
                 PROVE  i \in Pictures(channel, Len(history) + 1)
      OBVIOUS
    <3>1. i \in 1..Len(channel) /\ Body(channel, i, "pixels") /\ channel[i].of.of < Len(history)
      BY DEF Pictures
    <3>2. channel[i].of \in Messages
      BY <1>3, <3>1, PartTyped
    <3>3. channel[i].of.of \in Nat
      BY <3>1, <3>2, Kinds DEF Body
    <3>4. channel[i].of.of < Len(history) + 1
      BY <1>3, <3>1, <3>3
    <3>5. QED
      BY <3>1, <3>4 DEF Pictures
  <2>2. /\ IsFiniteSet(Pictures(channel, Len(history) + 1))
        /\ Cardinality(Pictures(channel, Len(history))) \in Nat
    BY <1>3, PicturesFinite
  <2>3. Cardinality(Pictures(channel, Len(history))) <= Coming
    BY <2>1, <2>2, FS_Subset DEF Coming
  <2>4. QED
    BY <1>1, <2>2, <2>3 DEF Stale
<1>10. Caught'
  <2>1. Stale' + 0 + 0 <= behind
    <3>1. Stale' <= behind /\ Stale' \in Nat
      BY <1>3, <1>7, <1>9
    <3>2. QED
      BY <3>1
  <2>2. QED
    BY <1>1, <1>5, <1>6, <2>1 DEF Caught
<1>11. QED
  BY <1>8, <1>10

\* A second request leaves the first one behind.
LEMMA KeptAsks ==
  ASSUME Typed, Kept, AskAgain
  PROVE  Kept'
<1> SUFFICES ASSUME "late" \notin odd', Owed, Caught
             PROVE  Owed' /\ Caught'
  BY DEF Kept, AskAgain
<1>1. /\ UNCHANGED <<history, channel, pixels, fb, goal, seen, stable, began, odd>> /\ at = "tail"
      /\ at' = "first" /\ requested' = TRUE /\ behind' = behind + 1 /\ ~pixels
  BY DEF AskAgain, StartFrame, Request, Answered, guest, waiting
<1>2. InFrame /\ InFrame'
  BY <1>1 DEF InFrame
<1>3. /\ Coming \in Nat /\ Stale \in Nat /\ Looked \in Nat /\ behind \in Nat
  BY Counted
<1>4. Coming' = Coming /\ Stale' = Stale /\ Looked' = Looked
  BY <1>1 DEF Coming, Stale, Looked, Black
<1>5. OrOne(InFrame /\ ~pixels) = 1 /\ OrOne((InFrame /\ ~pixels)') = 1 /\ OrOne(requested') = 1 /\ OrOne(pixels) = 0
  BY <1>1, <1>2, <1>3 DEF OrOne
<1>6. Owed'
  <2>1. PICK q \in {0, 1} : q = OrOne(requested)
    BY <1>3 DEF OrOne
  <2>2. Coming + q <= behind + 1
    BY <1>5, <2>1 DEF Owed
  <2>3. Coming + 1 <= (behind + 1) + 1
    BY <1>3, <2>1, <2>2
  <2>4. QED
    BY <1>1, <1>4, <1>5, <2>3 DEF Owed
<1>7. Caught'
  <2>1. CASE Pictures(channel, began) = {} /\ (Blank \/ ShownSince(began))
    BY <1>1, <2>1 DEF Caught, Pictures, Body, Blank, Black, ShownSince
  <2>2. CASE Stale + OrOne(pixels) + Looked <= behind
    <3>1. Stale + 0 + Looked <= behind + 1
      BY <1>3, <1>5, <2>2
    <3>2. QED
      BY <1>1, <1>4, <1>5, <3>1 DEF Caught
  <2>3. QED
    BY <1>2, <2>1, <2>2 DEF Caught
<1>8. QED
  BY <1>6, <1>7

\* A frame that ends without pixels leaves its request behind.
LEMMA KeptEnds ==
  ASSUME Typed, Kept, HasFrame, Answered, at' = "idle", UNCHANGED <<history, channel, requested, odd>>
  PROVE  Kept'
<1> SUFFICES ASSUME "late" \notin odd, Owed
             PROVE  Owed'
  BY DEF Kept, Caught, InFrame
<1>1. at = "tail" /\ behind' = (IF pixels \/ "late" \in odd THEN behind ELSE behind + 1) /\ InFrame /\ ~InFrame'
  BY DEF HasFrame, Answered, InFrame
<1>2. /\ Coming \in Nat /\ behind \in Nat
  BY Counted
<1>3. Coming' = Coming
  BY DEF Coming
<1>4. behind + OrOne(InFrame /\ ~pixels) = behind' + 0
  <2>1. CASE pixels
    <3>1. OrOne(InFrame /\ ~pixels) = 0
      BY <1>2, <2>1 DEF OrOne
    <3>2. QED
      BY <1>1, <1>2, <2>1, <3>1
  <2>2. CASE ~pixels
    <3>1. OrOne(InFrame /\ ~pixels) = 1
      BY <1>1, <1>2, <2>2 DEF OrOne
    <3>2. QED
      BY <1>1, <1>2, <2>2, <3>1
  <2>3. QED
    BY <2>1, <2>2
<1>5. OrOne((InFrame /\ ~pixels)') = 0
  BY <1>1, <1>2 DEF OrOne
<1>6. QED
  BY <1>3, <1>4, <1>5 DEF Owed

\* Another frame of a wait: the one in hand had pixels, or is black.
LEMMA KeptPolls ==
  ASSUME Typed, Ready, Kept, PollAgain
  PROVE  Kept'
<1> SUFFICES ASSUME "late" \notin odd, Owed, Caught
             PROVE  Owed' /\ Caught'
  BY DEF Kept, PollAgain
<1>1. /\ UNCHANGED <<history, channel, fb, goal, began, odd>> /\ HasFrame /\ ~Satisfied
      /\ at' = "first" /\ requested' = TRUE /\ pixels' = FALSE
      /\ at = "tail" /\ behind' = (IF pixels \/ "late" \in odd THEN behind ELSE behind + 1)
      /\ IF goal = "stable" THEN seen' = fb /\ stable' = (IF Same THEN stable + 1 ELSE 0)
                            ELSE UNCHANGED <<seen, stable>>
  BY DEF PollAgain, StartFrame, Request, Answered, guest, HasFrame
<1>2. InFrame /\ InFrame'
  BY <1>1 DEF InFrame
<1>3. /\ Coming \in Nat /\ Stale \in Nat /\ Looked \in Nat /\ behind \in Nat
  BY Counted
<1>4. Coming' = Coming /\ Stale' = Stale /\ Black' = Black /\ stable \in 0..1
  BY <1>1 DEF Coming, Stale, Black, Typed
<1>5. OrOne((InFrame /\ ~pixels)') = 1 /\ OrOne(requested') = 1 /\ OrOne(pixels') = 0
  BY <1>1, <1>2, <1>3 DEF OrOne
<1>6. Owed'
  <2>1. PICK q \in {0, 1} : q = OrOne(requested)
    BY <1>3 DEF OrOne
  <2>2. behind + OrOne(InFrame /\ ~pixels) = behind'
    <3>1. CASE pixels
      <4>1. OrOne(InFrame /\ ~pixels) = 0
        BY <1>3, <3>1 DEF OrOne
      <4>2. QED
        BY <1>1, <1>3, <3>1, <4>1
    <3>2. CASE ~pixels
      <4>1. OrOne(InFrame /\ ~pixels) = 1
        BY <1>2, <1>3, <3>2 DEF OrOne
      <4>2. QED
        BY <1>1, <1>3, <3>2, <4>1
    <3>3. QED
      BY <3>1, <3>2
  <2>3. behind' \in Nat /\ Coming + q <= behind'
    BY <1>1, <1>3, <2>1, <2>2 DEF Owed
  <2>4. Coming \in Nat /\ Coming <= behind'
    BY <1>3, <2>1, <2>3
  <2>5. Coming + 1 <= behind' + 1
    BY <2>3, <2>4, Raised, Zenon
  <2>6. QED
    BY <1>4, <1>5, <2>5 DEF Owed
<1>7. behind' \in Nat /\ behind <= behind'
  BY <1>1, <1>3
<1>8. fb = Black \/ pixels
  <2>1. round = 1 /\ ~pixels => FALSE
    BY <1>1 DEF HasFrame
  <2>2. QED
    BY <1>1, <2>1 DEF Ready
<1>9. Caught'
  <2>1. CASE Pictures(channel, began) = {} /\ (Blank \/ ShownSince(began))
    BY <1>1, <2>1 DEF Caught, Pictures, Body, Blank, Black, ShownSince
  <2>2. CASE Stale + OrOne(pixels) + Looked <= behind
    <3>0. OrOne(pixels) \in 0..1 /\ Looked \in Nat
      BY <1>3 DEF OrOne
    <3>1. Looked' \in Nat /\ Looked' <= OrOne(pixels) + Looked
      <4>1. CASE goal # "stable"
        <5>1. Looked' = 0
          BY <1>1, <4>1 DEF Looked
        <5>2. QED
          BY <3>0, <5>1
      <4>2. CASE goal = "stable" /\ fb = Black
        <5>1. Looked' = 0
          BY <1>1, <1>4, <4>2 DEF Looked
        <5>2. QED
          BY <3>0, <5>1
      <4>3. CASE goal = "stable" /\ fb # Black
        <5>1. pixels /\ OrOne(pixels) = 1
          BY <1>3, <1>8, <4>3 DEF OrOne
        <5>2. seen' = fb /\ Looked' = 1 + stable' /\ stable' = IF Same THEN stable + 1 ELSE 0
          BY <1>1, <1>4, <4>3 DEF Looked
        <5>3. CASE Same
          <6>1. Looked = 1 + stable
            BY <4>3, <5>3 DEF Same, Looked
          <6>2. Looked' = 1 + (stable + 1) /\ stable \in 0..1
            BY <1>4, <5>2, <5>3
          <6>3. QED
            BY <3>0, <5>1, <6>1, <6>2, Lifted, Zenon
        <5>4. CASE ~Same
          <6>1. Looked' = 1
            BY <5>2, <5>4
          <6>2. QED
            BY <3>0, <5>1, <6>1, Lifted, Zenon
        <5>5. QED
          BY <5>3, <5>4
      <4>4. QED
        BY <4>1, <4>2, <4>3
    <3>2. Stale + 0 + Looked' <= behind'
      <4>1. Stale \in Nat /\ behind \in Nat
        BY <1>3
      <4>2. QED
        BY <1>7, <2>2, <3>0, <3>1, <4>1, Carried, Zenon
    <3>3. QED
      BY <1>4, <1>5, <3>2 DEF Caught
  <2>3. QED
    BY <1>2, <2>1, <2>2 DEF Caught
<1>10. QED
  BY <1>6, <1>9

LEMMA KeptStep ==
  ASSUME Typed, WireFits, InStep, Ready, PictureKept, Kept, [Next]_vars
  PROVE  Kept'
<1>1. ASSUME UNCHANGED <<history, channel, requested, pixels, fb, goal, seen, stable, began, behind>>,
             "late" \notin odd' => "late" \notin odd, InFrame <=> InFrame'
      PROVE  Kept'
  BY <1>1 DEF Kept, Owed, Caught, Coming, Stale, Looked, Pictures, Body, Blank, Black, ShownSince
<1>2. ASSUME UNCHANGED <<history, channel, requested, pixels, behind>>,
             "late" \notin odd' => "late" \notin odd, ~InFrame, ~InFrame'
      PROVE  Kept'
  BY <1>2 DEF Kept, Owed, Caught, Coming, Pictures, Body
<1>3. ASSUME NEW r \in Regions, Change(r)
      PROVE  Kept'
  BY <1>3, KeptChanges
<1>4. CASE Serve
  <2>1. PICK rects \in {dirty, Regions} \ {{}} :
          channel' = channel \o Both([kind |-> "pixels", rects |-> rects, of |-> Len(history)])
    BY <1>4 DEF Serve
  <2>2. rects \in SUBSET Regions /\ Len(history) \in 1..MaxEvents + 1
    BY <2>1, HistoryFits DEF Typed, TypeOK
  <2>3. PICK m : m = [kind |-> "pixels", rects |-> rects, of |-> Len(history)]
    OBVIOUS
  <2>4. m \in Messages /\ m.kind = "pixels" /\ m.of = Len(history)
    BY <2>2, <2>3, Messaged
  <2>5. /\ UNCHANGED <<history, at, pixels, fb, goal, seen, stable, began, behind, odd>>
        /\ requested' = FALSE
    BY <1>4 DEF Serve, reading, waiting
  <2>6. requested = TRUE
    BY <1>4, Zenon DEF Serve, Typed, TypeOK
  <2>7. QED
    BY <2>1, <2>3, <2>4, <2>5, <2>6, KeptGrows
<1>5. ASSUME NEW kind \in {"resize", "text"}, Notify(kind)
      PROVE  Kept'
  <2>1. PICK m : m = [kind |-> kind]
    OBVIOUS
  <2>2. m \in Messages /\ m.kind # "pixels"
    BY <2>1 DEF Messages
  <2>3. /\ UNCHANGED <<history, at, pixels, fb, goal, seen, stable, began, behind, requested>>
        /\ channel' = channel \o Both(m) /\ ("late" \notin odd' => "late" \notin odd)
    BY <1>5, <2>1 DEF Notify, reading, waiting
  <2>4. QED
    BY <2>2, <2>3, KeptGrows
<1>6. CASE Arrive
  BY <1>1, <1>6 DEF Arrive, guest, reading, waiting, InFrame, Kept
<1>7. ASSUME NEW for \in {"look", "change", "stable"}, Look(for)
      PROVE  Kept'
  BY <1>7, KeptLooks
<1>8. CASE ReadHead
  BY <1>8, KeptHead
<1>9. CASE ReadRest
  BY <1>9, RestIsLate DEF Kept
<1>10. CASE ReadBody
  BY <1>10, KeptBody
<1>11. CASE ReadMore
  BY <1>1, <1>11 DEF ReadMore, guest, wire, reading, waiting, InFrame
<1>12. CASE AskAgain
  BY <1>12, KeptAsks
<1>13. ASSUME FrameReturned \/ WaitExpires
       PROVE  Kept'
  BY <1>13, KeptEnds DEF FrameReturned, WaitExpires, End, guest, wire
<1>14. CASE PollAgain
  BY <1>14, KeptPolls
<1>15. CASE Timeout
  BY <1>15 DEF Timeout, Kept
<1>16. ASSUME NEW n \in {0, 2}, NEW wrong \in 0..3, Shortcut(n, wrong)
       PROVE  Kept'
  BY <1>2, <1>16 DEF Shortcut, guest, wire, reading, InFrame
<1>17. CASE Keys \/ Cancelled
  <2>1. /\ Typing /\ at \in {"mods", "key", "hold", "release"} /\ at' \notin {"first", "tail", "more"}
        /\ behind' = behind /\ ("late" \notin odd' => "late" \notin odd)
    BY <1>17 DEF Keys, ModifierDown, ModifierUnknown, KeyDown, KeyUnknown, KeyUp, ModifierUp, Cancelled, AfterFailure
  <2>2. QED
    BY <1>2, <2>1 DEF Typing, guest, wire, reading, InFrame
<1>18. CASE UNCHANGED vars
  BY <1>1, <1>18 DEF vars, guest, wire, reading, waiting, InFrame
<1>19. QED
  BY <1>3, <1>4, <1>5, <1>6, <1>7, <1>8, <1>9, <1>10, <1>11, <1>12, <1>13, <1>14, <1>15, <1>16, <1>17, <1>18
  DEF Next, Over, Read, Poll

------------------------------------------------------------------------------
(* What a frame shows *)

LEMMA Beyond ==
  ASSUME NEW a \in Nat, NEW n \in Nat, NEW b \in Nat, a + 1 + n <= b
  PROVE  b > n
OBVIOUS

\* The frame in hand is of the answers to its own requests, or as many were
\* left behind as the wait has read pictures.
LEMMA FreshReturned ==
  ASSUME Typed, Ready, Kept, FrameReturned
  PROVE  FrameFresh'
<1>1. /\ UNCHANGED <<history, fb, goal, began, odd>> /\ HasFrame /\ Satisfied /\ at = "tail"
      /\ behind' = IF pixels \/ "late" \in odd THEN behind ELSE behind + 1
  BY DEF FrameReturned, End, HasFrame, Answered, guest
<1>2. Spare' = Spare /\ (Blank' <=> Blank) /\ (ShownSince(began)' <=> ShownSince(began))
  BY <1>1 DEF Spare, Blank, Black, ShownSince
<1>3. Stale \in Nat /\ Looked \in Nat /\ behind \in Nat
  BY Counted
<1> SUFFICES ASSUME "late" \notin odd, ~Blank, ~ShownSince(began)
             PROVE  behind' > Spare
  BY <1>1, <1>2 DEF FrameFresh
<1>4. Stale + OrOne(pixels) + Looked <= behind
  BY <1>1 DEF Kept, Caught, InFrame
<1>5. pixels
  <2>1. round = 1 /\ ~pixels => FALSE
    BY <1>1 DEF HasFrame
  <2>2. QED
    BY <1>1, <2>1 DEF Ready, Blank
<1>6. OrOne(pixels) = 1 /\ behind' = behind
  BY <1>1, <1>5 DEF OrOne
<1>7. CASE goal = "stable"
  <2>1. Looked = 2 /\ Spare = 2
    BY <1>1, <1>7 DEF Satisfied, Same, Looked, Blank, Spare
  <2>2. QED
    BY <1>3, <1>4, <1>6, <2>1, Beyond
<1>8. CASE goal # "stable"
  <2>1. Looked = 0 /\ Spare = 0
    BY <1>8 DEF Looked, Spare
  <2>2. QED
    BY <1>3, <1>4, <1>6, <2>1, Beyond
<1>9. QED
  BY <1>7, <1>8

LEMMA FreshInit == Init => FrameFresh
BY DEF Init, FrameFresh, Returned

LEMMA FreshStep ==
  ASSUME Typed, KeysFit, WireFits, Ready, Kept, FrameFresh, [Next]_vars
  PROVE  FrameFresh'
<1>1. ASSUME UNCHANGED <<history, at, fb, goal, began, result, behind>>, "late" \in odd => "late" \in odd'
      PROVE  FrameFresh'
  BY <1>1 DEF FrameFresh, Returned, Blank, Black, ShownSince, Spare
<1>2. ASSUME at' # "idle" \/ result' # "frame"
      PROVE  FrameFresh'
  BY <1>2 DEF FrameFresh, Returned
<1>3. ASSUME NEW r \in Regions, Change(r)
      PROVE  FrameFresh'
  <2>1. UNCHANGED <<at, fb, goal, began, result, behind, odd>>
    BY <1>3 DEF Change, reading, waiting
  <2>2. /\ Len(history) \in Nat /\ Len(history') = Len(history) + 1 /\ began \in Nat
        /\ \A v \in 1..Len(history) : history'[v] = history[v]
    BY <1>3, Changed, Counted
  <2>3. ASSUME Returned, ShownSince(began)
        PROVE  ShownSince(began)'
    <3>1. PICK v \in began..Len(history) : fb = history[v]
      BY <2>3 DEF ShownSince
    <3>2. v \in 1..Len(history) /\ v \in began..Len(history')
      BY <2>2, <2>3 DEF Ready
    <3>3. fb' = history'[v]
      BY <2>1, <2>2, <3>1, <3>2
    <3>4. QED
      BY <2>1, <3>2, <3>3 DEF ShownSince
  <2>4. QED
    BY <2>1, <2>3 DEF FrameFresh, Returned, Blank, Black, Spare
<1>4. CASE Serve
  BY <1>1, <1>4 DEF Serve, reading, waiting
<1>5. ASSUME NEW kind \in {"resize", "text"}, Notify(kind)
      PROVE  FrameFresh'
  BY <1>1, <1>5 DEF Notify, reading, waiting
<1>6. CASE Arrive
  BY <1>1, <1>6 DEF Arrive, guest, reading, waiting
<1>7. ASSUME NEW for \in {"look", "change", "stable"}, Look(for)
      PROVE  FrameFresh'
  BY <1>2, <1>7 DEF Look
<1>8. CASE ReadHead
  BY <1>2, <1>8 DEF ReadHead
<1>9. CASE ReadRest
  BY <1>2, <1>9 DEF ReadRest, Misread, End
<1>10. CASE ReadBody
  <2>1. at \in {"first", "more"}
    BY <1>10, BodyRead
  <2>2. QED
    BY <1>2, <1>10, <2>1 DEF ReadBody
<1>11. CASE ReadMore \/ AskAgain \/ PollAgain
  BY <1>2, <1>11 DEF ReadMore, AskAgain, PollAgain, StartFrame
<1>12. CASE FrameReturned
  BY <1>12, FreshReturned
<1>13. CASE WaitExpires \/ Timeout
  BY <1>2, <1>13 DEF WaitExpires, Timeout, End
<1>14. ASSUME NEW n \in {0, 2}, NEW wrong \in 0..3, Shortcut(n, wrong)
       PROVE  FrameFresh'
  BY <1>2, <1>14 DEF Shortcut
<1>15. CASE Keys \/ Cancelled
  <2>1. Typing /\ at \in {"mods", "key", "hold", "release"}
    BY <1>15 DEF Keys, ModifierDown, ModifierUnknown, KeyDown, KeyUnknown, KeyUp, ModifierUp, Cancelled
  <2>2. result' = "none"
    BY <2>1 DEF Typing, waiting, KeysFit
  <2>3. QED
    BY <1>2, <2>2
<1>16. CASE UNCHANGED vars
  BY <1>1, <1>16 DEF vars, guest, reading, waiting
<1>17. QED
  BY <1>3, <1>4, <1>5, <1>6, <1>7, <1>8, <1>9, <1>10, <1>11, <1>12, <1>13, <1>14, <1>15, <1>16 DEF Next, Over, Read, Poll

------------------------------------------------------------------------------
(* The theorems *)

VncIInv ==
  Typed /\ KeysFit /\ WireFits /\ InStep /\ PictureKept /\ Ready /\ Kept /\ FrameFresh

LEMMA VncIInvInit == Init => VncIInv
BY TypedInit, KeysFitInit, WireInit, InStepInit, PictureInit, ReadyInit, KeptInit, FreshInit DEF VncIInv

LEMMA VncIInvStep == VncIInv /\ [Next]_vars => VncIInv'
BY KeysFitStep, ShapeStep, InStepStep, PictureStep, ReadyStep, KeptStep, FreshStep DEF VncIInv

LEMMA VncIInvHolds == Spec => []VncIInv
BY VncIInvInit, VncIInvStep, PTL DEF Spec

\* The client keeps its shape, whatever messages it reads and wherever a call
\* ends; and every key goes up again (Keyboard.press and shortcut of
\* guest/controls.py) unless a call was cancelled or failed while pressing the
\* modifiers.
THEOREM ClientKeepsShape == Spec => []VncInv
<1>1. VncIInv => VncInv
  BY DEF VncIInv, Typed, KeysFit, InStep, VncInv, KeysUp
<1>2. QED
  BY <1>1, VncIInvHolds, PTL

\* A frame that VncClient.frame returns is a picture of one moment, or black,
\* unless an earlier one was given up inside a message: the updates under way
\* hold just what the framebuffer lacks.
THEOREM FramesWhole == Spec => []FrameWhole
<1>1. VncIInv => FrameWhole
  <2> SUFFICES ASSUME VncIInv, Returned, ~OutOfStep
               PROVE  Blank \/ ShownSince(1)
    BY DEF FrameWhole
  <2>1. PICK w \in [0..Len(channel) -> Screens] : Foretold(w)
    BY DEF VncIInv, PictureKept, Returned
  <2>2. fb = w[0] /\ Whole(w[0])
    BY <2>1 DEF Foretold, Returned
  <2>3. QED
    BY <2>2 DEF Whole, Blank, ShownSince
<1>2. QED
  BY <1>1, VncIInvHolds, PTL

\* A frame is not older than the call (VncClient.frame), and what
\* Screen.wait_for_stable returns is not although two answers are late.
THEOREM FramesFresh == Spec => []FrameFresh
<1>1. VncIInv => FrameFresh
  BY DEF VncIInv
<1>2. QED
  BY <1>1, VncIInvHolds, PTL
==============================================================================
