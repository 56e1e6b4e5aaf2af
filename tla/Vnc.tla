-------------------------------- MODULE Vnc ---------------------------------
(***************************************************************************)
(* The VNC client of a guest (qemu/vnc.py) and what Screen and Keyboard    *)
(* (guest/controls.py) build on it.  The client asks for frames and reads  *)
(* the updates that arrive, which may be late, partial, about something    *)
(* else, and more or fewer than it asked for.  Keys go down and up across  *)
(* awaits at which the call may be cancelled.                              *)
(*                                                                         *)
(* A picture gives every region of the screen the number of its last       *)
(* change; `history` has every picture the guest has shown.  A message     *)
(* travels in two parts, head and body.  A time-out between them leaves    *)
(* the client out of step: it takes bytes from the middle of a message for *)
(* messages, and what they mean then is a free choice.                     *)
(***************************************************************************)
EXTENDS Integers, Sequences, FiniteSets

CONSTANTS
  Regions,      \* the regions of the screen
  MaxEvents,    \* bound: changes of the picture, resizes, messages other than
                \* updates, cancelled calls, misread bytes that are no error
  MaxCalls      \* bound: operations of the host

ASSUME VncAssumption == MaxEvents \in Nat /\ MaxCalls \in Nat

VARIABLES
  history,      \* the pictures the guest has shown, the last one is on the screen
  requested,    \* QEMU owes the client an update; requests in one tick are one
  dirty,        \* the regions that changed since the last update
  channel,      \* sent and not yet read: parts of messages
  arrived,      \* how many of them have arrived
  at,           \* what the host's operation waits for
  mid,          \* the message whose head was read, with the body to come
  round,        \* which of the two requests of a frame
  pixels,       \* an update of this frame had pixels
  fb,           \* the client's framebuffer
  goal,         \* what the frame is for: look, change or stable
  seen, stable, \* the picture before, and how often it was the same
  began,        \* the length of history when the operation began
  result,       \* how the last frame or wait ended
  mods, bad,    \* a shortcut: its modifiers, and which name is not a key
  pressed,      \* how many of its modifiers it has down
  held,         \* the keys the guest sees held down
  spent,        \* [events, calls]: what has been used of the bounds
  behind,       \* how many requests no picture has answered in time
  odd           \* what has happened that a promise leaves out

guest == <<history, dirty>>
wire == <<requested, channel, arrived>>
reading == <<mid, round, pixels, fb>>
waiting == <<goal, seen, stable, began, result>>
input == <<mods, bad, pressed, held>>
vars == <<guest, wire, at, reading, waiting, input, spent, behind, odd>>

Black == [r \in Regions |-> -1]
Junk == [r \in Regions |-> -2]
Nothing == [kind |-> "none"]
Now == history[Len(history)]

Messages ==
  [kind : {"pixels"}, rects : SUBSET Regions, of : 1..MaxEvents + 1]
    \cup [kind : {"ack", "resize", "text"}]

TypeOK ==
  /\ history[1] = [r \in Regions |-> 0] /\ Len(history) <= spent.events + 1
  /\ spent \in [events : 0..MaxEvents, calls : 0..MaxCalls]
  /\ requested \in BOOLEAN /\ dirty \subseteq Regions
  /\ arrived \in 0..Len(channel)
  /\ at \in {"idle", "first", "tail", "more", "mods", "key", "hold", "release"}
  /\ round \in 1..2 /\ pixels \in BOOLEAN /\ goal \in {"look", "change", "stable"}
  /\ stable \in 0..2 /\ began \in 0..Len(history)
  /\ result \in {"none", "frame", "late", "error"}
  /\ held \subseteq 1..3 /\ mods \in {0, 2} /\ bad \in 0..3 /\ pressed \in 0..2 /\ behind \in Nat
  /\ at \notin {"first", "more"} => mid = Nothing

\* connect: _handshake has asked for extended keys, which QEMU acknowledges
\* with an update of its own, and for the size of the desktop.
Init ==
  /\ history = <<[r \in Regions |-> 0]>> /\ dirty = Regions
  /\ requested = FALSE /\ arrived = 0
  /\ channel \in {<<>>, <<[part |-> 1, of |-> [kind |-> "ack"]], [part |-> 2, of |-> [kind |-> "ack"]]>>}
  /\ at = "idle" /\ mid = Nothing /\ round = 1 /\ pixels = FALSE /\ fb = Black
  /\ goal = "look" /\ seen = Black /\ stable = 0 /\ began = 0 /\ result = "none"
  /\ mods = 0 /\ bad = 0 /\ pressed = 0 /\ held = {} /\ behind = 0
  /\ spent = [events |-> 0, calls |-> 0] /\ odd = {}

Spend(what, most) ==
  /\ spent[what] < most /\ spent' = [spent EXCEPT ![what] = @ + 1]
------------------------------------------------------------------------------
(***************************************************************************)
(* The guest and QEMU's server.                                            *)
(***************************************************************************)
Both(m) == <<[part |-> 1, of |-> m], [part |-> 2, of |-> m]>>

Change(r) ==
  /\ Spend("events", MaxEvents)
  /\ history' = Append(history, [Now EXCEPT ![r] = Len(history)])
  /\ dirty' = dirty \cup {r}
  /\ UNCHANGED <<wire, at, reading, waiting, input, behind, odd>>

\* An update has the regions that changed, or all of them.
Serve ==
  /\ requested
  /\ \E rects \in {dirty, Regions} \ {{}} :
       channel' = channel \o Both([kind |-> "pixels", rects |-> rects, of |-> Len(history)])
  /\ requested' = FALSE /\ dirty' = {}
  /\ UNCHANGED <<history, arrived, at, reading, waiting, input, spent, behind, odd>>

Notify(kind) ==
  /\ Spend("events", MaxEvents)
  /\ channel' = channel \o Both([kind |-> kind])
  /\ dirty' = IF kind = "resize" THEN Regions ELSE dirty
  /\ odd' = IF kind = "text" THEN odd \cup {kind} ELSE odd
  /\ UNCHANGED <<history, requested, arrived, at, reading, waiting, input, behind>>

Arrive ==
  /\ arrived < Len(channel) /\ arrived' = arrived + 1
  /\ UNCHANGED <<guest, requested, channel, at, reading, waiting, input, spent, behind, odd>>
------------------------------------------------------------------------------
(***************************************************************************)
(* frame: at most two requests, each followed by one update and by what is *)
(* in the buffer already.                                                  *)
(***************************************************************************)
Request == requested' = TRUE /\ UNCHANGED <<channel, arrived>>

StartFrame(first) ==
  /\ Request /\ at' = "first" /\ round' = first

\* snapshot, record_step, wait_for_change and wait_for_stable
Look(for) ==
  /\ at = "idle" /\ Spend("calls", MaxCalls)
  /\ goal' = for /\ began' = Len(history) /\ result' = "none"
  /\ seen' = IF for = "change" THEN fb ELSE Black
  /\ StartFrame(1) /\ mods' = 0 /\ bad' = 0 /\ pressed' = 0
  /\ UNCHANGED <<guest, mid, pixels, fb, stable, held, behind, odd>>

Take ==
  /\ arrived > 0 /\ channel' = Tail(channel) /\ arrived' = arrived - 1 /\ UNCHANGED requested

ReadHead ==
  /\ at \in {"first", "more"} /\ mid = Nothing /\ Take
  /\ Head(channel).part = 1 /\ mid' = Head(channel).of
  /\ UNCHANGED <<guest, at, round, pixels, fb, waiting, input, spent, behind, odd>>

\* The operation is over; what is of no use any more is as for the next one.
End(how) ==
  /\ at' = "idle" /\ result' = how
  /\ IF how = "frame" THEN UNCHANGED <<goal, began>> ELSE goal' = "look" /\ began' = 0
  /\ round' = 1 /\ pixels' = FALSE /\ seen' = Black /\ stable' = 0

OutOfStep == "torn" \in odd

\* Bytes from the middle of a message: one that is unknown, one that is read
\* over, or an update of no rectangles, of a new size, or of wrong pixels.
Misread ==
  \/ /\ Take \/ UNCHANGED wire
     /\ End("error") /\ UNCHANGED <<fb, spent>>
  \/ /\ Take /\ Spend("events", MaxEvents)
     /\ UNCHANGED <<at, round, pixels, waiting, fb>>
  \/ /\ Take \/ UNCHANGED wire
     /\ Spend("events", MaxEvents)
     /\ at' = "tail" /\ UNCHANGED <<round, waiting>>
     /\ \/ fb' \in {fb, Black} /\ UNCHANGED pixels
        \/ fb' = Junk /\ pixels' = TRUE

\* The rest of a message whose head an earlier call has read, and what comes
\* after it, is taken for messages; the client may be in step again by chance.
ReadRest ==
  /\ at \in {"first", "more"} /\ mid = Nothing /\ arrived > 0
  /\ Head(channel).part = 2 \/ OutOfStep
  /\ odd' = odd \cup {"torn"} /\ Misread
  /\ UNCHANGED <<guest, mid, input, behind>>

\* Mutant of Painted: the regions that did not change are black.
PaintedAlone(m) ==
  CASE m.kind = "pixels" -> [r \in Regions |-> IF r \in m.rects THEN history[m.of][r] ELSE -1]
    [] m.kind = "resize" -> Black
    [] OTHER -> fb
Painted(m) ==
  CASE m.kind = "pixels" -> [r \in Regions |-> IF r \in m.rects THEN history[m.of][r] ELSE fb[r]]
    [] m.kind = "resize" -> Black
    [] OTHER -> fb

HadPixels(m) == m.kind = "pixels"

\* A message that is no update is read over.
ReadBody ==
  /\ mid # Nothing /\ Take /\ mid' = Nothing /\ fb' = Painted(mid)
  /\ pixels' = (pixels \/ HadPixels(mid))
  /\ at' = IF mid.kind = "text" THEN at ELSE "tail"
  /\ UNCHANGED <<guest, round, waiting, input, spent, behind, odd>>

\* Mutant of Queued: the queued tail is looked for whether or not it is there.
QueuedAlways == TRUE
Queued == arrived > 0

\* The queued tail is read without a deadline.
ReadMore ==
  /\ at = "tail" /\ Queued /\ at' = "more"
  /\ UNCHANGED <<guest, wire, reading, waiting, input, spent, behind, odd>>

\* A request has been answered, or will be by what a later frame reads: what
\* is counted until a frame is late.
Answered == behind' = IF pixels \/ "late" \in odd THEN behind ELSE behind + 1

AskAgain ==
  /\ at = "tail" /\ ~Queued /\ ~pixels /\ round = 1
  /\ StartFrame(2) /\ Answered /\ UNCHANGED <<guest, mid, pixels, fb, waiting, input, spent, odd>>

HasFrame == at = "tail" /\ ~Queued /\ (pixels \/ round = 2)

\* The wait ends the operation, or asks for another frame.
Same == fb = seen
\* Mutant of Satisfied: one picture is stable enough.
SatisfiedAtOnce == goal # "change" \/ ~Same
Satisfied ==
  CASE goal = "look" -> TRUE
    [] goal = "change" -> ~Same
    [] goal = "stable" -> Same /\ stable = 1

FrameReturned ==
  /\ HasFrame /\ Satisfied /\ End("frame") /\ Answered
  /\ UNCHANGED <<guest, wire, mid, fb, input, spent, odd>>

PollAgain ==
  /\ HasFrame /\ ~Satisfied
  /\ IF goal = "stable"
     THEN seen' = fb /\ stable' = IF Same THEN stable + 1 ELSE 0
     ELSE UNCHANGED <<seen, stable>>
  /\ StartFrame(1) /\ pixels' = FALSE /\ Answered
  /\ UNCHANGED <<guest, mid, fb, goal, began, result, input, spent, odd>>

WaitExpires ==
  /\ HasFrame /\ ~Satisfied /\ End("late") /\ Answered
  /\ UNCHANGED <<guest, wire, mid, fb, input, spent, odd>>

\* wait_for gives up the read, also between the head and the body of a message.
Timeout ==
  /\ at = "first" /\ End("late") /\ mid' = Nothing
  /\ odd' = odd \cup {"late"}
  /\ UNCHANGED <<guest, wire, fb, input, spent, behind>>
------------------------------------------------------------------------------
(***************************************************************************)
(* Keyboard: press, shortcut and paste, and the button of a click.  Keys   *)
(* 1 and 2 are modifiers; a name that is no key is found out when its turn *)
(* has come.  Every event is written, and then the call may be cancelled.  *)
(***************************************************************************)
Typing == UNCHANGED <<guest, wire, reading, waiting>>

Shortcut(n, wrong) ==
  /\ at = "idle" /\ Spend("calls", MaxCalls)
  /\ mods' = n /\ bad' = wrong /\ pressed' = 0
  /\ goal' = "look" /\ began' = 0 /\ result' = "none" /\ UNCHANGED <<guest, wire, reading, seen, stable>>
  /\ at' = IF n = 0 THEN "key" ELSE "mods"
  /\ UNCHANGED <<held, behind, odd>>

ModifierDown ==
  /\ at = "mods" /\ bad # pressed + 1
  /\ pressed' = pressed + 1 /\ held' = held \cup {pressed'}
  /\ at' = IF pressed' = mods THEN "key" ELSE "mods"
  /\ UNCHANGED <<mods, bad, spent, behind, odd>> /\ Typing

\* The modifiers go down before the try.
ModifierUnknown ==
  /\ at = "mods" /\ bad = pressed + 1 /\ at' = "idle"
  /\ odd' = odd \cup {"interrupted"}
  /\ UNCHANGED <<input, spent, behind>> /\ Typing

KeyDown ==
  /\ at = "key" /\ bad # 3 /\ held' = held \cup {3} /\ at' = "hold"
  /\ UNCHANGED <<mods, bad, pressed, spent, behind, odd>> /\ Typing

\* Mutant of AfterFailure: the error leaves the shortcut at once.
AfterFailureAtOnce == "idle"
AfterFailure == IF mods = 0 THEN "idle" ELSE "release"

KeyUnknown ==
  /\ at = "key" /\ bad = 3 /\ at' = AfterFailure
  /\ UNCHANGED <<mods, bad, pressed, held, spent, behind, odd>> /\ Typing

KeyUp ==
  /\ at = "hold" /\ held' = held \ {3}
  /\ at' = IF mods = 0 THEN "idle" ELSE "release"
  /\ UNCHANGED <<mods, bad, pressed, spent, behind, odd>> /\ Typing

ModifierUp ==
  /\ at = "release"
  /\ pressed' = pressed - 1 /\ held' = held \ {pressed}
  /\ at' = IF pressed = 1 THEN "idle" ELSE "release"
  /\ UNCHANGED <<mods, bad, spent, behind, odd>> /\ Typing

\* A cancellation at an await: the keys that are down stay down, but for the
\* modifiers of a shortcut that has come to its try.
Cancelled ==
  /\ at \in {"mods", "key", "hold", "release"} /\ Spend("events", MaxEvents)
  /\ at' = IF at = "hold" THEN AfterFailure ELSE "idle"
  /\ odd' = odd \cup {"interrupted"}
  /\ UNCHANGED <<mods, bad, pressed, held, behind>> /\ Typing
------------------------------------------------------------------------------
Read == ReadHead \/ ReadRest \/ ReadBody \/ ReadMore \/ AskAgain \/ FrameReturned
Poll == PollAgain \/ WaitExpires
Keys == ModifierDown \/ ModifierUnknown \/ KeyDown \/ KeyUnknown \/ KeyUp \/ ModifierUp

\* A message of the tail that is no update was read, and no update is to come.
Hung == at = "more" /\ channel = <<>> /\ ~requested

Over == (Hung \/ (at = "idle" /\ spent.calls = MaxCalls)) /\ UNCHANGED vars

Next ==
  \/ \E r \in Regions : Change(r)
  \/ Serve \/ Arrive \/ \E kind \in {"resize", "text"} : Notify(kind)
  \/ \E for \in {"look", "change", "stable"} : Look(for)
  \/ \E n \in {0, 2}, wrong \in 0..3 : (n = 0 => wrong \in {0, 3}) /\ Shortcut(n, wrong)
  \/ Read \/ Poll \/ Timeout \/ Keys \/ Cancelled \/ Over

\* What was sent arrives, what arrived is read, and every wait has a deadline:
\* it is looked at whenever a frame does not satisfy the wait, and passes.
Spec ==
  /\ Init /\ [][Next]_vars
  /\ WF_vars(Arrive) /\ WF_vars(Read) /\ SF_vars(WaitExpires) /\ WF_vars(Timeout)
------------------------------------------------------------------------------
Returned == at = "idle" /\ result = "frame"

Blank == fb = Black
ShownSince(n) == \E v \in n..Len(history) : fb = history[v]

\* A frame is a picture the guest has shown, all of it at one time, although
\* updates bring parts of it only, or it is all black: neither request brought
\* pixels, or a resize was the last thing read.  A time-out does no harm to it
\* but between the head and the body of a message, which a later call misreads.
FrameWhole == Returned => Blank \/ ShownSince(1) \/ OutOfStep

\* As long as every request was answered in time, and by a picture, a frame is
\* not older than the call: the answers cannot fall behind.  The picture that
\* wait_for_stable returns is not, even if the client is behind by the answers
\* to two requests: three equal frames see to it.
Spare == IF goal = "stable" THEN 2 ELSE 0
FrameFresh == Returned =>
  Blank \/ "late" \in odd \/ ShownSince(began) \/ behind > Spare

\* Every key goes up again, whatever name of a shortcut is wrong, unless the
\* call is cancelled or fails while it is pressing the modifiers.
KeysUp == at \in {"idle", "first", "tail", "more"} => held = {} \/ "interrupted" \in odd

\* The client keeps its shape, leaves no key down (hotkey), and loses its step
\* in the messages only by a frame that has timed out.
VncInv == TypeOK /\ KeysUp /\ (OutOfStep => "late" \in odd)

\* A frame, and a wait for one, ends in time as long as the server sends
\* updates only and the client is in step with them.
FrameEnds == at \in {"first", "tail", "more"} ~> (at = "idle" \/ "text" \in odd \/ OutOfStep)

(***************************************************************************)
(* What comments of the code say.                                          *)
(***************************************************************************)
\* The tail is consumed so that captures show the current desktop (frame).
ShowsCurrent == Returned => ShownSince(began)

\* A frame has a time-out.
FrameAlwaysEnds == at \in {"first", "tail", "more"} ~> at = "idle"

\* "recordings always contain a complete desktop" (_read_framebuffer_payload)
AlwaysComplete == Returned => Blank \/ ShownSince(1)
==============================================================================
