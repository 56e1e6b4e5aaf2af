---------------------------- MODULE StudioProofs ----------------------------
(***************************************************************************)
(* Proofs about Studio: any processes, clients, calls and restores.        *)
(***************************************************************************)
EXTENDS Studio, SequenceTheorems, TLAPS

------------------------------------------------------------------------------
(***************************************************************************)
(* The invariant.  Typed holds whatever the processes do, the rest as long *)
(* as they keep apart.                                                     *)
(***************************************************************************)
Ops == {"none", "control", "snapshot", "reset", "serial", "crop", "before"}
Places == {"idle", "before", "operate", "after", "capture", "reset", "restart"}
Inside == {"before", "operate", "after", "capture"}   \* a call that holds the lock

Guests == [state : {"running", "dying", "dead", "lost"}, inputs : Nat, by : Processes]
EventRecords == [id : Nat \ {0}, op : Ops, ok : BOOLEAN, after : Nat, shot : Nat]
FrameRecords == [id : Nat \ {0}, label : Ops, shot : Nat]

DiskTyped ==
  /\ dir \in {"none", "bare", "full"} /\ manifest \in Manifests /\ manifest.gen <= Latest
  /\ frames \subseteq FrameRecords /\ events \in Seq(EventRecords)
  /\ guests \in Seq(Guests) /\ sockets \subseteq Kinds

InsideTyped ==
  /\ phase \in [Processes -> {"out", "connect", "restore", "first", "open"}]
  /\ object \in [Processes -> Manifests]
  /\ \A p \in Processes : object[p].gen <= Latest
  /\ lock \in [Processes -> Clients \cup {Nobody}]
  /\ \A p \in Processes : lock[p] # Nobody => ProcessOf[lock[p]] = p
  /\ call \in [Clients -> [op : Ops, at : Places, rev : Nat, before : Nat]]
  /\ \A c \in Clients : call[c].at \in Inside => lock[ProcessOf[c]] = c
  /\ seen \in [Clients -> [rev : Nat, shot : Nat, gen : Nat]]

BesideTyped ==
  /\ run \in [at : {"idle", "discard", "unlink"}, kept : SUBSET Kinds]
  /\ apart \in BOOLEAN /\ calls \in 0..MaxCalls

\* A process that takes its first snapshot has restored a guest.
OwnKnown ==
  \A p \in Processes : phase[p] = "first" =>
    \E g \in 1..Latest : guests[g].by = p /\ \A h \in g + 1..Latest : guests[h].by # p

Typed == DiskTyped /\ InsideTyped /\ BesideTyped /\ OwnKnown

\* Who is where: one process at a time has the session, calls that hold the
\* lock are made while it is open, and a reset has the session to itself.
OneAtATime ==
  /\ \A p, q \in Processes : phase[p] # "out" /\ phase[q] # "out" => p = q
  /\ \A c \in Clients :
       /\ call[c].at \in Inside => phase[ProcessOf[c]] = "open"
       /\ call[c].at \in {"reset", "restart"} =>
            MembersOf(ProcessOf[c]) = {c} /\ seen[c] = NoImage
       /\ phase[ProcessOf[c]] # "open" => seen[c] = NoImage
  /\ run.at # "idle" => \A p \in Processes : phase[p] # "restore"

\* What the directory holds before its manifest is written.
Blank ==
  /\ dir = "none" => manifest = NoManifest
  /\ manifest = NoManifest => events = <<>> /\ frames = {}
  /\ \A p \in Processes :
       /\ phase[p] = "restore" => manifest = NoManifest
       /\ phase[p] = "first" => /\ events = <<>> /\ frames = {}
                                /\ Latest > 0 /\ guests[Latest].by = p

\* The counters of o are ahead of the log and of the frames.
Covers(o) ==
  /\ \A i \in 1..Len(events) : events[i].id <= o.event /\ events[i].after <= o.frame
  /\ \A f \in frames : f.id <= o.frame

LogFits ==
  /\ Covers(manifest)
  /\ \A p \in Processes : phase[p] \in {"connect", "open"} => Covers(object[p])
  /\ \A i, j \in 1..Len(events) : i < j => events[i].id < events[j].id
  /\ \A i \in 1..Len(events), f \in frames :
       events[i].op # "crop" /\ events[i].after = f.id => events[i].shot = f.shot

Runs(g) == g \in 1..Latest /\ guests[g].state = "running"

\* The only guest that runs is the latest, which the manifest names, and the
\* process that has the session; a `catsnail run` keeps its screen.
OneRuns ==
  /\ \A g \in 1..Latest : Runs(g) =>
       /\ g = Latest /\ manifest.status = "active" /\ manifest.gen = g /\ "vnc" \in sockets
       /\ run.at # "idle" => "vnc" \in run.kept
       /\ \A p \in Processes :
            phase[p] \in {"connect", "open"} => object[p].gen = g /\ object[p].status = "active"
  /\ manifest.status = "stopped" =>
       \A p \in Processes : phase[p] \in {"out", "open"}
                            /\ (phase[p] = "open" => object[p].status = "stopped")

\* The image that c was given last shows what its guest has received.
Shows(c) ==
  /\ seen[c].gen = object[ProcessOf[c]].gen /\ seen[c].gen \in 1..Latest
  /\ guests[seen[c].gen].inputs = seen[c].shot

ImagesFit ==
  \A c \in Clients :
    /\ phase[ProcessOf[c]] = "open" => seen[c].rev <= object[ProcessOf[c]].event
    /\ (/\ phase[ProcessOf[c]] = "open" /\ seen[c].rev = object[ProcessOf[c]].event
        /\ seen[c].rev # 0
        /\ \A d \in Clients : ProcessOf[d] = ProcessOf[c] => call[d].at # "after")
       => Shows(c)
    /\ call[c].at \in {"before", "operate"} /\ call[c].rev # 0 => Shows(c)

\* A session is reset once it has been stopped.
ResetsStopped ==
  \A c \in Clients : call[c].at = "reset" =>
    phase[ProcessOf[c]] = "open" /\ object[ProcessOf[c]].status = "stopped"

Together == OneAtATime /\ Blank /\ LogFits /\ OneRuns /\ ResetsStopped /\ ImagesFit

SessionInv == Typed /\ (apart => Together)

------------------------------------------------------------------------------
(* Types *)

\* A guest changes its state, or receives an input.
LEMMA GuestEdited ==
  ASSUME NEW s \in Seq(Guests), NEW g \in 1..Len(s), NEW r \in Guests
  PROVE  /\ [s EXCEPT ![g] = r] \in Seq(Guests) /\ Len([s EXCEPT ![g] = r]) = Len(s)
         /\ \A i \in 1..Len(s) : [s EXCEPT ![g] = r][i] = IF i = g THEN r ELSE s[i]
BY ExceptSeq

\* What the steps do to the guests: nobody starts one, nobody types.
Quiet ==
  /\ guests' \in Seq(Guests) /\ Latest' = Latest
  /\ \A g \in 1..Latest :
       /\ guests'[g].by = guests[g].by /\ guests'[g].inputs = guests[g].inputs
       /\ guests'[g].state = "running" => guests[g].state = "running"

LEMMA StateQuiet ==
  ASSUME Typed, NEW g \in 1..Latest, NEW v \in {"dying", "dead"},
         guests' = [guests EXCEPT ![g].state = v]
  PROVE  Quiet /\ guests'[g].state # "running"
<1>1. guests \in Seq(Guests) /\ Latest = Len(guests)
  BY DEF Typed, DiskTyped, Latest
<1>2. guests[g] \in Guests
  BY <1>1
<1>3. PICK r \in Guests : r = [guests[g] EXCEPT !.state = v]
  BY <1>2 DEF Guests
<1>4. guests' = [guests EXCEPT ![g] = r]
  BY <1>3
<1>5. /\ guests' \in Seq(Guests) /\ Len(guests') = Len(guests)
      /\ \A i \in 1..Len(guests) : guests'[i] = IF i = g THEN r ELSE guests[i]
  BY <1>1, <1>4, GuestEdited, SMTT(30)
<1>6. r.by = guests[g].by /\ r.inputs = guests[g].inputs /\ r.state = v
  BY <1>2, <1>3 DEF Guests
<1>7. QED
  BY <1>1, <1>5, <1>6 DEF Quiet, Latest

LEMMA UnchangedQuiet ==
  ASSUME Typed, guests' = guests
  PROVE  Quiet
BY DEF Typed, DiskTyped, Quiet, Latest

\* A stop reaches the guest of the object, and no other.
LEMMA TerminatedQuiet ==
  ASSUME Typed, NEW k \in Nat, guests' = Terminated(k)
  PROVE  Quiet /\ (k \in 1..Latest => guests'[k].state # "running")
<1>1. CASE k \in 1..Latest /\ guests[k].state = "running"
  <2>1. guests' = [guests EXCEPT ![k].state = "dying"]
    BY <1>1 DEF Terminated
  <2>2. QED
    BY <1>1, <2>1, StateQuiet
<1>2. CASE ~(k \in 1..Latest /\ guests[k].state = "running")
  <2>1. guests' = guests
    BY <1>2 DEF Terminated
  <2>2. QED
    BY <1>2, <2>1, UnchangedQuiet
<1>3. QED
  BY <1>1, <1>2

\* An input reaches one guest.
LEMMA InputReaches ==
  ASSUME Typed, NEW g \in 1..Latest, guests' = Input(g)
  PROVE  /\ guests' \in Seq(Guests) /\ Latest' = Latest
         /\ \A i \in 1..Latest : /\ guests'[i].by = guests[i].by
                                 /\ guests'[i].state = guests[i].state
                                 /\ i # g => guests'[i].inputs = guests[i].inputs
<1>1. guests \in Seq(Guests) /\ Latest = Len(guests)
  BY DEF Typed, DiskTyped, Latest
<1>2. guests[g] \in Guests
  BY <1>1
<1>3. PICK r \in Guests : r = [guests[g] EXCEPT !.inputs = @ + 1]
  <2>1. PICK n \in Nat : n = guests[g].inputs + 1
    BY <1>2 DEF Guests
  <2>2. [guests[g] EXCEPT !.inputs = n] \in Guests
    BY <1>2 DEF Guests
  <2>3. [guests[g] EXCEPT !.inputs = @ + 1] = [guests[g] EXCEPT !.inputs = n]
    BY <2>1
  <2>4. QED
    BY <2>2, <2>3
<1>4. guests' = [guests EXCEPT ![g] = r]
  <2>1. guests' = [guests EXCEPT ![g] = [guests[g] EXCEPT !.inputs = @ + 1]]
    BY DEF Input
  <2>2. QED
    BY <1>3, <2>1
<1>5. /\ guests' \in Seq(Guests) /\ Len(guests') = Len(guests)
      /\ \A i \in 1..Len(guests) : guests'[i] = IF i = g THEN r ELSE guests[i]
  BY <1>1, <1>4, GuestEdited
<1>6. r.by = guests[g].by /\ r.state = guests[g].state
  BY <1>2, <1>3 DEF Guests
<1>7. QED
  BY <1>1, <1>5, <1>6 DEF Latest

\* A restore, also one that fails, adds a guest.
LEMMA GuestAdded ==
  ASSUME Typed, NEW r \in Guests, guests' = Append(guests, r)
  PROVE  /\ guests' \in Seq(Guests) /\ Latest' = Latest + 1 /\ guests'[Latest'] = r
         /\ \A g \in 1..Latest : guests'[g] = guests[g]
<1>1. guests \in Seq(Guests) /\ Latest = Len(guests) /\ Latest \in Nat
  BY DEF Typed, DiskTyped, Latest
<1>2. QED
  BY <1>1 DEF Latest

LEMMA LatestNatural ==
  ASSUME Typed
  PROVE  Latest \in Nat /\ \A g \in 1..Latest : guests[g] \in Guests
<1>1. guests \in Seq(Guests) /\ Latest = Len(guests)
  BY DEF Typed, DiskTyped, Latest
<1>2. QED
  BY <1>1

LEMMA OwnIs ==
  ASSUME Typed, NEW p \in Processes, phase[p] = "first"
  PROVE  /\ Own(p) \in 1..Latest /\ guests[Own(p)].by = p
         /\ \A h \in Own(p) + 1..Latest : guests[h].by # p
<1>1. \E g \in 1..Latest : guests[g].by = p /\ \A h \in g + 1..Latest : guests[h].by # p
  BY DEF Typed, OwnKnown
<1>2. QED
  BY <1>1 DEF Own

LEMMA OwnIsLatest ==
  ASSUME Typed, Blank, NEW p \in Processes, phase[p] = "first"
  PROVE  Own(p) = Latest
<1>1. Latest \in Nat /\ Latest > 0 /\ guests[Latest].by = p
  BY LatestNatural DEF Blank
<1>2. Own(p) \in 1..Latest /\ \A h \in Own(p) + 1..Latest : guests[h].by # p
  BY OwnIs
<1>3. QED
  BY <1>1, <1>2

\* Guests that keep the process that restored them keep OwnKnown.
LEMMA OwnKept ==
  ASSUME Typed, Latest' = Latest, \A g \in 1..Latest : guests'[g].by = guests[g].by,
         \A p \in Processes : phase'[p] = "first" => phase[p] = "first"
  PROVE  OwnKnown'
<1> SUFFICES ASSUME NEW p \in Processes, phase'[p] = "first"
             PROVE  \E g \in 1..Latest' : /\ guests'[g].by = p
                                          /\ \A h \in g + 1..Latest' : guests'[h].by # p
  BY DEF OwnKnown
<1>1. PICK g \in 1..Latest :
        guests[g].by = p /\ \A h \in g + 1..Latest : guests[h].by # p
  BY DEF Typed, OwnKnown
<1>2. Latest \in Nat
  BY LatestNatural
<1>3. \A h \in g + 1..Latest : h \in 1..Latest
  BY <1>2
<1>4. QED
  BY <1>1, <1>3

LEMMA OwnAdded ==
  ASSUME Typed, NEW p \in Processes, NEW r \in Guests, r.by = p, guests' = Append(guests, r),
         \A q \in Processes \ {p} : phase'[q] = "first" => phase[q] = "first"
  PROVE  OwnKnown'
<1>1. /\ Latest' = Latest + 1 /\ guests'[Latest'] = r /\ Latest \in Nat
      /\ \A g \in 1..Latest : guests'[g] = guests[g]
  BY GuestAdded, LatestNatural
<1> SUFFICES ASSUME NEW q \in Processes, phase'[q] = "first"
             PROVE  \E g \in 1..Latest' : /\ guests'[g].by = q
                                          /\ \A h \in g + 1..Latest' : guests'[h].by # q
  BY DEF OwnKnown
<1>2. CASE q = p
  <2>1. Latest' \in 1..Latest' /\ \A h \in Latest' + 1..Latest' : FALSE
    BY <1>1
  <2>2. QED
    BY <1>1, <1>2, <2>1
<1>3. CASE q # p
  <2>1. PICK g \in 1..Latest :
          guests[g].by = q /\ \A h \in g + 1..Latest : guests[h].by # q
    BY <1>3 DEF Typed, OwnKnown
  <2>2. ASSUME NEW h \in g + 1..Latest'
        PROVE  guests'[h].by # q
    <3>1. CASE h \in g + 1..Latest
      <4>1. h \in 1..Latest
        BY <1>1, <3>1
      <4>2. QED
        BY <1>1, <2>1, <3>1, <4>1
    <3>2. CASE h = Latest'
      BY <1>1, <1>3, <3>2
    <3>3. h \in g + 1..Latest \/ h = Latest'
      <4>1. h \in g + 1..Latest + 1 /\ g \in 1..Latest
        BY <1>1, <2>1, <2>2
      <4>2. QED
        BY <1>1, <4>1
    <3>4. QED
      BY <3>1, <3>2, <3>3
  <2>3. g \in 1..Latest' /\ guests'[g].by = q
    <3>1. g \in 1..Latest /\ guests'[g] = guests[g]
      BY <1>1, <2>1
    <3>2. QED
      BY <1>1, <2>1, <3>1
  <2>4. QED
    BY <2>2, <2>3
<1>4. QED
  BY <1>2, <1>3

------------------------------------------------------------------------------
(* The log *)

\* An event is appended; the frame it names, if any, is filed with it.
LEMMA LogAppended ==
  ASSUME Typed, LogFits, NEW b \in Manifests, NEW o \in Manifests, NEW e \in EventRecords, Covers(b),
         manifest' = o, events' = Append(events, e),
         o.event = b.event + 1, e.id = o.event,
         \A p \in Processes : phase'[p] \in {"connect", "open"} => object'[p] = o,
         \/ o.frame = b.frame /\ frames' = frames
            /\ (e.op = "crop" \/ e.after = 0) /\ e.after <= o.frame
         \/ o.frame = b.frame + 1 /\ e.after = o.frame
            /\ \E label \in Ops : frames' = Filed(o.frame, label, e.shot)
  PROVE  LogFits'
<1>1. events \in Seq(EventRecords) /\ frames \subseteq FrameRecords
  BY DEF Typed, DiskTyped
<1>2. PICK n \in Nat : n = Len(events)
  BY <1>1
<1>3. /\ Len(events') = n + 1 /\ events'[n + 1] = e
      /\ \A i \in 1..n : events'[i] = events[i] /\ events[i] \in EventRecords
  BY <1>1, <1>2
<1>4. b.event \in Nat /\ b.frame \in Nat /\ o.event \in Nat /\ o.frame \in Nat /\ e.after \in Nat
  BY DEF Manifests, EventRecords
<1>5. \A i \in 1..n : /\ events[i].id \in Nat /\ events[i].after \in Nat
                      /\ events[i].id <= b.event /\ events[i].after <= b.frame
  BY <1>2, <1>3 DEF Covers, EventRecords
<1>6. \A f \in frames : f.id \in Nat /\ f.id # 0 /\ f.id <= b.frame
  BY <1>1 DEF Covers, FrameRecords
\* What is on disk is an old frame, or the new one.
<1>7. \A f \in frames' : \/ f \in frames
                         \/ o.frame = b.frame + 1 /\ e.after = o.frame
                            /\ f.id = o.frame /\ f.shot = e.shot
  BY DEF Filed
<1>8. Covers(o)'
  <2>1. \A i \in 1..n + 1 : events'[i].id <= o.event /\ events'[i].after <= o.frame
    <3>1. ASSUME NEW i \in 1..n
          PROVE  events'[i].id <= o.event /\ events'[i].after <= o.frame
      BY <1>3, <1>4, <1>5
    <3>2. e.id <= o.event /\ e.after <= o.frame
      BY <1>4
    <3>3. QED
      BY <1>3, <3>1, <3>2
  <2>2. \A f \in frames' : f.id <= o.frame
    BY <1>4, <1>6, <1>7
  <2>3. QED
    BY <1>3, <2>1, <2>2 DEF Covers
<1>9. \A i, j \in 1..Len(events') : i < j => events'[i].id < events'[j].id
  <2>1. ASSUME NEW i \in 1..n, NEW j \in 1..n, i < j
        PROVE  events'[i].id < events'[j].id
    BY <1>2, <1>3, <2>1 DEF LogFits
  <2>2. ASSUME NEW i \in 1..n
        PROVE  events'[i].id < events'[n + 1].id
    <3>1. events'[i] = events[i] /\ events[i].id \in Nat /\ events[i].id <= b.event
      BY <1>3, <1>5
    <3>2. events'[n + 1].id = b.event + 1
      BY <1>3
    <3>3. QED
      BY <1>4, <3>1, <3>2
  <2>3. QED
    BY <1>3, <2>1, <2>2
<1>10. \A i \in 1..Len(events'), f \in frames' :
         events'[i].op # "crop" /\ events'[i].after = f.id => events'[i].shot = f.shot
  <2>1. ASSUME NEW i \in 1..n, NEW f \in frames', events'[i].op # "crop",
               events'[i].after = f.id
        PROVE  events'[i].shot = f.shot
    <3>1. f \in frames
      BY <1>3, <1>4, <1>5, <1>7, <2>1
    <3>2. QED
      BY <1>2, <1>3, <2>1, <3>1 DEF LogFits
  <2>2. ASSUME NEW f \in frames', e.op # "crop", e.after = f.id
        PROVE  e.shot = f.shot
    <3>1. CASE f \in frames
      <4>1. f.id # 0 /\ f.id <= b.frame /\ f.id \in Nat
        BY <1>6, <3>1
      <4>2. FALSE
        BY <1>4, <2>2, <4>1
      <4>3. QED
        BY <4>2
    <3>2. CASE f \notin frames
      BY <1>7, <3>2
    <3>3. QED
      BY <3>1, <3>2
  <2>3. QED
    BY <1>3, <2>1, <2>2
<1>11. QED
  BY <1>8, <1>9, <1>10 DEF LogFits

\* A frame before an input is filed under a number of its own.
LEMMA LogFramed ==
  ASSUME Typed, LogFits, NEW b \in Manifests, NEW o \in Manifests, NEW shot \in Nat, Covers(b),
         NEW label \in Ops, o.event = b.event, o.frame = b.frame + 1,
         manifest' = o, events' = events, frames' = Filed(o.frame, label, shot),
         \A p \in Processes : phase'[p] \in {"connect", "open"} => object'[p] = o
  PROVE  LogFits'
<1>1. events \in Seq(EventRecords) /\ frames \subseteq FrameRecords
  BY DEF Typed, DiskTyped
<1>2. b.event \in Nat /\ b.frame \in Nat /\ o.event \in Nat /\ o.frame \in Nat
  BY DEF Manifests
<1>3. \A i \in 1..Len(events) : /\ events[i].id \in Nat /\ events[i].after \in Nat
                                /\ events[i].id <= b.event /\ events[i].after <= b.frame
  <2>1. \A i \in 1..Len(events) : events[i] \in EventRecords
    BY <1>1
  <2>2. QED
    BY <2>1 DEF Covers, EventRecords
<1>4. \A f \in frames : f.id \in Nat /\ f.id <= b.frame
  BY <1>1 DEF Covers, FrameRecords
<1>5. \A f \in frames' : f \in frames \/ f.id = o.frame
  BY DEF Filed
<1>6. Covers(o)'
  <2>1. \A i \in 1..Len(events) : events[i].id <= o.event /\ events[i].after <= o.frame
    BY <1>2, <1>3
  <2>2. \A f \in frames' : f.id <= o.frame
    BY <1>2, <1>4, <1>5
  <2>3. QED
    BY <2>1, <2>2 DEF Covers
<1>7. \A i \in 1..Len(events'), f \in frames' :
        events'[i].op # "crop" /\ events'[i].after = f.id => events'[i].shot = f.shot
  <2>1. ASSUME NEW i \in 1..Len(events), NEW f \in frames', events[i].after = f.id
        PROVE  f \in frames
    BY <1>2, <1>3, <1>5, <2>1
  <2>2. QED
    BY <2>1 DEF LogFits
<1>8. QED
  BY <1>6, <1>7 DEF LogFits

\* A manifest without a log says nothing.
LEMMA LogEmpty ==
  ASSUME events' = <<>>, frames' = {}
  PROVE  LogFits'
<1>1. \A i \in 1..Len(events') : FALSE
  BY DEF LogFits
<1>2. Covers(manifest)' /\ \A p \in Processes : Covers(object[p])'
  BY <1>1 DEF Covers
<1>3. QED
  BY <1>1, <1>2 DEF LogFits

\* Nothing is recorded; an object that attaches reads the manifest.
LEMMA LogKept ==
  ASSUME LogFits, events' = events, frames' = frames,
         \/ manifest'.event = manifest.event /\ manifest'.frame = manifest.frame
         \/ \E p \in Processes : /\ phase[p] \in {"connect", "open"}
                                 /\ manifest'.event = object[p].event
                                 /\ manifest'.frame = object[p].frame,
         \A p \in Processes : phase'[p] \in {"connect", "open"} =>
           \/ object'[p] = manifest
           \/ /\ phase[p] \in {"connect", "open"}
              /\ object'[p].event = object[p].event /\ object'[p].frame = object[p].frame
  PROVE  LogFits'
<1>1. Covers(manifest)'
  BY DEF LogFits, Covers
<1>2. ASSUME NEW p \in Processes, phase'[p] \in {"connect", "open"}
      PROVE  Covers(object[p])'
  BY <1>2 DEF LogFits, Covers
<1>3. QED
  BY <1>1, <1>2 DEF LogFits

------------------------------------------------------------------------------
(* What several steps have in common *)

LEMMA Counters ==
  ASSUME NEW o \in Manifests
  PROVE  /\ NextEvent(o) \in Manifests /\ NextEvent(o).event = o.event + 1
         /\ NextEvent(o).frame = o.frame
         /\ NextEvent(o).gen = o.gen /\ NextEvent(o).status = o.status
         /\ NextFrame(o) \in Manifests /\ NextFrame(o).event = o.event
         /\ NextFrame(o).frame = o.frame + 1
         /\ NextFrame(o).gen = o.gen /\ NextFrame(o).status = o.status
         /\ Stopped(o) \in Manifests /\ Stopped(o).event = o.event
         /\ Stopped(o).frame = o.frame
         /\ Stopped(o).gen = o.gen /\ Stopped(o).status = "stopped"
<1>1. /\ o.event \in Nat /\ o.frame \in Nat
  BY DEF Manifests
<1>2. PICK m \in Nat, n \in Nat : m = o.event + 1 /\ n = o.frame + 1
  BY <1>1
<1>3. NextEvent(o) = [o EXCEPT !.event = m] /\ NextFrame(o) = [o EXCEPT !.frame = n]
  BY <1>2 DEF NextEvent, NextFrame
<1>4. QED
  BY <1>2, <1>3 DEF Manifests, Stopped

LEMMA FreshManifest ==
  ASSUME NEW g \in Nat
  PROVE  /\ Fresh(g) \in Manifests /\ Fresh(g).status = "active" /\ Fresh(g).gen = g
         /\ Fresh(g).frame = 0 /\ Fresh(g).event = 0
         /\ NoManifest \in Manifests /\ NoObject \in Manifests
BY DEF Fresh, Manifests, NoManifest, NoObject

LEMMA EventTyped ==
  ASSUME NEW id \in Nat \ {0}, NEW op \in Ops, NEW ok \in BOOLEAN, NEW after \in Nat, NEW shot \in Nat
  PROVE  /\ Event(id, op, ok, after, shot) \in EventRecords
         /\ Event(id, op, ok, after, shot).id = id /\ Event(id, op, ok, after, shot).op = op
         /\ Event(id, op, ok, after, shot).after = after
         /\ Event(id, op, ok, after, shot).shot = shot
BY DEF Event, EventRecords

LEMMA FramesTyped ==
  ASSUME Typed, NEW id \in Nat \ {0}, NEW label \in Ops, NEW shot \in Nat,
         frames' = Filed(id, label, shot)
  PROVE  frames' \subseteq FrameRecords
BY DEF Typed, DiskTyped, Filed, FrameRecords

LEMMA LogTyped ==
  ASSUME Typed, NEW e \in EventRecords, events' = Append(events, e)
  PROVE  events' \in Seq(EventRecords) /\ events' # <<>>
BY DEF Typed, DiskTyped

\* The process that has the session open writes its object back.
LEMMA WriterRuns ==
  ASSUME Typed, OneAtATime, OneRuns, NEW p \in Processes, phase[p] = "open", NEW o,
         o.gen = object[p].gen, o.status \in {object[p].status, "stopped"},
         o.status = "stopped" => \A g \in 1..Latest : g = o.gen => guests'[g].state # "running",
         manifest' = o, object'[p] = o,
         Latest' = Latest,
         \A g \in 1..Latest : guests'[g].state = "running" => guests[g].state = "running",
         phase' = phase, sockets' = sockets, run' = run
  PROVE  OneRuns'
<1>1. \A q \in Processes : phase[q] # "out" => q = p
  BY DEF OneAtATime
<1>2. ASSUME NEW g \in 1..Latest, guests'[g].state = "running"
      PROVE  /\ object[p].gen = g /\ object[p].status = "active" /\ o.status = "active"
             /\ "vnc" \in sockets /\ (run.at # "idle" => "vnc" \in run.kept)
  <2>1. Runs(g)
    BY <1>2 DEF Runs
  <2>2. QED
    BY <1>2, <2>1 DEF OneRuns
<1>3. QED
  BY <1>1, <1>2 DEF OneRuns, Runs

\* No guest starts, and nobody touches a manifest, an object or the sockets.
LEMMA RunsKept ==
  ASSUME OneRuns, Latest' = Latest, manifest' = manifest, object' = object,
         \A g \in 1..Latest : guests'[g].state = "running" => guests[g].state = "running",
         phase' = phase, sockets' = sockets, run' = run
  PROVE  OneRuns'
BY DEF OneRuns, Runs

LEMMA NoneRun ==
  ASSUME \A g \in 1..Latest' : guests'[g].state # "running", manifest'.status # "stopped"
  PROVE  OneRuns'
BY DEF OneRuns, Runs

\* The process of a reset leaves its session as it is.
LEMMA StopsKept ==
  ASSUME ResetsStopped,
         \A c \in Clients : call'[c].at = "reset" =>
           /\ call[c].at = "reset"
           /\ phase[ProcessOf[c]] = "open" =>
                /\ phase'[ProcessOf[c]] = "open"
                /\ object'[ProcessOf[c]].status = object[ProcessOf[c]].status
  PROVE  ResetsStopped'
BY DEF ResetsStopped

\* An event that shows nobody an image makes all images of the session old.
LEMMA ImagesOld ==
  ASSUME Typed, OneAtATime, ImagesFit, NEW p \in Processes, phase[p] = "open",
         phase' = phase, seen' = seen, Latest' = Latest,
         object'[p].event = object[p].event + 1, object'[p].gen = object[p].gen,
         \A c \in Clients : call'[c].at \in {"before", "operate"} => call'[c] = call[c],
         \/ \A g \in 1..Latest : guests'[g].inputs = guests[g].inputs
         \/ \A c \in Clients : ProcessOf[c] = p => call'[c].at \notin {"before", "operate"}
  PROVE  ImagesFit'
<1> SUFFICES ASSUME NEW c \in Clients
             PROVE  /\ phase[ProcessOf[c]] = "open" => seen[c].rev <= object'[ProcessOf[c]].event
                    /\ (/\ phase[ProcessOf[c]] = "open"
                        /\ seen[c].rev = object'[ProcessOf[c]].event)
                       => Shows(c)'
                    /\ call'[c].at \in {"before", "operate"} /\ call'[c].rev # 0 => Shows(c)'
  BY DEF ImagesFit
<1>1. object[p].event \in Nat /\ seen[c].rev \in Nat
  BY DEF Typed, InsideTyped, Manifests
<1>2. CASE ProcessOf[c] = p
  <2>1. seen[c].rev <= object[p].event
    BY <1>2 DEF ImagesFit
  <2>2. seen[c].rev < object'[p].event
    BY <1>1, <2>1
  <2>3. ASSUME call'[c].at \in {"before", "operate"}, call'[c].rev # 0
        PROVE  Shows(c)'
    <3>1. Shows(c)
      BY <2>3 DEF ImagesFit
    <3>2. QED
      BY <1>2, <2>3, <3>1 DEF Shows
  <2>4. QED
    BY <1>1, <1>2, <2>1, <2>2, <2>3
<1>3. CASE ProcessOf[c] # p
  <2>1. ProcessOf[c] \in Processes
    BY StudioAssumption
  <2>2. phase[ProcessOf[c]] # "open"
    BY <1>3, <2>1 DEF OneAtATime
  <2>3. call'[c].at \notin {"before", "operate"}
    BY <2>2 DEF OneAtATime, Inside
  <2>4. QED
    BY <2>2, <2>3
<1>4. QED
  BY <1>2, <1>3

\* The same when p, whose session is not open, is the only process that moves.
LEMMA StopsElsewhere ==
  ASSUME ResetsStopped, call' = call, NEW p \in Processes, phase[p] # "open",
         \A q \in Processes \ {p} : phase'[q] = phase[q] /\ object'[q] = object[q]
  PROVE  ResetsStopped'
<1>1. \A c \in Clients : ProcessOf[c] \in Processes
  BY StudioAssumption
<1>2. QED
  BY <1>1, StopsKept

\* Neither counters nor inputs nor images change.
LEMMA ImagesKept ==
  ASSUME Typed, ImagesFit, seen' = seen, Latest' = Latest,
         \A p \in Processes : /\ phase'[p] = "open" => phase[p] = "open"
                              /\ object'[p].event = object[p].event
                              /\ object'[p].gen = object[p].gen,
         \A g \in 1..Latest : guests'[g].inputs = guests[g].inputs,
         \A c \in Clients : /\ call'[c].at \in {"before", "operate"} => call'[c].rev = call[c].rev
                                 /\ call[c].at \in {"before", "operate"}
                            /\ call[c].at = "after" => call'[c].at = "after"
  PROVE  ImagesFit'
<1> SUFFICES ASSUME NEW c \in Clients
             PROVE  /\ phase'[ProcessOf[c]] = "open" => seen[c].rev <= object'[ProcessOf[c]].event
                    /\ (/\ phase'[ProcessOf[c]] = "open"
                        /\ seen[c].rev = object'[ProcessOf[c]].event
                        /\ seen[c].rev # 0
                        /\ \A d \in Clients : ProcessOf[d] = ProcessOf[c] => call'[d].at # "after")
                       => Shows(c)'
                    /\ call'[c].at \in {"before", "operate"} /\ call'[c].rev # 0 => Shows(c)'
  BY DEF ImagesFit
<1>1. ProcessOf[c] \in Processes
  BY StudioAssumption
<1>2. Shows(c) => Shows(c)'
  BY <1>1 DEF Shows
<1>3. QED
  BY <1>1, <1>2 DEF ImagesFit

------------------------------------------------------------------------------
(* The steps of a process *)

LEMMA MarkStaleKeeps ==
  ASSUME SessionInv, NEW p \in Processes, MarkStale(p)
  PROVE  SessionInv'
<1> DEFINE o == [manifest EXCEPT !.status = "stale"]
<1>1. /\ phase[p] = "out" /\ manifest.status = "active" /\ ~IsLive /\ Typed
      /\ manifest' = o /\ dir' = (IF dir = "none" THEN "bare" ELSE dir)
      /\ calls < MaxCalls /\ calls' = calls + 1
      /\ UNCHANGED <<frames, events, guests, sockets, phase, object, lock, call, seen, run, apart>>
  BY DEF MarkStale, Write, Begins, machine, inside, SessionInv
<1>2. /\ o \in Manifests /\ o.status = "stale" /\ o.gen = manifest.gen
      /\ o.event = manifest.event /\ o.frame = manifest.frame
  BY <1>1 DEF Manifests, Typed, DiskTyped
<1> HIDE DEF o
<1>3. Typed'
  <2>1. DiskTyped'
    BY <1>1, <1>2 DEF Typed, DiskTyped, Latest
  <2>2. InsideTyped'
    BY <1>1 DEF Typed, InsideTyped, Latest
  <2>3. BesideTyped'
    BY <1>1, StudioAssumption DEF Typed, BesideTyped
  <2>4. OwnKnown'
    BY <1>1, OwnKept DEF Latest
  <2>5. QED
    BY <2>1, <2>2, <2>3, <2>4 DEF Typed
<1>4. ASSUME apart'
      PROVE  Together'
  <2>1. Together
    BY <1>1, <1>4 DEF SessionInv
  <2>2. OneAtATime'
    BY <1>1, <2>1 DEF Together, OneAtATime
  <2>3. Blank'
    <3>1. manifest # NoManifest /\ o # NoManifest
      BY <1>1, <1>2 DEF NoManifest
    <3>2. QED
      BY <1>1, <2>1, <3>1 DEF Together, Blank, Latest
  <2>4. LogFits'
    BY <1>1, <1>2, <2>1, LogKept DEF Together
  <2>5. OneRuns'
    <3>1. \A g \in 1..Latest : ~Runs(g)
      BY <1>1, <2>1 DEF Together, OneRuns, IsLive, Alive, Runs
    <3>2. QED
      BY <1>1, <1>2, <3>1, NoneRun DEF Runs, Latest
  <2>6. ImagesFit'
    BY <1>1, <2>1, ImagesKept DEF Together, Latest
  <2>7. ResetsStopped'
    BY <1>1, <2>1, StopsKept DEF Together
  <2>8. QED
    BY <2>2, <2>3, <2>4, <2>5, <2>6, <2>7 DEF Together
<1>5. QED
  BY <1>3, <1>4 DEF SessionInv

LEMMA AttachReadsKeeps ==
  ASSUME SessionInv, NEW p \in Processes, AttachReads(p)
  PROVE  SessionInv'
<1>1. /\ phase[p] = "out" /\ manifest.status = "active" /\ Typed
      /\ phase' = [phase EXCEPT ![p] = "connect"]
      /\ object' = [object EXCEPT ![p] = manifest]
      /\ apart' = (apart /\ ~Meets(p))
      /\ calls < MaxCalls /\ calls' = calls + 1
      /\ UNCHANGED <<dir, manifest, frames, events, guests, sockets, lock, call, seen, run>>
  BY DEF AttachReads, Begins, machine, session, SessionInv
<1>2. Typed'
  <2>1. DiskTyped'
    BY <1>1 DEF Typed, DiskTyped, Latest
  <2>2. InsideTyped'
    BY <1>1 DEF Typed, InsideTyped, DiskTyped, Latest
  <2>3. BesideTyped'
    BY <1>1, StudioAssumption DEF Typed, BesideTyped
  <2>4. OwnKnown'
    BY <1>1, OwnKept DEF Latest, Typed, InsideTyped
  <2>5. QED
    BY <2>1, <2>2, <2>3, <2>4 DEF Typed
<1>3. ASSUME apart'
      PROVE  Together'
  <2>1. Together /\ \A q \in Processes \ {p} : phase[q] = "out"
    BY <1>1, <1>3 DEF SessionInv, Meets
  <2>2. phase \in [Processes -> {"out", "connect", "restore", "first", "open"}]
        /\ object \in [Processes -> Manifests]
    BY <1>1 DEF Typed, InsideTyped
  <2>3. OneAtATime'
    BY <1>1, <2>1, <2>2, StudioAssumption DEF Together, OneAtATime, Inside, MembersOf
  <2>4. Blank'
    BY <1>1, <2>1, <2>2 DEF Together, Blank, Latest
  <2>5. LogFits'
    BY <1>1, <2>1, <2>2, LogKept DEF Together
  <2>6. OneRuns'
    BY <1>1, <2>1, <2>2 DEF Together, OneRuns, Runs, Latest
  <2>7. ImagesFit'
    <3>1. ASSUME NEW c \in Clients
          PROVE  phase'[ProcessOf[c]] # "open" /\ call[c].at \notin {"before", "operate"}
      BY <1>1, <2>1, <2>2, StudioAssumption DEF Together, OneAtATime, Inside
    <3>2. QED
      BY <1>1, <3>1 DEF ImagesFit
  <2>8. ResetsStopped'
    BY <1>1, <2>1, <2>2, StopsElsewhere DEF Together
  <2>9. QED
    BY <2>1, <2>3, <2>4, <2>5, <2>6, <2>7, <2>8 DEF Together
<1>4. QED
  BY <1>2, <1>3 DEF SessionInv

LEMMA AttachedKeeps ==
  ASSUME SessionInv, NEW p \in Processes, Attached(p)
  PROVE  SessionInv'
<1>1. /\ phase[p] = "connect" /\ Typed
      /\ \/ phase' = [phase EXCEPT ![p] = "open"] /\ object' = object
         \/ phase' = [phase EXCEPT ![p] = "out"] /\ object' = [object EXCEPT ![p] = NoObject]
      /\ UNCHANGED <<dir, manifest, frames, events, guests, sockets, lock, call, seen, run, apart, calls>>
  BY DEF Attached, machine, session, SessionInv
<1>2. NoObject \in Manifests /\ NoObject.gen = 0 /\ Latest \in Nat
  BY <1>1, LatestNatural DEF NoObject, NoManifest, Manifests
<1>3. phase \in [Processes -> {"out", "connect", "restore", "first", "open"}]
      /\ object \in [Processes -> Manifests]
  BY <1>1 DEF Typed, InsideTyped
<1>4. Typed'
  <2>1. DiskTyped'
    BY <1>1 DEF Typed, DiskTyped, Latest
  <2>2. InsideTyped'
    <3>1. /\ object' \in [Processes -> Manifests]
          /\ phase' \in [Processes -> {"out", "connect", "restore", "first", "open"}]
      BY <1>1, <1>2, <1>3
    <3>2. \A q \in Processes : object'[q].gen <= Latest
      <4>1. \A q \in Processes : object[q].gen <= Latest
        BY <1>1 DEF Typed, InsideTyped
      <4>2. QED
        BY <1>1, <1>2, <1>3, <4>1
    <3>3. QED
      BY <1>1, <3>1, <3>2 DEF Typed, InsideTyped, Latest
  <2>3. BesideTyped'
    BY <1>1 DEF Typed, BesideTyped
  <2>4. OwnKnown'
    BY <1>1, <1>3, OwnKept DEF Latest
  <2>5. QED
    BY <2>1, <2>2, <2>3, <2>4 DEF Typed
<1>5. ASSUME apart'
      PROVE  Together'
  <2>1. Together
    BY <1>1, <1>5 DEF SessionInv
  <2>2. \A c \in Clients : ProcessOf[c] = p => seen[c] = NoImage /\ call[c].at \notin Inside
    BY <1>1, <2>1 DEF Together, OneAtATime
  <2>3. OneAtATime'
    BY <1>1, <1>3, <2>1, <2>2, StudioAssumption DEF Together, OneAtATime, MembersOf
  <2>4. Blank'
    BY <1>1, <1>3, <2>1 DEF Together, Blank, Latest
  <2>5. LogFits'
    BY <1>1, <1>3, <2>1, LogKept DEF Together
  <2>6. OneRuns'
    BY <1>1, <1>3, <2>1 DEF Together, OneRuns, Runs, Latest
  <2>7. ImagesFit'
    <3>1. ASSUME NEW c \in Clients, ProcessOf[c] = p
          PROVE  /\ seen[c].rev = 0 /\ object'[p].event >= 0
                 /\ call[c].at \notin {"before", "operate"}
      BY <1>1, <1>2, <1>3, <2>2, <3>1 DEF Inside, NoImage, Manifests
    <3>2. ASSUME NEW c \in Clients, ProcessOf[c] # p
          PROVE  /\ phase'[ProcessOf[c]] = phase[ProcessOf[c]]
                 /\ object'[ProcessOf[c]] = object[ProcessOf[c]]
      BY <1>1, <1>3, <3>2, StudioAssumption
    <3>3. QED
      BY <1>1, <2>1, <3>1, <3>2 DEF Together, ImagesFit, Shows, Latest
  <2>8. ResetsStopped'
    BY <1>1, <1>3, <2>1, StopsElsewhere DEF Together
  <2>9. QED
    BY <2>1, <2>3, <2>4, <2>5, <2>6, <2>7, <2>8 DEF Together
<1>6. QED
  BY <1>4, <1>5 DEF SessionInv

\* While a process restores or takes its first snapshot, nobody has an image
\* and nobody is in a call.
LEMMA Waiting ==
  ASSUME Typed, OneAtATime, NEW p \in Processes, phase[p] \in {"restore", "first"}
  PROVE  \A c \in Clients : /\ phase[ProcessOf[c]] # "open" /\ seen[c] = NoImage
                            /\ call[c].at \notin Inside
<1> SUFFICES ASSUME NEW c \in Clients
             PROVE  phase[ProcessOf[c]] # "open"
  BY DEF OneAtATime
<1>1. ProcessOf[c] \in Processes
  BY StudioAssumption
<1>2. QED
  BY <1>1 DEF OneAtATime

LEMMA NoImages ==
  ASSUME Typed, seen' = seen, \A c \in Clients : seen[c] = NoImage /\ call'[c].at \notin Inside,
         object' \in [Processes -> Manifests]
  PROVE  ImagesFit'
<1>1. \A c \in Clients : ProcessOf[c] \in Processes
  BY StudioAssumption
<1>2. \A p \in Processes : object'[p].event \in Nat
  BY DEF Manifests
<1>3. \A c \in Clients : seen[c].rev = 0
  BY DEF NoImage
<1>4. QED
  BY <1>1, <1>2, <1>3 DEF ImagesFit, Inside

LEMMA StartKeeps ==
  ASSUME SessionInv, NEW p \in Processes, Start(p)
  PROVE  SessionInv'
<1>1. /\ phase[p] = "out" /\ dir = "none" /\ Typed
      /\ phase' = [phase EXCEPT ![p] = "restore"] /\ dir' = "full"
      /\ apart' = (apart /\ ~Meets(p) /\ run.at = "idle")
      /\ calls < MaxCalls /\ calls' = calls + 1
      /\ UNCHANGED <<manifest, frames, events, guests, sockets, object, lock, call, seen, run>>
  BY DEF Start, Restoring, Begins, machine, SessionInv
<1>2. phase \in [Processes -> {"out", "connect", "restore", "first", "open"}]
      /\ object \in [Processes -> Manifests]
  BY <1>1 DEF Typed, InsideTyped
<1>3. Typed'
  <2>1. DiskTyped'
    BY <1>1 DEF Typed, DiskTyped, Latest
  <2>2. InsideTyped'
    BY <1>1 DEF Typed, InsideTyped, Latest
  <2>3. BesideTyped'
    BY <1>1, StudioAssumption DEF Typed, BesideTyped
  <2>4. OwnKnown'
    BY <1>1, <1>2, OwnKept DEF Latest
  <2>5. QED
    BY <2>1, <2>2, <2>3, <2>4 DEF Typed
<1>4. ASSUME apart'
      PROVE  Together'
  <2>1. Together /\ run.at = "idle" /\ \A q \in Processes \ {p} : phase[q] = "out"
    BY <1>1, <1>4 DEF SessionInv, Meets
  <2>2. manifest = NoManifest
    BY <1>1, <2>1 DEF Together, Blank
  <2>3. \A c \in Clients : seen[c] = NoImage /\ call[c].at \notin Inside
    BY <1>1, <2>1, StudioAssumption DEF Together, OneAtATime
  <2>4. OneAtATime'
    BY <1>1, <1>2, <2>1, <2>3, StudioAssumption DEF Together, OneAtATime, MembersOf
  <2>5. Blank'
    BY <1>1, <1>2, <2>1, <2>2 DEF Together, Blank
  <2>6. LogFits'
    BY <1>1, <2>1, <2>2, LogEmpty DEF Together, Blank
  <2>7. OneRuns'
    <3>1. \A g \in 1..Latest : guests[g].state # "running"
      BY <2>1, <2>2 DEF Together, OneRuns, Runs, NoManifest
    <3>2. QED
      BY <1>1, <2>2, <3>1, NoneRun DEF Latest, NoManifest
  <2>8. ImagesFit'
    BY <1>1, <1>2, <2>3, NoImages
  <2>9. ResetsStopped'
    BY <1>1, <1>2, <2>1, StopsElsewhere DEF Together
  <2>10. QED
    BY <2>4, <2>5, <2>6, <2>7, <2>8, <2>9 DEF Together
<1>5. QED
  BY <1>3, <1>4 DEF SessionInv

LEMMA RestoreFailsKeeps ==
  ASSUME SessionInv, NEW p \in Processes, RestoreFails(p)
  PROVE  SessionInv'
<1> DEFINE r == [state |-> "lost", inputs |-> 0, by |-> p]
<1>1. /\ phase[p] = "restore" /\ Typed
      /\ phase' = [phase EXCEPT ![p] = IF object[p] = NoObject THEN "out" ELSE "open"]
      /\ guests' = guests \/ guests' = Append(guests, r)
      /\ UNCHANGED <<dir, manifest, frames, events, sockets, object, lock, call, seen, run, apart, calls>>
  BY DEF RestoreFails, Failed, session, SessionInv
<1>2. phase \in [Processes -> {"out", "connect", "restore", "first", "open"}]
      /\ object \in [Processes -> Manifests]
      /\ \A q \in Processes : object[q].gen <= Latest /\ object[q].gen \in Nat
  BY <1>1 DEF Typed, InsideTyped, Manifests
<1>3. r \in Guests /\ r.state = "lost" /\ r.by = p
  BY DEF Guests
<1> HIDE DEF r
<1>4. /\ guests' \in Seq(Guests) /\ Latest \in Nat
      /\ \/ guests' = guests /\ Latest' = Latest
         \/ Latest' = Latest + 1 /\ guests'[Latest'] = r
            /\ \A g \in 1..Latest : guests'[g] = guests[g]
  BY <1>1, <1>3, GuestAdded, LatestNatural DEF Typed, DiskTyped, Latest
<1>5. Typed'
  <2>1. DiskTyped'
    BY <1>1, <1>4 DEF Typed, DiskTyped, Manifests
  <2>2. InsideTyped'
    <3>1. phase' \in [Processes -> {"out", "connect", "restore", "first", "open"}]
      BY <1>1, <1>2
    <3>2. \A q \in Processes : object'[q].gen <= Latest'
      BY <1>1, <1>2, <1>4
    <3>3. QED
      BY <1>1, <3>1, <3>2 DEF Typed, InsideTyped
  <2>3. BesideTyped'
    BY <1>1 DEF Typed, BesideTyped
  <2>4. OwnKnown'
    <3>1. CASE guests' = guests
      BY <1>1, <1>2, <3>1, OwnKept DEF Latest
    <3>2. CASE guests' = Append(guests, r)
      BY <1>1, <1>2, <1>3, <3>2, OwnAdded
    <3>3. QED
      BY <1>1, <3>1, <3>2
  <2>5. QED
    BY <2>1, <2>2, <2>3, <2>4 DEF Typed
<1>6. ASSUME apart'
      PROVE  Together'
  <2>1. Together
    BY <1>1, <1>6 DEF SessionInv
  <2>2. manifest = NoManifest /\ events = <<>> /\ frames = {} /\ \A q \in Processes \ {p} : phase[q] = "out"
    BY <1>1, <2>1 DEF Together, Blank, OneAtATime
  <2>3. \A c \in Clients : seen[c] = NoImage /\ call[c].at \notin Inside
    BY <1>1, <2>1, Waiting DEF Together
  <2>4. OneAtATime'
    BY <1>1, <1>2, <2>1, <2>3, StudioAssumption DEF Together, OneAtATime, MembersOf
  <2>5. Blank'
    BY <1>1, <1>2, <2>1, <2>2 DEF Together, Blank
  <2>6. LogFits'
    BY <1>1, <2>2, LogEmpty
  <2>7. OneRuns'
    <3>1. \A g \in 1..Latest : guests[g].state # "running"
      BY <2>1, <2>2 DEF Together, OneRuns, Runs, NoManifest
    <3>2. \A g \in 1..Latest' : guests'[g].state # "running"
      BY <1>3, <1>4, <3>1
    <3>3. QED
      BY <1>1, <2>2, <3>2, NoneRun DEF NoManifest
  <2>8. ImagesFit'
    BY <1>1, <1>2, <2>3, NoImages
  <2>9. ResetsStopped'
    BY <1>1, <1>2, <2>1, StopsElsewhere DEF Together
  <2>10. QED
    BY <2>4, <2>5, <2>6, <2>7, <2>8, <2>9 DEF Together
<1>7. QED
  BY <1>5, <1>6 DEF SessionInv

LEMMA RestoredKeeps ==
  ASSUME SessionInv, NEW p \in Processes, Restored(p)
  PROVE  SessionInv'
<1> DEFINE r == [state |-> "running", inputs |-> 0, by |-> p]
<1>1. /\ phase[p] = "restore" /\ Typed
      /\ phase' = [phase EXCEPT ![p] = "first"]
      /\ guests' = Append(guests, r) /\ sockets' = Kinds
      /\ manifest' = Fresh(Latest + 1) /\ dir' = (IF dir = "none" THEN "bare" ELSE dir)
      /\ UNCHANGED <<frames, events, object, lock, call, seen, run, apart, calls>>
  BY DEF Restored, Write, SessionInv
<1>2. phase \in [Processes -> {"out", "connect", "restore", "first", "open"}]
      /\ object \in [Processes -> Manifests]
      /\ \A q \in Processes : object[q].gen <= Latest /\ object[q].gen \in Nat
  BY <1>1 DEF Typed, InsideTyped, Manifests
<1>3. r \in Guests /\ r.state = "running" /\ r.by = p
  BY DEF Guests
<1> HIDE DEF r
<1>4. /\ guests' \in Seq(Guests) /\ Latest \in Nat
      /\ Latest' = Latest + 1 /\ guests'[Latest'] = r
      /\ \A g \in 1..Latest : guests'[g] = guests[g]
  BY <1>1, <1>3, GuestAdded, LatestNatural
<1>5. /\ manifest' \in Manifests /\ manifest'.status = "active" /\ manifest'.gen = Latest'
  BY <1>1, <1>4, FreshManifest
<1>6. Typed'
  <2>1. DiskTyped'
    BY <1>1, <1>4, <1>5 DEF Typed, DiskTyped
  <2>2. InsideTyped'
    <3>1. phase' \in [Processes -> {"out", "connect", "restore", "first", "open"}]
      BY <1>1, <1>2
    <3>2. \A q \in Processes : object'[q].gen <= Latest'
      BY <1>1, <1>2, <1>4
    <3>3. QED
      BY <1>1, <3>1, <3>2 DEF Typed, InsideTyped
  <2>3. BesideTyped'
    BY <1>1 DEF Typed, BesideTyped
  <2>4. OwnKnown'
    BY <1>1, <1>2, <1>3, OwnAdded
  <2>5. QED
    BY <2>1, <2>2, <2>3, <2>4 DEF Typed
<1>7. ASSUME apart'
      PROVE  Together'
  <2>1. Together
    BY <1>1, <1>7 DEF SessionInv
  <2>2. /\ manifest = NoManifest /\ events = <<>> /\ frames = {} /\ run.at = "idle"
        /\ \A q \in Processes \ {p} : phase[q] = "out"
    BY <1>1, <2>1 DEF Together, Blank, OneAtATime
  <2>3. \A c \in Clients : seen[c] = NoImage /\ call[c].at \notin Inside
    BY <1>1, <2>1, Waiting DEF Together
  <2>4. OneAtATime'
    BY <1>1, <1>2, <2>1, <2>2, <2>3, StudioAssumption DEF Together, OneAtATime, MembersOf
  <2>5. Blank'
    <3>1. manifest' # NoManifest /\ dir' # "none"
      BY <1>1, <1>5 DEF NoManifest
    <3>2. Latest' > 0 /\ guests'[Latest'].by = p
      BY <1>3, <1>4
    <3>3. QED
      BY <1>1, <1>2, <2>2, <3>1, <3>2 DEF Blank
  <2>6. LogFits'
    BY <1>1, <2>2, LogEmpty
  <2>7. OneRuns'
    <3>1. \A g \in 1..Latest : guests[g].state # "running"
      BY <2>1, <2>2 DEF Together, OneRuns, Runs, NoManifest
    <3>2. \A g \in 1..Latest' : guests'[g].state = "running" => g = Latest'
      BY <1>4, <3>1
    <3>3. "vnc" \in sockets'
      BY <1>1 DEF Kinds
    <3>4. \A q \in Processes : phase'[q] \notin {"connect", "open"}
      BY <1>1, <1>2, <2>2
    <3>5. QED
      BY <1>1, <1>5, <2>2, <3>2, <3>3, <3>4 DEF OneRuns, Runs
  <2>8. ImagesFit'
    BY <1>1, <1>2, <2>3, NoImages
  <2>9. ResetsStopped'
    BY <1>1, <1>2, <2>1, StopsElsewhere DEF Together
  <2>10. QED
    BY <2>4, <2>5, <2>6, <2>7, <2>8, <2>9 DEF Together
<1>8. QED
  BY <1>6, <1>7 DEF SessionInv

LEMMA FirstSnapshotKeeps ==
  ASSUME SessionInv, NEW p \in Processes, FirstSnapshot(p)
  PROVE  SessionInv'
<1> DEFINE own == Own(p)
           o == NextEvent(NextFrame(Fresh(own)))
           shot == guests[own].inputs
           e == Event(o.event, "snapshot", TRUE, o.frame, shot)
<1>1. /\ phase[p] = "first" /\ dir = "full" /\ Typed
      /\ phase' = [phase EXCEPT ![p] = "open"]
      /\ object' = [object EXCEPT ![p] = o] /\ manifest' = o /\ dir' = "full"
      /\ frames' = Filed(o.frame, "snapshot", shot) /\ events' = Append(events, e)
      /\ UNCHANGED <<guests, sockets, lock, call, seen, run, apart, calls>>
  BY DEF FirstSnapshot, Write, SessionInv, machine
<1>2. phase \in [Processes -> {"out", "connect", "restore", "first", "open"}]
      /\ object \in [Processes -> Manifests]
      /\ \A q \in Processes : object[q].gen <= Latest /\ object[q].gen \in Nat
  BY <1>1 DEF Typed, InsideTyped, Manifests
<1>3. own \in 1..Latest /\ own \in Nat /\ Latest \in Nat /\ own <= Latest
  <2>1. own \in 1..Latest /\ Latest \in Nat
    BY <1>1, OwnIs, LatestNatural
  <2>2. QED
    BY <2>1
<1>4. shot \in Nat
  BY <1>1, <1>3, LatestNatural DEF Guests
<1> HIDE DEF own
<1>5. /\ Fresh(own) \in Manifests /\ o \in Manifests /\ o.gen = own /\ o.status = "active"
      /\ o.event = Fresh(own).event + 1 /\ o.frame = Fresh(own).frame + 1
      /\ o.event = 1 /\ o.frame = 1
  <2>1. Fresh(own) \in Manifests /\ Fresh(own).gen = own /\ Fresh(own).status = "active"
        /\ Fresh(own).event = 0 /\ Fresh(own).frame = 0
    BY <1>3, FreshManifest
  <2>2. /\ NextFrame(Fresh(own)) \in Manifests /\ NextFrame(Fresh(own)).gen = own
        /\ NextFrame(Fresh(own)).status = "active" /\ NextFrame(Fresh(own)).event = 0
        /\ NextFrame(Fresh(own)).frame = 1
    BY <2>1, Counters
  <2>3. QED
    BY <2>1, <2>2, Counters
<1> HIDE DEF shot, o
<1>6. e \in EventRecords /\ e.id = o.event /\ e.op = "snapshot" /\ e.after = o.frame /\ e.shot = shot
  <2>1. o.event \in Nat \ {0} /\ o.frame \in Nat
    BY <1>5
  <2>2. "snapshot" \in Ops
    BY DEF Ops
  <2>3. QED
    BY <1>4, <2>1, <2>2 DEF Event, EventRecords
<1>7. Typed'
  <2>1. DiskTyped'
    <3>1. frames' \subseteq FrameRecords
      BY <1>1, <1>4, <1>5, FramesTyped DEF Ops
    <3>2. events' \in Seq(EventRecords)
      BY <1>1, <1>6, LogTyped
    <3>3. QED
      BY <1>1, <1>3, <1>5, <3>1, <3>2 DEF Typed, DiskTyped, Latest
  <2>2. InsideTyped'
    <3>1. /\ phase' \in [Processes -> {"out", "connect", "restore", "first", "open"}]
          /\ object' \in [Processes -> Manifests]
      BY <1>1, <1>2, <1>5
    <3>2. \A q \in Processes : object'[q].gen <= Latest
      BY <1>1, <1>2, <1>3, <1>5
    <3>3. QED
      BY <1>1, <3>1, <3>2 DEF Typed, InsideTyped, Latest
  <2>3. BesideTyped'
    BY <1>1 DEF Typed, BesideTyped
  <2>4. OwnKnown'
    BY <1>1, <1>2, OwnKept DEF Latest
  <2>5. QED
    BY <2>1, <2>2, <2>3, <2>4 DEF Typed
<1>8. ASSUME apart'
      PROVE  Together'
  <2>1. Together
    BY <1>1, <1>8 DEF SessionInv
  <2>2. /\ events = <<>> /\ frames = {} /\ own = Latest
        /\ \A q \in Processes \ {p} : phase[q] = "out"
    BY <1>1, <2>1, OwnIsLatest DEF Together, Blank, OneAtATime, own
  <2>3. \A c \in Clients : seen[c] = NoImage /\ call[c].at \notin Inside
    BY <1>1, <2>1, Waiting DEF Together
  <2>4. OneAtATime'
    BY <1>1, <1>2, <2>1, <2>2, <2>3, StudioAssumption DEF Together, OneAtATime, MembersOf
  <2>5. Blank'
    <3>1. manifest' # NoManifest
      BY <1>1, <1>5 DEF NoManifest
    <3>2. \A q \in Processes : phase'[q] \notin {"restore", "first"}
      BY <1>1, <1>2, <2>2
    <3>3. QED
      BY <1>1, <3>1, <3>2 DEF Blank
  <2>6. LogFits'
    <3>1. Covers(Fresh(own))
      BY <2>2 DEF Covers
    <3>2. \A q \in Processes : phase'[q] \in {"connect", "open"} => object'[q] = o
      BY <1>1, <1>2, <2>2
    <3>3. \E label \in Ops : frames' = Filed(o.frame, label, e.shot)
      BY <1>1, <1>6 DEF Ops
    <3>4. QED
      BY <1>1, <1>5, <1>6, <2>1, <3>1, <3>2, <3>3, LogAppended DEF Together
  <2>7. OneRuns'
    <3>1. ASSUME NEW g \in 1..Latest, guests[g].state = "running"
          PROVE  /\ g = Latest /\ g = o.gen /\ "vnc" \in sockets
                 /\ run.at # "idle" => "vnc" \in run.kept
      BY <1>5, <2>1, <2>2, <3>1 DEF Together, OneRuns, Runs
    <3>2. \A q \in Processes : phase'[q] \in {"connect", "open"} => object'[q] = o
      BY <1>1, <1>2, <2>2
    <3>3. QED
      BY <1>1, <1>5, <3>1, <3>2 DEF OneRuns, Runs, Latest
  <2>8. ImagesFit'
    BY <1>1, <1>2, <1>5, <2>3, NoImages
  <2>9. ResetsStopped'
    BY <1>1, <1>2, <2>1, StopsElsewhere DEF Together
  <2>10. QED
    BY <2>4, <2>5, <2>6, <2>7, <2>8, <2>9 DEF Together
<1>9. QED
  BY <1>7, <1>8 DEF SessionInv

LEMMA FirstFailsKeeps ==
  ASSUME SessionInv, NEW p \in Processes, FirstFails(p)
  PROVE  SessionInv'
<1>1. /\ phase[p] = "first" /\ Typed
      /\ phase' = [phase EXCEPT ![p] = IF object[p] = NoObject THEN "out" ELSE "open"]
      /\ guests' = [guests EXCEPT ![Own(p)].state = "dead"] /\ sockets' = {}
      /\ dir' = "none" /\ manifest' = NoManifest /\ frames' = {} /\ events' = <<>>
      /\ UNCHANGED <<object, lock, call, seen, run, apart, calls>>
  BY DEF FirstFails, Failed, SessionInv
<1>2. phase \in [Processes -> {"out", "connect", "restore", "first", "open"}]
      /\ object \in [Processes -> Manifests]
  BY <1>1 DEF Typed, InsideTyped
<1>3. Own(p) \in 1..Latest /\ Quiet /\ guests'[Own(p)].state # "running"
  <2>1. Own(p) \in 1..Latest
    BY <1>1, OwnIs
  <2>2. QED
    BY <1>1, <2>1, StateQuiet
<1>4. NoManifest \in Manifests /\ NoManifest.gen = 0 /\ Latest \in Nat
  BY <1>1, LatestNatural, FreshManifest DEF NoManifest
<1>5. Typed'
  <2>1. DiskTyped'
    <3>1. manifest' \in Manifests /\ manifest'.gen <= Latest'
      BY <1>1, <1>3, <1>4 DEF Quiet
    <3>2. events' \in Seq(EventRecords) /\ frames' \subseteq FrameRecords /\ sockets' \subseteq Kinds
      BY <1>1
    <3>3. QED
      BY <1>1, <1>3, <3>1, <3>2 DEF DiskTyped, Quiet
  <2>2. InsideTyped'
    <3>1. phase' \in [Processes -> {"out", "connect", "restore", "first", "open"}]
      BY <1>1, <1>2
    <3>2. QED
      BY <1>1, <1>3, <3>1 DEF Typed, InsideTyped, Quiet
  <2>3. BesideTyped'
    BY <1>1 DEF Typed, BesideTyped
  <2>4. OwnKnown'
    BY <1>1, <1>2, <1>3, OwnKept DEF Quiet
  <2>5. QED
    BY <2>1, <2>2, <2>3, <2>4 DEF Typed
<1>6. ASSUME apart'
      PROVE  Together'
  <2>1. Together
    BY <1>1, <1>6 DEF SessionInv
  <2>2. Own(p) = Latest /\ \A q \in Processes \ {p} : phase[q] = "out"
    BY <1>1, <2>1, OwnIsLatest DEF Together, OneAtATime
  <2>3. \A c \in Clients : seen[c] = NoImage /\ call[c].at \notin Inside
    BY <1>1, <2>1, Waiting DEF Together
  <2>4. OneAtATime'
    BY <1>1, <1>2, <2>1, <2>2, <2>3, StudioAssumption DEF Together, OneAtATime, MembersOf
  <2>5. Blank'
    BY <1>1, <1>2, <2>2 DEF Blank
  <2>6. LogFits'
    BY <1>1, LogEmpty
  <2>7. OneRuns'
    <3>1. \A g \in 1..Latest : guests[g].state = "running" => g = Latest
      BY <2>1 DEF Together, OneRuns, Runs
    <3>2. \A g \in 1..Latest' : guests'[g].state # "running"
      BY <1>3, <2>2, <3>1 DEF Quiet
    <3>3. QED
      BY <1>1, <3>2, NoneRun DEF NoManifest
  <2>8. ImagesFit'
    BY <1>1, <1>2, <2>3, NoImages
  <2>9. ResetsStopped'
    BY <1>1, <1>2, <2>1, StopsElsewhere DEF Together
  <2>10. QED
    BY <2>4, <2>5, <2>6, <2>7, <2>8, <2>9 DEF Together
<1>7. QED
  BY <1>5, <1>6 DEF SessionInv

LEMMA LeaveKeeps ==
  ASSUME SessionInv, NEW p \in Processes, Leave(p)
  PROVE  SessionInv'
<1> DEFINE o == Stopped(object[p])
<1>1. /\ phase[p] = "open" /\ Typed /\ \A c \in Clients : ProcessOf[c] = p => call[c] = NoCall
      /\ phase' = [phase EXCEPT ![p] = "out"]
      /\ seen' = [c \in Clients |-> IF ProcessOf[c] = p THEN NoImage ELSE seen[c]]
      /\ \/ guests' = guests /\ manifest' = manifest /\ dir' = dir
         \/ guests' = Terminated(object[p].gen) /\ manifest' = o
            /\ dir' = (IF dir = "none" THEN "bare" ELSE dir)
      /\ object' = [object EXCEPT ![p] = NoObject]
      /\ UNCHANGED <<frames, events, sockets, lock, call, run, apart, calls>>
  BY DEF Leave, AllIdle, MembersOf, Write, session, SessionInv
<1>2. phase \in [Processes -> {"out", "connect", "restore", "first", "open"}]
      /\ object \in [Processes -> Manifests]
      /\ \A q \in Processes : object[q].gen <= Latest /\ object[q].gen \in Nat
  BY <1>1 DEF Typed, InsideTyped, Manifests
<1>3. /\ o \in Manifests /\ o.gen = object[p].gen /\ o.status = "stopped"
      /\ o.event = object[p].event /\ o.frame = object[p].frame
  BY <1>2, Counters
<1> HIDE DEF o
<1>4. Quiet /\ (guests' = Terminated(object[p].gen) /\ object[p].gen \in 1..Latest
                => guests'[object[p].gen].state # "running")
  BY <1>1, <1>2, TerminatedQuiet, UnchangedQuiet
<1>5. NoObject \in Manifests /\ NoObject.gen = 0 /\ Latest \in Nat
  BY <1>1, LatestNatural, FreshManifest DEF NoObject, NoManifest
<1>6. Typed'
  <2>1. DiskTyped'
    <3>1. manifest' \in Manifests /\ manifest'.gen <= Latest'
      BY <1>1, <1>2, <1>3, <1>4 DEF Quiet, Typed, DiskTyped
    <3>2. QED
      BY <1>1, <1>4, <3>1 DEF Typed, DiskTyped, Quiet
  <2>2. InsideTyped'
    <3>1. /\ phase' \in [Processes -> {"out", "connect", "restore", "first", "open"}]
          /\ object' \in [Processes -> Manifests]
      BY <1>1, <1>2, <1>5
    <3>2. \A q \in Processes : object'[q].gen <= Latest'
      BY <1>1, <1>2, <1>4, <1>5 DEF Quiet
    <3>3. seen' \in [Clients -> [rev : Nat, shot : Nat, gen : Nat]]
      BY <1>1 DEF Typed, InsideTyped, NoImage
    <3>4. QED
      BY <1>1, <3>1, <3>2, <3>3 DEF Typed, InsideTyped
  <2>3. BesideTyped'
    BY <1>1 DEF Typed, BesideTyped
  <2>4. OwnKnown'
    BY <1>1, <1>2, <1>4, OwnKept DEF Quiet
  <2>5. QED
    BY <2>1, <2>2, <2>3, <2>4 DEF Typed
<1>7. ASSUME apart'
      PROVE  Together'
  <2>1. Together
    BY <1>1, <1>7 DEF SessionInv
  <2>2. \A q \in Processes : phase'[q] = "out"
    BY <1>1, <1>2, <2>1 DEF Together, OneAtATime
  <2>3. \A c \in Clients : /\ call[c].at \notin Inside /\ seen'[c] = NoImage
                           /\ call[c].at # "reset"
    <3>1. ASSUME NEW c \in Clients, ProcessOf[c] = p
          PROVE  call[c].at \notin Inside /\ seen'[c] = NoImage /\ call[c].at # "reset"
      BY <1>1, <3>1 DEF NoCall, Inside
    <3>2. ASSUME NEW c \in Clients, ProcessOf[c] # p
          PROVE  call[c].at \notin Inside /\ seen'[c] = NoImage /\ call[c].at # "reset"
      <4>1. phase[ProcessOf[c]] # "open"
        BY <1>1, <2>1, <3>2, StudioAssumption DEF Together, OneAtATime
      <4>2. QED
        BY <1>1, <2>1, <3>2, <4>1 DEF Together, OneAtATime, ResetsStopped
    <3>3. QED
      BY <3>1, <3>2
  <2>4. OneAtATime'
    BY <1>1, <2>1, <2>2, <2>3, StudioAssumption DEF Together, OneAtATime, MembersOf
  <2>5. Blank'
    <3>1. o # NoManifest
      BY <1>3 DEF NoManifest
    <3>2. QED
      BY <1>1, <2>1, <2>2, <3>1 DEF Together, Blank
  <2>6. LogFits'
    BY <1>1, <1>3, <2>1, <2>2, LogKept DEF Together
  <2>7. OneRuns'
    <3>1. CASE guests' = guests /\ manifest' = manifest
      BY <1>1, <2>1, <2>2, <3>1 DEF Together, OneRuns, Runs, Latest
    <3>2. CASE guests' = Terminated(object[p].gen)
      <4>1. \A g \in 1..Latest' : guests'[g].state # "running"
        BY <1>1, <1>4, <2>1, <3>2 DEF Quiet, Together, OneRuns, Runs
      <4>2. QED
        BY <2>2, <4>1 DEF OneRuns, Runs
    <3>3. QED
      BY <1>1, <3>1, <3>2
  <2>8. ImagesFit'
    BY <1>1, <2>2, <2>3, StudioAssumption DEF ImagesFit, Inside
  <2>9. ResetsStopped'
    BY <1>1, <2>3 DEF ResetsStopped
  <2>10. QED
    BY <2>4, <2>5, <2>6, <2>7, <2>8, <2>9 DEF Together
<1>8. QED
  BY <1>6, <1>7 DEF SessionInv

------------------------------------------------------------------------------
(* What the steps of the clients have in common *)

CallsTyped ==
  /\ lock \in [Processes -> Clients \cup {Nobody}]
  /\ \A p \in Processes : lock[p] # Nobody => ProcessOf[lock[p]] = p
  /\ call \in [Clients -> [op : Ops, at : Places, rev : Nat, before : Nat]]
  /\ \A c \in Clients : call[c].at \in Inside => lock[ProcessOf[c]] = c

Images == [rev : Nat, shot : Nat, gen : Nat]

\* The lock admits one call at a time.
LEMMA CallerAlone ==
  ASSUME Typed, NEW c \in Clients, call[c].at \in Inside
  PROVE  /\ ProcessOf[c] \in Processes /\ lock[ProcessOf[c]] = c
         /\ \A d \in Clients : ProcessOf[d] = ProcessOf[c] /\ d # c => call[d].at \notin Inside
BY StudioAssumption DEF Typed, InsideTyped

LEMMA Returned ==
  ASSUME Typed, NEW c \in Clients, Return(c)
  PROVE  /\ CallsTyped' /\ call'[c] = NoCall /\ NoCall.at = "idle"
         /\ \A d \in Clients : d # c => call'[d] = call[d]
<1>1. /\ call \in [Clients -> [op : Ops, at : Places, rev : Nat, before : Nat]]
      /\ lock \in [Processes -> Clients \cup {Nobody}] /\ ProcessOf[c] \in Processes
      /\ call' = [call EXCEPT ![c] = NoCall]
  BY StudioAssumption DEF Typed, InsideTyped, Return
<1>2. NoCall \in [op : Ops, at : Places, rev : Nat, before : Nat] /\ NoCall.at = "idle"
  BY DEF NoCall, Ops, Places
<1>3. call' \in [Clients -> [op : Ops, at : Places, rev : Nat, before : Nat]]
      /\ call'[c] = NoCall /\ \A d \in Clients : d # c => call'[d] = call[d]
  BY <1>1, <1>2
<1>4. /\ lock' \in [Processes -> Clients \cup {Nobody}]
      /\ \A p \in Processes : lock'[p] \in {lock[p], Nobody} /\ (lock[p] # c => lock'[p] = lock[p])
  BY <1>1 DEF Return
<1>5. \A p \in Processes : lock'[p] # Nobody => ProcessOf[lock'[p]] = p
  BY <1>4 DEF Typed, InsideTyped
<1>6. ASSUME NEW d \in Clients, call'[d].at \in Inside
      PROVE  lock'[ProcessOf[d]] = d
  <2>1. d # c
    BY <1>2, <1>3, <1>6 DEF Inside
  <2>2. ProcessOf[d] \in Processes /\ lock[ProcessOf[d]] = d
    BY <1>3, <1>6, <2>1, StudioAssumption DEF Typed, InsideTyped
  <2>3. QED
    BY <1>4, <2>1, <2>2
<1>7. QED
  BY <1>2, <1>3, <1>4, <1>5, <1>6 DEF CallsTyped

\* A call that holds the lock goes on.
LEMMA Continued ==
  ASSUME Typed, NEW c \in Clients, NEW r \in [op : Ops, at : Places, rev : Nat, before : Nat],
         r.at \in Inside => lock'[ProcessOf[c]] = c,
         call' = [call EXCEPT ![c] = r], lock' \in [Processes -> Clients \cup {Nobody}],
         \A p \in Processes : \/ lock'[p] = lock[p]
                              \/ lock[p] = Nobody /\ lock'[p] = c /\ p = ProcessOf[c]
  PROVE  /\ CallsTyped' /\ call'[c] = r
         /\ \A d \in Clients : d # c => call'[d] = call[d]
<1>1. call \in [Clients -> [op : Ops, at : Places, rev : Nat, before : Nat]]
  BY DEF Typed, InsideTyped
<1>2. call' \in [Clients -> [op : Ops, at : Places, rev : Nat, before : Nat]]
      /\ call'[c] = r /\ \A d \in Clients : d # c => call'[d] = call[d]
  BY <1>1
<1>3. \A p \in Processes : lock'[p] # Nobody => ProcessOf[lock'[p]] = p
  BY DEF Typed, InsideTyped
<1>4. ASSUME NEW d \in Clients, d # c, call[d].at \in Inside
      PROVE  lock'[ProcessOf[d]] = d
  <2>1. ProcessOf[d] \in Processes /\ lock[ProcessOf[d]] = d
    BY <1>4, StudioAssumption DEF Typed, InsideTyped
  <2>2. QED
    BY <2>1, StudioAssumption
<1>5. QED
  BY <1>2, <1>3, <1>4 DEF CallsTyped

LEMMA CallsSame ==
  ASSUME Typed, call' = call, lock' = lock
  PROVE  CallsTyped'
BY DEF Typed, InsideTyped, CallsTyped

\* The object is written back; the rest has its types.
LEMMA WriterTyped ==
  ASSUME Typed, NEW p \in Processes, NEW o \in Manifests, o.gen = object[p].gen,
         manifest' = o, object' = [object EXCEPT ![p] = o],
         dir' = IF dir = "none" THEN "bare" ELSE dir,
         guests' \in Seq(Guests), Latest' = Latest,
         \A g \in 1..Latest : guests'[g].by = guests[g].by,
         frames' \subseteq FrameRecords, events' \in Seq(EventRecords),
         CallsTyped', seen' \in [Clients -> Images], calls' \in 0..MaxCalls,
         phase' = phase, sockets' = sockets, run' = run, apart' = apart
  PROVE  Typed'
<1>1. object \in [Processes -> Manifests] /\ \A q \in Processes : object[q].gen <= Latest
  BY DEF Typed, InsideTyped
<1>2. DiskTyped'
  BY <1>1 DEF Typed, DiskTyped
<1>3. InsideTyped'
  <2>1. object' \in [Processes -> Manifests]
    BY <1>1
  <2>2. \A q \in Processes : object'[q].gen <= Latest
    BY <1>1
  <2>3. QED
    BY <2>1, <2>2 DEF Typed, InsideTyped, CallsTyped, Images
<1>4. BesideTyped'
  BY DEF Typed, BesideTyped
<1>5. OwnKnown'
  BY OwnKept
<1>6. QED
  BY <1>2, <1>3, <1>4, <1>5 DEF Typed

\* Calls of the process that has the session begin, go on and end.
LEMMA OneStays ==
  ASSUME OneAtATime, NEW p \in Processes, phase[p] = "open", phase' = phase, run' = run,
         \A d \in Clients :
           /\ call'[d].at \in Inside => ProcessOf[d] = p \/ call[d].at \in Inside
           /\ call'[d].at \in {"reset", "restart"} =>
                \/ call[d].at \in {"reset", "restart"} /\ seen'[d] = seen[d]
                \/ MembersOf(ProcessOf[d]) = {d} /\ seen'[d] = NoImage
           /\ ProcessOf[d] # p => seen'[d] = seen[d]
  PROVE  OneAtATime'
<1>1. \A d \in Clients : MembersOf(ProcessOf[d])' = MembersOf(ProcessOf[d])
  BY DEF MembersOf
<1>2. QED
  BY <1>1 DEF OneAtATime

LEMMA WriterBlank ==
  ASSUME OneAtATime, Blank, NEW p \in Processes, phase[p] = "open", NEW o,
         manifest' = o, o # NoManifest,
         dir' = IF dir = "none" THEN "bare" ELSE dir, phase' = phase
  PROVE  Blank'
<1>1. \A q \in Processes : phase[q] \notin {"restore", "first"}
  BY DEF OneAtATime
<1>2. dir' # "none"
  OBVIOUS
<1>3. QED
  BY <1>1, <1>2 DEF Blank

LEMMA NotBlank ==
  ASSUME NEW o \in Manifests, o.event > 0 \/ o.frame > 0 \/ o.status = "stopped"
  PROVE  o # NoManifest
BY DEF NoManifest, Manifests

\* A process with a call of another kind is not being reset.
LEMMA WriterStops ==
  ASSUME OneAtATime, ResetsStopped, NEW c \in Clients, call'[c].at # "reset",
         phase' = phase, call[c].at \notin {"reset", "restart"},
         \A q \in Processes : q # ProcessOf[c] => object'[q] = object[q],
         \A d \in Clients : d # c => call'[d] = call[d]
  PROVE  ResetsStopped'
<1> SUFFICES ASSUME NEW d \in Clients, call'[d].at = "reset"
             PROVE  phase[ProcessOf[d]] = "open" /\ object'[ProcessOf[d]].status = "stopped"
  BY DEF ResetsStopped
<1>1. d # c /\ call[d].at = "reset" /\ ProcessOf[d] \in Processes
  BY StudioAssumption
<1>2. MembersOf(ProcessOf[d]) = {d}
  BY <1>1 DEF OneAtATime
<1>3. ProcessOf[d] # ProcessOf[c]
  BY <1>1, <1>2 DEF MembersOf
<1>4. QED
  BY <1>1, <1>3 DEF ResetsStopped

------------------------------------------------------------------------------
(* The steps of a client *)

\* An expected revision is that of the image, so nothing was typed since.
LEMMA BeginKeeps ==
  ASSUME SessionInv, NEW c \in Clients, NEW op \in {"control", "snapshot"},
         NEW at \in {"before", "capture"}, NEW rev \in Expected(c),
         Begin(c, op, at, rev)
  PROVE  SessionInv'
<1> DEFINE p == ProcessOf[c]
           r == [op |-> op, at |-> at, rev |-> rev, before |-> 0]
<1>1. /\ phase[p] = "open" /\ call[c] = NoCall /\ lock[p] = Nobody
      /\ rev \in {0, object[p].event} /\ p \in Processes /\ Typed
      /\ lock' = [lock EXCEPT ![p] = c] /\ call' = [call EXCEPT ![c] = r]
      /\ calls < MaxCalls /\ calls' = calls + 1
      /\ UNCHANGED <<dir, manifest, frames, events, guests, sockets, phase, object, seen, run, apart>>
  BY StudioAssumption DEF Begin, Begins, Free, Accepts, session, machine, SessionInv
<1>2. /\ seen \in [Clients -> Images] /\ lock \in [Processes -> Clients \cup {Nobody}]
  BY <1>1 DEF Typed, InsideTyped, Images
<1>3. r \in [op : Ops, at : Places, rev : Nat, before : Nat] /\ r.rev = rev /\ r.at = at
  <2>1. rev \in Nat
    BY <1>2 DEF Expected, Images
  <2>2. QED
    BY <2>1 DEF Ops, Places
<1> HIDE DEF r
<1>4. CallsTyped' /\ call'[c] = r /\ \A d \in Clients : d # c => call'[d] = call[d]
  BY <1>1, <1>2, <1>3, Continued
<1>5. Typed'
  <2>1. DiskTyped'
    BY <1>1 DEF Typed, DiskTyped, Latest
  <2>2. InsideTyped'
    BY <1>1, <1>4 DEF Typed, InsideTyped, CallsTyped, Latest
  <2>3. BesideTyped'
    BY <1>1, StudioAssumption DEF Typed, BesideTyped
  <2>4. OwnKnown'
    BY <1>1, OwnKept DEF Latest
  <2>5. QED
    BY <2>1, <2>2, <2>3, <2>4 DEF Typed
<1>6. ASSUME apart'
      PROVE  Together'
  <2>1. Together
    BY <1>1, <1>6 DEF SessionInv
  <2>2. /\ call[c].at = "idle"
        /\ \A d \in Clients : ProcessOf[d] = p => call[d].at \notin Inside
    <3>1. \A d \in Clients : d # Nobody
      BY StudioAssumption
    <3>2. QED
      BY <1>1, <3>1 DEF Typed, InsideTyped, NoCall
  <2>3. OneAtATime'
    <3>1. \A d \in Clients : /\ call'[d].at \in Inside => ProcessOf[d] = p \/ call[d].at \in Inside
                             /\ call'[d].at \in {"reset", "restart"} =>
                                  call[d].at \in {"reset", "restart"}
      BY <1>3, <1>4
    <3>2. QED
      BY <1>1, <2>1, <3>1, OneStays DEF Together
  <2>4. Blank'
    BY <1>1, <2>1 DEF Together, Blank, Latest
  <2>5. LogFits'
    BY <1>1, <2>1, LogKept DEF Together
  <2>6. OneRuns'
    BY <1>1, <2>1, RunsKept DEF Together, Latest
  <2>7. ResetsStopped'
    BY <1>1, <1>3, <1>4, <2>1, <2>2, WriterStops DEF Together
  <2>8. ImagesFit'
    <3>1. rev # 0 => Shows(c)
      <4>1. ASSUME rev # 0
            PROVE  seen[c].rev = object[p].event /\ seen[c].rev # 0
        BY <1>1, <4>1 DEF Expected
      <4>2. \A d \in Clients : ProcessOf[d] = p => call[d].at # "after"
        BY <2>2 DEF Inside
      <4>3. QED
        BY <1>1, <2>1, <4>1, <4>2 DEF Together, ImagesFit
    <3>2. \A d \in Clients : Shows(d)' <=> Shows(d)
      BY <1>1 DEF Shows, Latest
    <3>3. \A d \in Clients : call[d].at = "after" => call'[d].at = "after"
      BY <1>4, <2>2
    <3>4. \A d \in Clients : d # c => call'[d] = call[d]
      BY <1>4
    <3>5. QED
      BY <1>1, <1>3, <1>4, <2>1, <3>1, <3>2, <3>3, <3>4 DEF Together, ImagesFit
  <2>9. QED
    BY <2>3, <2>4, <2>5, <2>6, <2>7, <2>8 DEF Together
<1>7. QED
  BY <1>5, <1>6 DEF SessionInv

LEMMA BeforeKeeps ==
  ASSUME SessionInv, NEW c \in Clients, Before(c)
  PROVE  SessionInv'
<1> DEFINE p == ProcessOf[c]
           o == NextFrame(object[p])
           shot == guests[o.gen].inputs
           r == [call[c] EXCEPT !.at = "operate", !.before = shot]
<1>1. /\ call[c].at = "before" /\ Reaches(p) /\ dir = "full" /\ p \in Processes /\ Typed
      /\ frames' = Filed(o.frame, "before", shot)
      /\ object' = [object EXCEPT ![p] = o] /\ manifest' = o
      /\ dir' = (IF dir = "none" THEN "bare" ELSE dir)
      /\ call' = [call EXCEPT ![c] = r]
      /\ UNCHANGED <<events, guests, sockets, phase, lock, seen, run, apart, calls>>
  BY StudioAssumption DEF Before, Write, machine, SessionInv
<1>2. /\ object \in [Processes -> Manifests] /\ seen \in [Clients -> Images]
      /\ call \in [Clients -> [op : Ops, at : Places, rev : Nat, before : Nat]]
      /\ lock \in [Processes -> Clients \cup {Nobody}] /\ calls \in 0..MaxCalls
      /\ events \in Seq(EventRecords) /\ guests \in Seq(Guests)
  BY <1>1 DEF Typed, InsideTyped, DiskTyped, BesideTyped, Images
<1>3. /\ object[p] \in Manifests /\ object[p].event \in Nat /\ object[p].frame \in Nat
      /\ o \in Manifests /\ o.gen = object[p].gen /\ o.status = object[p].status
      /\ o.event = object[p].event /\ o.frame = object[p].frame + 1
  BY <1>1, <1>2, Counters DEF Manifests
<1> HIDE DEF o
<1>4. shot \in Nat
  <2>1. o.gen \in 1..Latest
    BY <1>1, <1>3 DEF Reaches, Alive
  <2>2. QED
    BY <1>1, <2>1, LatestNatural DEF Guests
<1> HIDE DEF shot
<1>5. r \in [op : Ops, at : Places, rev : Nat, before : Nat] /\ r.rev = call[c].rev
      /\ r.at = "operate"
  BY <1>2, <1>4 DEF Places
<1> HIDE DEF r
<1>6. /\ lock[p] = c
      /\ \A d \in Clients : ProcessOf[d] = p /\ d # c => call[d].at \notin Inside
  BY <1>1, CallerAlone DEF Inside
<1>7. CallsTyped' /\ call'[c] = r /\ \A d \in Clients : d # c => call'[d] = call[d]
  BY <1>1, <1>2, <1>5, <1>6, Continued
<1>8. Typed'
  <2>1. frames' \subseteq FrameRecords
    <3>1. o.frame \in Nat \ {0} /\ "before" \in Ops
      BY <1>3 DEF Ops
    <3>2. QED
      BY <1>1, <1>4, <3>1, FramesTyped
  <2>2. QED
    BY <1>1, <1>2, <1>3, <1>7, <2>1, WriterTyped DEF Latest
<1>9. ASSUME apart'
      PROVE  Together'
  <2>1. Together /\ phase[p] = "open"
    BY <1>1, <1>9 DEF SessionInv, Together, OneAtATime, Inside
  <2>2. \A q \in Processes : phase[q] # "out" => q = p
    BY <1>1, <2>1 DEF Together, OneAtATime
  <2>3. OneAtATime'
    <3>1. \A d \in Clients : /\ call'[d].at \in Inside => ProcessOf[d] = p \/ call[d].at \in Inside
                             /\ call'[d].at \in {"reset", "restart"} =>
                                  call[d].at \in {"reset", "restart"}
      BY <1>5, <1>7
    <3>2. QED
      BY <1>1, <2>1, <3>1, OneStays DEF Together
  <2>4. Blank'
    <3>1. o # NoManifest
      BY <1>3, NotBlank
    <3>2. QED
      BY <1>1, <2>1, <3>1, WriterBlank DEF Together
  <2>5. LogFits'
    <3>1. Covers(object[p])
      BY <1>1, <2>1 DEF Together, LogFits
    <3>2. \A q \in Processes : phase'[q] \in {"connect", "open"} => object'[q] = o
      BY <1>1, <1>2, <2>2
    <3>3. "before" \in Ops
      BY DEF Ops
    <3>4. QED
      BY <1>1, <1>3, <1>4, <2>1, <3>1, <3>2, <3>3, LogFramed DEF Together
  <2>6. OneRuns'
    <3>1. object'[p] = o /\ object[p].status = "active"
      BY <1>1, <1>2 DEF Reaches
    <3>2. QED
      BY <1>1, <1>3, <2>1, <3>1, WriterRuns DEF Together, Latest
  <2>7. ResetsStopped'
    BY <1>1, <1>2, <1>5, <1>7, <2>1, WriterStops DEF Together
  <2>8. ImagesFit'
    <3>1. \A q \in Processes : object'[q].event = object[q].event /\ object'[q].gen = object[q].gen
      BY <1>1, <1>2, <1>3
    <3>2. QED
      BY <1>1, <1>5, <1>7, <2>1, <3>1, ImagesKept DEF Together, Latest
  <2>9. QED
    BY <2>3, <2>4, <2>5, <2>6, <2>7, <2>8 DEF Together
<1>10. QED
  BY <1>8, <1>9 DEF SessionInv

LEMMA OperateKeeps ==
  ASSUME SessionInv, NEW c \in Clients, Operate(c)
  PROVE  SessionInv'
<1> DEFINE p == ProcessOf[c]
           r == [call[c] EXCEPT !.at = "after"]
<1>1. /\ call[c].at = "operate" /\ Reaches(p) /\ p \in Processes /\ Typed
      /\ guests' = Input(object[p].gen) /\ call' = [call EXCEPT ![c] = r]
      /\ UNCHANGED <<dir, manifest, frames, events, sockets, phase, object, lock, seen, run, apart, calls>>
  BY StudioAssumption DEF Operate, session, SessionInv
<1>2. /\ call \in [Clients -> [op : Ops, at : Places, rev : Nat, before : Nat]]
      /\ lock \in [Processes -> Clients \cup {Nobody}]
  BY <1>1 DEF Typed, InsideTyped
<1>3. /\ r \in [op : Ops, at : Places, rev : Nat, before : Nat] /\ r.at = "after"
  BY <1>2 DEF Places
<1> HIDE DEF r
<1>4. /\ lock[p] = c
      /\ \A d \in Clients : ProcessOf[d] = p /\ d # c => call[d].at \notin Inside
  BY <1>1, CallerAlone DEF Inside
<1>5. CallsTyped' /\ call'[c] = r /\ \A d \in Clients : d # c => call'[d] = call[d]
  BY <1>1, <1>2, <1>3, <1>4, Continued
<1>6. /\ guests' \in Seq(Guests) /\ Latest' = Latest
      /\ \A i \in 1..Latest : /\ guests'[i].by = guests[i].by
                              /\ guests'[i].state = guests[i].state
  <2>1. object[p].gen \in 1..Latest
    BY <1>1 DEF Reaches, Alive
  <2>2. QED
    BY <1>1, <2>1, InputReaches
<1>7. Typed'
  <2>1. DiskTyped'
    BY <1>1, <1>6 DEF Typed, DiskTyped
  <2>2. InsideTyped'
    BY <1>1, <1>5, <1>6 DEF Typed, InsideTyped, CallsTyped
  <2>3. BesideTyped'
    BY <1>1 DEF Typed, BesideTyped
  <2>4. OwnKnown'
    BY <1>1, <1>6, OwnKept
  <2>5. QED
    BY <2>1, <2>2, <2>3, <2>4 DEF Typed
<1>8. ASSUME apart'
      PROVE  Together'
  <2>1. Together /\ phase[p] = "open"
    BY <1>1, <1>8 DEF SessionInv, Together, OneAtATime, Inside
  <2>2. \A d \in Clients : ProcessOf[d] # p => /\ phase[ProcessOf[d]] # "open"
                                              /\ call[d].at \notin Inside
    BY <1>1, <2>1, StudioAssumption DEF Together, OneAtATime
  <2>3. OneAtATime'
    <3>1. \A d \in Clients : /\ call'[d].at \in Inside => ProcessOf[d] = p \/ call[d].at \in Inside
                             /\ call'[d].at \in {"reset", "restart"} =>
                                  call[d].at \in {"reset", "restart"}
      BY <1>3, <1>5
    <3>2. QED
      BY <1>1, <2>1, <3>1, OneStays DEF Together
  <2>4. Blank'
    <3>1. \A q \in Processes : phase[q] \notin {"restore", "first"}
      BY <1>1, <2>1 DEF Together, OneAtATime
    <3>2. QED
      BY <1>1, <2>1, <3>1 DEF Together, Blank
  <2>5. LogFits'
    BY <1>1, <2>1, LogKept DEF Together
  <2>6. OneRuns'
    BY <1>1, <1>6, <2>1, RunsKept DEF Together
  <2>7. ResetsStopped'
    BY <1>1, <1>3, <1>5, <2>1, WriterStops DEF Together
  <2>8. ImagesFit'
    <3>1. \A d \in Clients : call'[d].at \notin {"before", "operate"}
      BY <1>3, <1>4, <1>5, <2>2 DEF Inside
    <3>2. call'[c].at = "after"
      BY <1>3, <1>5
    <3>3. ASSUME NEW d \in Clients, phase[ProcessOf[d]] = "open"
          PROVE  ProcessOf[d] = ProcessOf[c] /\ seen[d].rev <= object[ProcessOf[d]].event
      BY <2>1, <2>2, <3>3 DEF Together, ImagesFit
    <3>4. QED
      BY <1>1, <3>1, <3>2, <3>3 DEF ImagesFit
  <2>9. QED
    BY <2>3, <2>4, <2>5, <2>6, <2>7, <2>8 DEF Together
<1>9. QED
  BY <1>7, <1>8 DEF SessionInv

\* What ControlFails, ReadSerial and Crop have in common: an event that leaves
\* no frame of its own, after which c is idle.
LEMMA RecordKeeps ==
  ASSUME SessionInv, NEW c \in Clients, NEW p \in Processes, p = ProcessOf[c],
         apart => phase[p] = "open",
         NEW o \in Manifests, o = NextEvent(object[p]), NEW e \in EventRecords,
         e.id = o.event, events' = Append(events, e), frames' = frames,
         e.op = "crop" \/ e.after = 0,
         apart => e.after <= o.frame,
         object' = [object EXCEPT ![p] = o], manifest' = o,
         dir' = IF dir = "none" THEN "bare" ELSE dir,
         guests' \in Seq(Guests), Latest' = Latest,
         \A g \in 1..Latest : guests'[g].by = guests[g].by /\ guests'[g].state = guests[g].state,
         \/ \A g \in 1..Latest : guests'[g].inputs = guests[g].inputs
         \/ \A d \in Clients : ProcessOf[d] = p => call'[d].at \notin {"before", "operate"},
         call[c].at \notin {"reset", "restart"}, call'[c].at = "idle",
         \A d \in Clients : d # c => call'[d] = call[d],
         CallsTyped', calls' \in 0..MaxCalls,
         seen' = seen, phase' = phase, sockets' = sockets, run' = run, apart' = apart
  PROVE  SessionInv'
<1>1. /\ object \in [Processes -> Manifests] /\ seen \in [Clients -> Images] /\ Typed
      /\ frames \subseteq FrameRecords
  BY DEF Typed, InsideTyped, DiskTyped, Images, SessionInv
<1>2. /\ object[p] \in Manifests /\ object[p].event \in Nat
      /\ o.gen = object[p].gen /\ o.status = object[p].status
      /\ o.event = object[p].event + 1 /\ o.frame = object[p].frame
  BY <1>1, Counters, ZenonT(30) DEF Manifests
<1>3. Typed'
  <2>1. events' \in Seq(EventRecords)
    BY <1>1, LogTyped
  <2>2. QED
    BY <1>1, <1>2, <2>1, WriterTyped
<1>4. ASSUME apart'
      PROVE  Together'
  <2>1. Together /\ phase[p] = "open"
    BY <1>4 DEF SessionInv
  <2>2. \A q \in Processes : phase[q] # "out" => q = p
    BY <2>1 DEF Together, OneAtATime
  <2>3. OneAtATime'
    <3>1. \A d \in Clients : /\ call'[d].at \in Inside => ProcessOf[d] = p \/ call[d].at \in Inside
                             /\ call'[d].at \in {"reset", "restart"} =>
                                  call[d].at \in {"reset", "restart"}
      OBVIOUS
    <3>2. QED
      BY <2>1, <3>1, OneStays DEF Together
  <2>4. Blank'
    <3>1. o # NoManifest
      BY <1>2, NotBlank
    <3>2. QED
      BY <2>1, <3>1, WriterBlank DEF Together
  <2>5. LogFits'
    <3>1. Covers(object[p])
      BY <2>1 DEF Together, LogFits
    <3>2. \A q \in Processes : phase'[q] \in {"connect", "open"} => object'[q] = o
      BY <1>1, <2>2
    <3>3. e.after <= o.frame
      BY <1>4
    <3>4. QED
      BY <1>1, <1>2, <2>1, <3>1, <3>2, <3>3, LogAppended DEF Together
  <2>6. OneRuns'
    <3>1. /\ object'[p] = o
          /\ \A g \in 1..Latest : guests'[g].state = "running" => guests[g].state = "running"
      BY <1>1
    <3>2. o.status = "stopped" => \A g \in 1..Latest : g = o.gen => guests'[g].state # "running"
      BY <1>2, <2>1 DEF Together, OneRuns, Runs
    <3>3. QED
      BY <1>1, <1>2, <2>1, <3>1, <3>2, WriterRuns DEF Together
  <2>7. ResetsStopped'
    BY <1>1, <2>1, WriterStops DEF Together
  <2>8. ImagesFit'
    <3>1. object'[p].event = object[p].event + 1 /\ object'[p].gen = object[p].gen
      BY <1>1, <1>2
    <3>2. \A d \in Clients : call'[d].at \in {"before", "operate"} => call'[d] = call[d]
      OBVIOUS
    <3>3. QED
      BY <1>1, <2>1, <3>1, <3>2, ImagesOld DEF Together
  <2>9. QED
    BY <2>3, <2>4, <2>5, <2>6, <2>7, <2>8 DEF Together
<1>5. QED
  BY <1>3, <1>4 DEF SessionInv

LEMMA ControlFailsKeeps ==
  ASSUME SessionInv, NEW c \in Clients, ControlFails(c)
  PROVE  SessionInv'
<1> DEFINE p == ProcessOf[c]
           o == NextEvent(object[p])
           e == Event(o.event, "control", FALSE, 0, 0)
<1>1. /\ call[c].at \in {"operate", "after"} /\ p \in Processes /\ Typed
      /\ \/ guests' = guests
         \/ Reaches(p) /\ guests' = Input(o.gen)
      /\ events' = Append(events, e) /\ Return(c)
      /\ object' = [object EXCEPT ![p] = o] /\ manifest' = o
      /\ dir' = (IF dir = "none" THEN "bare" ELSE dir)
      /\ UNCHANGED <<frames, sockets, phase, seen, run, apart, calls>>
  BY StudioAssumption DEF ControlFails, Write, SessionInv
<1>2. object \in [Processes -> Manifests] /\ calls \in 0..MaxCalls /\ guests \in Seq(Guests)
  BY <1>1 DEF Typed, InsideTyped, BesideTyped, DiskTyped
<1>3. /\ o \in Manifests /\ o.gen = object[p].gen /\ o.event \in Nat \ {0} /\ o.frame \in Nat
  <2>1. object[p] \in Manifests /\ object[p].event \in Nat
    BY <1>1, <1>2 DEF Manifests
  <2>2. o \in Manifests /\ o.gen = object[p].gen /\ o.event = object[p].event + 1
    BY <2>1, Counters
  <2>3. QED
    BY <2>1, <2>2 DEF Manifests
<1>4. o = NextEvent(object[p])
  OBVIOUS
<1> HIDE DEF o
<1>5. e \in EventRecords /\ e.id = o.event /\ e.after = 0
  BY <1>3 DEF Event, EventRecords, Ops
<1> HIDE DEF e
<1>6. /\ guests' \in Seq(Guests) /\ Latest' = Latest
      /\ \A g \in 1..Latest : guests'[g].by = guests[g].by /\ guests'[g].state = guests[g].state
  <2>1. CASE guests' = guests
    BY <1>2, <2>1 DEF Latest
  <2>2. CASE Reaches(p) /\ guests' = Input(o.gen)
    <3>1. o.gen \in 1..Latest
      BY <1>3, <2>2 DEF Reaches, Alive
    <3>2. QED
      BY <1>1, <2>2, <3>1, InputReaches
  <2>3. QED
    BY <1>1, <2>1, <2>2
<1>7. /\ CallsTyped' /\ call'[c].at = "idle"
      /\ \A d \in Clients : d # c => call'[d] = call[d]
  BY <1>1, Returned
<1>8. \A d \in Clients : ProcessOf[d] = p => call'[d].at \notin {"before", "operate"}
  BY <1>1, <1>7, CallerAlone DEF Inside
<1>9. apart => phase[p] = "open"
  BY <1>1 DEF SessionInv, Together, OneAtATime, Inside
<1>10. apart => e.after <= o.frame
  BY <1>3, <1>5
<1>11. QED
  BY <1>1, <1>2, <1>3, <1>4, <1>5, <1>6, <1>7, <1>8, <1>9, <1>10, RecordKeeps

LEMMA ReadSerialKeeps ==
  ASSUME SessionInv, NEW c \in Clients, ReadSerial(c)
  PROVE  SessionInv'
<1> DEFINE p == ProcessOf[c]
           o == NextEvent(object[p])
           e == Event(o.event, "serial", TRUE, 0, 0)
<1>1. /\ phase[p] = "open" /\ call[c] = NoCall /\ p \in Processes /\ Typed
      /\ calls < MaxCalls /\ calls' = calls + 1
      /\ events' = Append(events, e)
      /\ object' = [object EXCEPT ![p] = o] /\ manifest' = o
      /\ dir' = (IF dir = "none" THEN "bare" ELSE dir)
      /\ UNCHANGED <<frames, guests, sockets, phase, lock, call, seen, run, apart>>
  BY StudioAssumption DEF ReadSerial, Begins, Write, machine, SessionInv
<1>2. /\ object \in [Processes -> Manifests] /\ calls \in 0..MaxCalls /\ guests \in Seq(Guests)
      /\ calls' \in 0..MaxCalls
  BY <1>1, StudioAssumption DEF Typed, InsideTyped, BesideTyped, DiskTyped
<1>3. /\ o \in Manifests /\ o.event \in Nat \ {0} /\ o.frame \in Nat
  <2>1. object[p] \in Manifests /\ object[p].event \in Nat
    BY <1>1, <1>2 DEF Manifests
  <2>2. o \in Manifests /\ o.event = object[p].event + 1
    BY <2>1, Counters
  <2>3. QED
    BY <2>1, <2>2 DEF Manifests
<1>4. o = NextEvent(object[p])
  OBVIOUS
<1> HIDE DEF o
<1>5. e \in EventRecords /\ e.id = o.event /\ e.after = 0
  BY <1>3 DEF Event, EventRecords, Ops
<1> HIDE DEF e
<1>6. CallsTyped' /\ call'[c].at = "idle" /\ call[c].at = "idle"
  BY <1>1, CallsSame DEF NoCall
<1>7. apart => e.after <= o.frame
  BY <1>3, <1>5
<1>8. Latest' = Latest
  BY <1>1 DEF Latest
<1>9. QED
  BY <1>1, <1>2, <1>3, <1>4, <1>5, <1>6, <1>7, <1>8, RecordKeeps

LEMMA CropKeeps ==
  ASSUME SessionInv, NEW c \in Clients, Crop(c)
  PROVE  SessionInv'
<1> DEFINE p == ProcessOf[c]
           o == NextEvent(object[p])
<1>1. PICK f \in frames : events' = Append(events, Event(o.event, "crop", TRUE, f.id, f.shot))
  BY DEF Crop
<1> DEFINE e == Event(o.event, "crop", TRUE, f.id, f.shot)
<1>2. /\ phase[p] = "open" /\ call[c] = NoCall /\ p \in Processes /\ Typed
      /\ calls < MaxCalls /\ calls' = calls + 1
      /\ events' = Append(events, e)
      /\ object' = [object EXCEPT ![p] = o] /\ manifest' = o
      /\ dir' = (IF dir = "none" THEN "bare" ELSE dir)
      /\ UNCHANGED <<frames, guests, sockets, phase, lock, call, seen, run, apart>>
  BY <1>1, StudioAssumption DEF Crop, Begins, Write, machine, SessionInv
<1>3. /\ object \in [Processes -> Manifests] /\ calls \in 0..MaxCalls /\ guests \in Seq(Guests)
      /\ calls' \in 0..MaxCalls /\ f \in FrameRecords
  BY <1>2, StudioAssumption DEF Typed, InsideTyped, BesideTyped, DiskTyped
<1>4. /\ o \in Manifests /\ o.event \in Nat \ {0} /\ o.frame = object[p].frame
  <2>1. object[p] \in Manifests /\ object[p].event \in Nat
    BY <1>2, <1>3 DEF Manifests
  <2>2. o \in Manifests /\ o.event = object[p].event + 1 /\ o.frame = object[p].frame
    BY <2>1, Counters
  <2>3. QED
    BY <2>1, <2>2
<1>5. o = NextEvent(object[p])
  OBVIOUS
<1> HIDE DEF o
<1>6. e \in EventRecords /\ e.id = o.event /\ e.op = "crop" /\ e.after = f.id
  <2>1. f.id \in Nat /\ f.shot \in Nat
    BY <1>3 DEF FrameRecords
  <2>2. QED
    BY <1>4, <2>1 DEF Event, EventRecords, Ops
<1> HIDE DEF e
<1>7. CallsTyped' /\ call'[c].at = "idle" /\ call[c].at = "idle"
  BY <1>2, CallsSame DEF NoCall
<1>8. apart => e.after <= o.frame
  BY <1>1, <1>2, <1>4, <1>6 DEF SessionInv, Together, LogFits, Covers
<1>9. Latest' = Latest
  BY <1>2 DEF Latest
<1>10. QED
  BY <1>2, <1>3, <1>4, <1>5, <1>6, <1>7, <1>8, <1>9, RecordKeeps

\* A call ends and leaves nothing behind: it fails early, or was a reset.
LEMMA ReturnKeeps ==
  ASSUME SessionInv, NEW c \in Clients, CallFails(c) \/ ResetEnds(c)
  PROVE  SessionInv'
<1>1. /\ call[c].at \in {"before", "capture", "restart"} /\ Return(c) /\ Typed
      /\ call[c].at = "restart" => phase[ProcessOf[c]] = "open"
      /\ ProcessOf[c] \in Processes
      /\ UNCHANGED <<dir, manifest, frames, events, guests, sockets, phase, object, seen, run, apart, calls>>
  BY StudioAssumption DEF CallFails, ResetEnds, session, machine, SessionInv
<1>2. /\ CallsTyped' /\ call'[c].at = "idle"
      /\ \A d \in Clients : d # c => call'[d] = call[d]
  BY <1>1, Returned
<1>3. Typed'
  <2>1. DiskTyped'
    BY <1>1 DEF Typed, DiskTyped, Latest
  <2>2. InsideTyped'
    BY <1>1, <1>2 DEF Typed, InsideTyped, CallsTyped, Latest
  <2>3. BesideTyped'
    BY <1>1 DEF Typed, BesideTyped
  <2>4. OwnKnown'
    BY <1>1, OwnKept DEF Latest
  <2>5. QED
    BY <2>1, <2>2, <2>3, <2>4 DEF Typed
<1>4. ASSUME apart'
      PROVE  Together'
  <2>1. Together /\ phase[ProcessOf[c]] = "open"
    BY <1>1, <1>4 DEF SessionInv, Together, OneAtATime, Inside
  <2>2. \A d \in Clients : /\ call'[d].at \in Inside => call[d].at \in Inside
                           /\ call'[d].at \in {"reset", "restart"} =>
                                call[d].at \in {"reset", "restart"}
    BY <1>2 DEF Inside
  <2>3. OneAtATime'
    BY <1>1, <2>1, <2>2, OneStays DEF Together
  <2>4. Blank'
    BY <1>1, <2>1 DEF Together, Blank, Latest
  <2>5. LogFits'
    BY <1>1, <2>1, LogKept DEF Together
  <2>6. OneRuns'
    BY <1>1, <2>1, RunsKept DEF Together, Latest
  <2>7. ResetsStopped'
    BY <1>1, <1>2, <2>1, StopsKept DEF Together
  <2>8. ImagesFit'
    BY <1>1, <1>2, <2>1, ImagesKept DEF Together, Latest
  <2>9. QED
    BY <2>1, <2>3, <2>4, <2>5, <2>6, <2>7, <2>8 DEF Together
<1>5. QED
  BY <1>3, <1>4 DEF SessionInv

LEMMA CaptureKeeps ==
  ASSUME SessionInv, NEW c \in Clients, Capture(c)
  PROVE  SessionInv'
<1> DEFINE p == ProcessOf[c]
           o == NextEvent(NextFrame(object[p]))
           shot == guests[o.gen].inputs
           e == Event(o.event, call[c].op, TRUE, o.frame, shot)
           image == [rev |-> o.event, shot |-> shot, gen |-> o.gen]
<1>1. /\ call[c].at \in {"after", "capture"} /\ Reaches(p) /\ dir = "full"
      /\ p \in Processes /\ Typed /\ Return(c)
      /\ frames' = Filed(o.frame, call[c].op, shot) /\ events' = Append(events, e)
      /\ object' = [object EXCEPT ![p] = o] /\ manifest' = o
      /\ dir' = (IF dir = "none" THEN "bare" ELSE dir)
      /\ seen' = [seen EXCEPT ![c] = image]
      /\ UNCHANGED <<guests, sockets, phase, run, apart, calls>>
  BY StudioAssumption DEF Capture, Shown, Write, machine, SessionInv
<1>2. /\ object \in [Processes -> Manifests] /\ seen \in [Clients -> Images]
      /\ call \in [Clients -> [op : Ops, at : Places, rev : Nat, before : Nat]]
      /\ calls \in 0..MaxCalls /\ guests \in Seq(Guests)
  BY <1>1 DEF Typed, InsideTyped, DiskTyped, BesideTyped, Images
<1>3. /\ object[p] \in Manifests /\ object[p].event \in Nat /\ object[p].frame \in Nat
      /\ o \in Manifests /\ o.gen = object[p].gen /\ o.status = object[p].status
      /\ o.event = object[p].event + 1 /\ o.frame = object[p].frame + 1
  <2>1. object[p] \in Manifests /\ object[p].event \in Nat /\ object[p].frame \in Nat
    BY <1>1, <1>2 DEF Manifests
  <2>2. /\ NextFrame(object[p]) \in Manifests /\ NextFrame(object[p]).gen = object[p].gen
        /\ NextFrame(object[p]).status = object[p].status
        /\ NextFrame(object[p]).event = object[p].event
        /\ NextFrame(object[p]).frame = object[p].frame + 1
    BY <2>1, Counters
  <2>3. QED
    BY <2>1, <2>2, Counters
<1> HIDE DEF o
<1>4. shot \in Nat /\ o.gen \in 1..Latest /\ o.gen \in Nat
  <2>1. o.gen \in 1..Latest
    BY <1>1, <1>3 DEF Reaches, Alive
  <2>2. QED
    BY <1>1, <1>3, <2>1, LatestNatural DEF Guests, Manifests
<1>5. guests[o.gen].inputs = shot
  OBVIOUS
<1> HIDE DEF shot
<1>6. e \in EventRecords /\ e.id = o.event /\ e.after = o.frame /\ e.shot = shot
  <2>1. o.event \in Nat \ {0} /\ o.frame \in Nat /\ call[c].op \in Ops
    BY <1>2, <1>3, SMTT(30)
  <2>2. QED
    BY <1>4, <2>1 DEF Event, EventRecords
<1> HIDE DEF e
<1>7. image \in Images /\ image.rev = o.event /\ image.shot = shot /\ image.gen = o.gen
  BY <1>3, <1>4 DEF Images
<1> HIDE DEF image
<1>8. /\ CallsTyped' /\ call'[c].at = "idle"
      /\ \A d \in Clients : d # c => call'[d] = call[d]
  BY <1>1, Returned
<1>9. \A d \in Clients : ProcessOf[d] = p => call'[d].at \notin {"before", "operate"}
  BY <1>1, <1>8, CallerAlone DEF Inside
<1>10. seen'[c] = image /\ \A d \in Clients : d # c => seen'[d] = seen[d]
  BY <1>1, <1>2
<1>11. Typed'
  <2>1. frames' \subseteq FrameRecords
    <3>1. o.frame \in Nat \ {0} /\ call[c].op \in Ops
      BY <1>2, <1>3
    <3>2. QED
      BY <1>1, <1>4, <3>1, FramesTyped
  <2>2. events' \in Seq(EventRecords)
    BY <1>1, <1>6, LogTyped
  <2>3. seen' \in [Clients -> Images]
    BY <1>1, <1>2, <1>7
  <2>4. QED
    BY <1>1, <1>2, <1>3, <1>8, <2>1, <2>2, <2>3, WriterTyped DEF Latest
<1>12. ASSUME apart'
       PROVE  Together'
  <2>1. Together /\ phase[p] = "open"
    BY <1>1, <1>12 DEF SessionInv, Together, OneAtATime, Inside
  <2>2. \A q \in Processes : phase[q] # "out" => q = p
    BY <1>1, <2>1 DEF Together, OneAtATime
  <2>3. OneAtATime'
    <3>1. \A d \in Clients :
            /\ call'[d].at \in Inside => ProcessOf[d] = p \/ call[d].at \in Inside
            /\ call'[d].at \in {"reset", "restart"} =>
                 call[d].at \in {"reset", "restart"} /\ seen'[d] = seen[d]
            /\ ProcessOf[d] # p => seen'[d] = seen[d]
      BY <1>8, <1>10
    <3>2. QED
      BY <1>1, <2>1, <3>1, OneStays DEF Together
  <2>4. Blank'
    <3>1. o # NoManifest
      BY <1>3, NotBlank
    <3>2. QED
      BY <1>1, <2>1, <3>1, WriterBlank DEF Together
  <2>5. LogFits'
    <3>1. Covers(object[p])
      BY <1>1, <2>1 DEF Together, LogFits
    <3>2. \A q \in Processes : phase'[q] \in {"connect", "open"} => object'[q] = o
      BY <1>1, <1>2, <2>2
    <3>3. \E label \in Ops : frames' = Filed(o.frame, label, e.shot)
      BY <1>1, <1>2, <1>6
    <3>4. QED
      BY <1>1, <1>3, <1>6, <2>1, <3>1, <3>2, <3>3, LogAppended DEF Together
  <2>6. OneRuns'
    <3>1. object'[p] = o /\ object[p].status = "active"
      BY <1>1, <1>2 DEF Reaches
    <3>2. QED
      BY <1>1, <1>3, <2>1, <3>1, WriterRuns DEF Together, Latest
  <2>7. ResetsStopped'
    BY <1>1, <1>2, <1>8, <2>1, WriterStops DEF Together
  <2>8. ImagesFit'
    <3>1. object'[p].event = object[p].event + 1 /\ object'[p].gen = o.gen /\ object'[p].event = o.event
      BY <1>1, <1>2, <1>3
    \* The client of the capture has the image of its event.
    <3>2. Shows(c)' /\ seen'[c].rev = object'[p].event
      BY <1>1, <1>4, <1>5, <1>7, <1>10, <3>1 DEF Shows, Latest
    \* The other clients of the process have older images.
    <3>3. ASSUME NEW d \in Clients, d # c, ProcessOf[d] = p
          PROVE  seen'[d].rev < object'[p].event
      <4>1. seen[d].rev <= object[p].event /\ seen[d].rev \in Nat
        BY <1>2, <2>1, <3>3 DEF Together, ImagesFit, Images
      <4>2. QED
        BY <1>3, <1>10, <3>1, <3>3, <4>1
    <3>4. ASSUME NEW d \in Clients, ProcessOf[d] # p
          PROVE  phase[ProcessOf[d]] # "open" /\ call'[d].at \notin {"before", "operate"}
      <4>1. ProcessOf[d] \in Processes
        BY StudioAssumption
      <4>2. phase[ProcessOf[d]] # "open"
        BY <2>2, <3>4, <4>1
      <4>3. QED
        BY <1>8, <2>1, <3>4, <4>2 DEF Together, OneAtATime, Inside
    <3>5. object'[p].event \in Nat /\ \A d \in Clients : seen'[d].rev \in Nat
      BY <1>1, <1>2, <1>3, <1>7, <1>10, <3>1 DEF Images
    <3>6. ASSUME NEW d \in Clients
          PROVE  /\ phase'[ProcessOf[d]] = "open" => seen'[d].rev <= object'[ProcessOf[d]].event
                 /\ (phase'[ProcessOf[d]] = "open" /\ seen'[d].rev = object'[ProcessOf[d]].event)
                    => Shows(d)'
                 /\ call'[d].at \notin {"before", "operate"}
      <4>1. CASE d = c
        BY <1>8, <3>2, <3>5, <4>1
      <4>2. CASE d # c /\ ProcessOf[d] = p
        BY <1>9, <3>3, <3>5, <4>2
      <4>3. CASE ProcessOf[d] # p
        BY <1>1, <3>4, <4>3
      <4>4. QED
        BY <4>1, <4>2, <4>3
    <3>7. QED
      BY <3>6 DEF ImagesFit
  <2>9. QED
    BY <2>3, <2>4, <2>5, <2>6, <2>7, <2>8 DEF Together
<1>13. QED
  BY <1>11, <1>12 DEF SessionInv

\* What Stop and ResetStops have in common.
LEMMA StopSessionKeeps ==
  ASSUME SessionInv, NEW c \in Clients, NEW p \in Processes, p = ProcessOf[c],
         phase[p] = "open", call[c] = NoCall, StopSession(p), CallsTyped',
         \A d \in Clients : d # c => call'[d] = call[d] /\ seen'[d] = seen[d],
         \/ call'[c] = call[c] /\ seen'[c] = seen[c]
         \/ MembersOf(p) = {c} /\ call'[c].at = "reset" /\ seen'[c] = NoImage,
         seen' \in [Clients -> Images], calls' \in 0..MaxCalls,
         UNCHANGED <<frames, events, sockets, phase, run, apart>>
  PROVE  SessionInv'
<1> DEFINE o == Stopped(object[p])
<1>1. /\ guests' = Terminated(object[p].gen) /\ Typed
      /\ object' = [object EXCEPT ![p] = o] /\ manifest' = o
      /\ dir' = (IF dir = "none" THEN "bare" ELSE dir)
      /\ object \in [Processes -> Manifests] /\ seen \in [Clients -> Images]
      /\ frames \subseteq FrameRecords /\ events \in Seq(EventRecords)
  BY DEF StopSession, Write, SessionInv, Typed, InsideTyped, DiskTyped, Images
<1>2. /\ object[p] \in Manifests /\ object[p].gen \in Nat /\ object[p].event \in Nat
      /\ o \in Manifests /\ o.gen = object[p].gen /\ o.status = "stopped"
      /\ o.event = object[p].event /\ o.frame = object[p].frame
  <2>1. object[p] \in Manifests
    BY <1>1
  <2>2. QED
    BY <2>1, Counters DEF Manifests
<1> HIDE DEF o
<1>3. Quiet /\ (o.gen \in 1..Latest => guests'[o.gen].state # "running")
  BY <1>1, <1>2, TerminatedQuiet
<1>4. Typed'
  BY <1>1, <1>2, <1>3, WriterTyped DEF Quiet
<1>5. call[c].at = "idle"
  BY DEF NoCall
<1>6. ASSUME apart'
      PROVE  Together'
  <2>1. Together
    BY <1>6 DEF SessionInv
  <2>2. \A q \in Processes : phase[q] # "out" => q = p
    BY <2>1 DEF Together, OneAtATime
  <2>3. OneAtATime'
    <3>1. \A d \in Clients :
            /\ call'[d].at \in Inside => ProcessOf[d] = p \/ call[d].at \in Inside
            /\ call'[d].at \in {"reset", "restart"} =>
                 \/ call[d].at \in {"reset", "restart"} /\ seen'[d] = seen[d]
                 \/ MembersOf(ProcessOf[d]) = {d} /\ seen'[d] = NoImage
            /\ ProcessOf[d] # p => seen'[d] = seen[d]
      BY <1>5
    <3>2. QED
      BY <2>1, <3>1, OneStays DEF Together
  <2>4. Blank'
    <3>1. o # NoManifest
      BY <1>2, NotBlank
    <3>2. QED
      BY <1>1, <2>1, <3>1, WriterBlank DEF Together
  <2>5. LogFits'
    BY <1>1, <1>2, <2>1, LogKept DEF Together
  <2>6. OneRuns'
    <3>1. object'[p] = o
      BY <1>1
    <3>2. QED
      BY <1>1, <1>2, <1>3, <2>1, <3>1, WriterRuns DEF Together, Quiet
  <2>7. ResetsStopped'
    <3>1. CASE call'[c].at # "reset"
      BY <1>1, <1>5, <2>1, <3>1, WriterStops DEF Together
    <3>2. CASE call'[c].at = "reset"
      <4>1. ASSUME NEW d \in Clients, d # c, call[d].at = "reset"
            PROVE  /\ phase[ProcessOf[d]] = "open"
                   /\ object'[ProcessOf[d]].status = "stopped"
        <5>1. phase[ProcessOf[d]] = "open" /\ object[ProcessOf[d]].status = "stopped"
              /\ ProcessOf[d] \in Processes
          BY <2>1, <4>1, StudioAssumption DEF Together, ResetsStopped
        <5>2. QED
          BY <1>1, <1>2, <5>1
      <4>2. object'[p].status = "stopped"
        BY <1>1, <1>2
      <4>3. QED
        BY <4>1, <4>2 DEF ResetsStopped
    <3>3. QED
      BY <3>1, <3>2
  <2>8. ImagesFit'
    <3>1. \A q \in Processes : object'[q].event = object[q].event /\ object'[q].gen = object[q].gen
      BY <1>1, <1>2
    <3>2. \A g \in 1..Latest : guests'[g].inputs = guests[g].inputs /\ Latest' = Latest
      BY <1>3 DEF Quiet
    <3>3. CASE call'[c] = call[c] /\ seen'[c] = seen[c]
      <4>1. seen' = seen
        BY <1>1, <3>3
      <4>2. \A d \in Clients : call'[d] = call[d]
        BY <3>3
      <4>3. Latest' = Latest
        BY <1>3 DEF Quiet
      <4>4. QED
        BY <1>1, <2>1, <3>1, <3>2, <4>1, <4>2, <4>3, ImagesKept DEF Together
    <3>4. CASE MembersOf(p) = {c} /\ call'[c].at = "reset" /\ seen'[c] = NoImage
      <4>1. ASSUME NEW d \in Clients, d # c
            PROVE  /\ phase[ProcessOf[d]] # "open"
                   /\ call'[d].at \notin {"before", "operate"}
        <5>1. ProcessOf[d] # p /\ ProcessOf[d] \in Processes
          BY <3>4, <4>1, StudioAssumption DEF MembersOf
        <5>2. phase[ProcessOf[d]] # "open"
          BY <2>2, <5>1
        <5>3. QED
          BY <2>1, <4>1, <5>2 DEF Together, OneAtATime, Inside
      <4>2. seen'[c].rev = 0 /\ object'[p].event \in Nat
        BY <1>1, <1>2, <3>4 DEF NoImage
      <4>3. QED
        BY <3>4, <4>1, <4>2 DEF ImagesFit
    <3>5. QED
      BY <3>3, <3>4
  <2>9. QED
    BY <2>3, <2>4, <2>5, <2>6, <2>7, <2>8 DEF Together
<1>7. QED
  BY <1>4, <1>6 DEF SessionInv

LEMMA StopKeeps ==
  ASSUME SessionInv, NEW c \in Clients, Stop(c)
  PROVE  SessionInv'
<1>1. /\ phase[ProcessOf[c]] = "open" /\ call[c] = NoCall /\ StopSession(ProcessOf[c])
      /\ ProcessOf[c] \in Processes /\ Typed /\ calls < MaxCalls /\ calls' = calls + 1
      /\ UNCHANGED <<frames, events, sockets, phase, lock, call, seen, run, apart>>
  BY StudioAssumption DEF Stop, Begins, SessionInv
<1>2. CallsTyped' /\ seen' \in [Clients -> Images] /\ calls' \in 0..MaxCalls
  BY <1>1, CallsSame, StudioAssumption DEF Typed, InsideTyped, BesideTyped, Images
<1>3. QED
  BY <1>1, <1>2, StopSessionKeeps

LEMMA ResetStopsKeeps ==
  ASSUME SessionInv, NEW c \in Clients, ResetStops(c)
  PROVE  SessionInv'
<1> DEFINE r == [NoCall EXCEPT !.op = "reset", !.at = "reset"]
<1>1. /\ phase[ProcessOf[c]] = "open" /\ MembersOf(ProcessOf[c]) = {c} /\ call[c] = NoCall
      /\ StopSession(ProcessOf[c]) /\ calls < MaxCalls /\ calls' = calls + 1
      /\ call' = [call EXCEPT ![c] = r] /\ seen' = [seen EXCEPT ![c] = NoImage]
      /\ ProcessOf[c] \in Processes /\ Typed
      /\ UNCHANGED <<frames, events, sockets, phase, lock, run, apart>>
  BY StudioAssumption DEF ResetStops, Begins, SessionInv
<1>2. /\ seen \in [Clients -> Images] /\ lock \in [Processes -> Clients \cup {Nobody}]
      /\ calls' \in 0..MaxCalls
  BY <1>1, StudioAssumption DEF Typed, InsideTyped, BesideTyped, Images
<1>3. r \in [op : Ops, at : Places, rev : Nat, before : Nat] /\ r.at = "reset"
  BY DEF NoCall, Ops, Places
<1> HIDE DEF r
<1>4. CallsTyped' /\ call'[c] = r /\ \A d \in Clients : d # c => call'[d] = call[d]
  BY <1>1, <1>2, <1>3, Continued DEF Inside
<1>5. /\ seen' \in [Clients -> Images] /\ seen'[c] = NoImage
      /\ \A d \in Clients : d # c => seen'[d] = seen[d]
  BY <1>1, <1>2 DEF NoImage, Images
<1>6. QED
  BY <1>1, <1>2, <1>3, <1>4, <1>5, StopSessionKeeps

LEMMA ResetStartsKeeps ==
  ASSUME SessionInv, NEW c \in Clients, ResetStarts(c)
  PROVE  SessionInv'
<1> DEFINE p == ProcessOf[c]
           r == [call[c] EXCEPT !.at = "restart"]
<1>1. /\ call[c].at = "reset" /\ phase[p] = "open" /\ p \in Processes /\ Typed
      /\ manifest' = NoManifest /\ frames' = {} /\ events' = <<>>
      /\ phase' = [phase EXCEPT ![p] = "restore"] /\ dir' = "full"
      /\ apart' = (apart /\ ~Meets(p) /\ run.at = "idle")
      /\ call' = [call EXCEPT ![c] = r]
      /\ UNCHANGED <<guests, sockets, object, lock, seen, run, calls>>
  BY StudioAssumption DEF ResetStarts, Restoring, machine, SessionInv
<1>2. phase \in [Processes -> {"out", "connect", "restore", "first", "open"}]
      /\ object \in [Processes -> Manifests]
      /\ call \in [Clients -> [op : Ops, at : Places, rev : Nat, before : Nat]]
      /\ lock \in [Processes -> Clients \cup {Nobody}]
  BY <1>1 DEF Typed, InsideTyped
<1>3. r \in [op : Ops, at : Places, rev : Nat, before : Nat] /\ r.at = "restart"
  BY <1>2 DEF Places
<1> HIDE DEF r
<1>4. CallsTyped' /\ call'[c] = r /\ \A d \in Clients : d # c => call'[d] = call[d]
  BY <1>1, <1>2, <1>3, Continued DEF Inside
<1>5. NoManifest \in Manifests /\ NoManifest.gen = 0 /\ Latest \in Nat /\ Latest' = Latest
  BY <1>1, LatestNatural, FreshManifest DEF NoManifest, Latest
<1>6. Typed'
  <2>1. DiskTyped'
    <3>1. events' \in Seq(EventRecords) /\ frames' \subseteq FrameRecords
      BY <1>1
    <3>2. QED
      BY <1>1, <1>5, <3>1 DEF Typed, DiskTyped
  <2>2. InsideTyped'
    <3>1. phase' \in [Processes -> {"out", "connect", "restore", "first", "open"}]
      BY <1>1, <1>2
    <3>2. QED
      BY <1>1, <1>4, <1>5, <3>1 DEF Typed, InsideTyped, CallsTyped
  <2>3. BesideTyped'
    BY <1>1 DEF Typed, BesideTyped
  <2>4. OwnKnown'
    BY <1>1, <1>2, <1>5, OwnKept
  <2>5. QED
    BY <2>1, <2>2, <2>3, <2>4 DEF Typed
<1>7. ASSUME apart'
      PROVE  Together'
  <2>1. Together /\ run.at = "idle" /\ \A q \in Processes \ {p} : phase[q] = "out"
    BY <1>1, <1>7 DEF SessionInv, Meets
  <2>2. MembersOf(p) = {c} /\ seen[c] = NoImage
    BY <1>1, <2>1 DEF Together, OneAtATime
  <2>3. \A d \in Clients : seen[d] = NoImage /\ call'[d].at \notin Inside
    <3>1. ASSUME NEW d \in Clients, d # c
          PROVE  phase[ProcessOf[d]] # "open"
      BY <2>1, <2>2, <3>1, StudioAssumption DEF MembersOf
    <3>2. QED
      BY <1>3, <1>4, <2>1, <2>2, <3>1 DEF Together, OneAtATime, Inside
  <2>4. OneAtATime'
    <3>1. \A d \in Clients : call'[d].at \in {"reset", "restart"} =>
                               MembersOf(ProcessOf[d]) = {d}
      BY <1>1, <1>4, <2>1 DEF Together, OneAtATime
    <3>2. \A d \in Clients : MembersOf(ProcessOf[d])' = MembersOf(ProcessOf[d])
      BY DEF MembersOf
    <3>3. \A q, s \in Processes : phase'[q] # "out" /\ phase'[s] # "out" => q = s
      BY <1>1, <1>2, <2>1
    <3>4. QED
      BY <1>1, <2>1, <2>3, <3>1, <3>2, <3>3 DEF OneAtATime
  <2>5. Blank'
    BY <1>1, <1>2, <2>1 DEF Blank
  <2>6. LogFits'
    BY <1>1, LogEmpty
  <2>7. OneRuns'
    <3>1. \A g \in 1..Latest : guests[g].state # "running"
      BY <1>1, <2>1 DEF Together, OneRuns, ResetsStopped, Runs
    <3>2. QED
      BY <1>1, <1>5, <3>1, NoneRun DEF NoManifest
  <2>8. ResetsStopped'
    <3>1. \A d \in Clients : call'[d].at # "reset"
      <4>1. ASSUME NEW d \in Clients, d # c
            PROVE  call[d].at # "reset"
        BY <2>1, <2>2, <4>1, StudioAssumption DEF Together, ResetsStopped, MembersOf
      <4>2. QED
        BY <1>3, <1>4, <4>1
    <3>2. QED
      BY <3>1 DEF ResetsStopped
  <2>9. ImagesFit'
    BY <1>1, <1>2, <2>3, NoImages
  <2>10. QED
    BY <2>4, <2>5, <2>6, <2>7, <2>8, <2>9 DEF Together
<1>8. QED
  BY <1>6, <1>7 DEF SessionInv

------------------------------------------------------------------------------
(* `catsnail run`, and guests that end *)

LEMMA RunKeeps ==
  ASSUME SessionInv, RunReads \/ RunDiscards \/ RunUnlinks
  PROVE  SessionInv'
<1>1. /\ Typed /\ UNCHANGED <<guests, phase, object, lock, call, seen>>
      /\ run' \in [at : {"idle", "discard", "unlink"}, kept : SUBSET Kinds]
      /\ apart' \in BOOLEAN /\ (apart' => apart) /\ calls' \in 0..MaxCalls
      /\ sockets' \subseteq sockets
      /\ \/ UNCHANGED <<dir, manifest, frames, events>>
         \/ /\ RunDiscards /\ Discards
            /\ dir' = "none" /\ manifest' = NoManifest /\ frames' = {} /\ events' = <<>>
  <2>1. Typed
    BY DEF SessionInv
  <2>2. /\ run \in [at : {"idle", "discard", "unlink"}, kept : SUBSET Kinds]
        /\ apart \in BOOLEAN /\ calls \in 0..MaxCalls
    BY <2>1 DEF Typed, BesideTyped
  <2>3. CASE RunReads
    <3>1. run'.kept \subseteq Kinds /\ run'.at = "discard" /\ run' = [at |-> run'.at, kept |-> run'.kept]
      BY <2>3 DEF RunReads, Listed, Kinds
    <3>2. run' \in [at : {"idle", "discard", "unlink"}, kept : SUBSET Kinds]
      BY <3>1
    <3>3. QED
      BY <2>1, <2>2, <2>3, <3>2, StudioAssumption DEF RunReads, Begins, session, machine, inside
  <2>4. CASE RunDiscards
    BY <2>1, <2>2, <2>4 DEF RunDiscards, session, machine, inside
  <2>5. CASE RunUnlinks
    BY <2>1, <2>2, <2>5 DEF RunUnlinks, session, inside
  <2>6. QED
    BY <2>3, <2>4, <2>5
<1>2. Latest' = Latest /\ Latest \in Nat
  BY <1>1, LatestNatural DEF Latest
<1>3. Typed'
  <2>1. DiskTyped'
    <3>1. CASE UNCHANGED <<dir, manifest, frames, events>>
      BY <1>1, <1>2, <3>1 DEF Typed, DiskTyped
    <3>2. CASE dir' = "none" /\ manifest' = NoManifest /\ frames' = {} /\ events' = <<>>
      <4>1. manifest' \in Manifests /\ manifest'.gen <= Latest'
        BY <1>2, <3>2, FreshManifest DEF NoManifest
      <4>2. events' \in Seq(EventRecords) /\ frames' \subseteq FrameRecords
        BY <3>2
      <4>3. QED
        BY <1>1, <3>2, <4>1, <4>2 DEF Typed, DiskTyped
    <3>3. QED
      BY <1>1, <3>1, <3>2
  <2>2. InsideTyped'
    BY <1>1, <1>2 DEF Typed, InsideTyped
  <2>3. BesideTyped'
    BY <1>1 DEF BesideTyped
  <2>4. OwnKnown'
    BY <1>1, <1>2, OwnKept
  <2>5. QED
    BY <2>1, <2>2, <2>3, <2>4 DEF Typed
<1>4. ASSUME apart'
      PROVE  Together'
  <2>1. Together
    BY <1>1, <1>4 DEF SessionInv
  <2>2. OneAtATime'
    <3>1. run'.at # "idle" => \A p \in Processes : phase[p] # "restore"
      BY <1>4, <2>1 DEF Together, OneAtATime, RunReads, RunDiscards, RunUnlinks
    <3>2. \A d \in Clients : MembersOf(ProcessOf[d])' = MembersOf(ProcessOf[d])
      BY DEF MembersOf
    <3>3. QED
      BY <1>1, <2>1, <3>1, <3>2 DEF Together, OneAtATime
  <2>3. Blank'
    BY <1>1, <1>2, <2>1 DEF Together, Blank
  <2>4. LogFits'
    BY <1>1, <2>1, LogKept, LogEmpty DEF Together
  <2>5. OneRuns'
    \* A guest that runs is listed: its session is not discarded.
    <3>1. CASE RunDiscards /\ Discards /\ manifest' = NoManifest
      <4>1. \A g \in 1..Latest : guests[g].state # "running"
        BY <2>1, <3>1 DEF Together, OneRuns, Runs, Discards, Alive, NoManifest
      <4>2. QED
        BY <1>1, <1>2, <3>1, <4>1, NoneRun DEF NoManifest
    <3>2. CASE UNCHANGED <<dir, manifest, frames, events>>
      <4>1. ASSUME NEW g \in 1..Latest, guests[g].state = "running"
            PROVE  "vnc" \in sockets' /\ (run'.at # "idle" => "vnc" \in run'.kept)
        <5>1. /\ manifest.status = "active" /\ Alive(manifest.gen) /\ "vnc" \in sockets
              /\ run.at # "idle" => "vnc" \in run.kept
          BY <2>1, <4>1 DEF Together, OneRuns, Runs, Alive
        <5>2. QED
          BY <1>1, <5>1 DEF RunReads, RunDiscards, RunUnlinks, Listed, machine
      <4>2. QED
        BY <1>1, <1>2, <2>1, <3>2, <4>1 DEF Together, OneRuns, Runs
    <3>3. QED
      BY <1>1, <3>1, <3>2
  <2>6. ResetsStopped'
    BY <1>1, <2>1, StopsKept DEF Together
  <2>7. ImagesFit'
    BY <1>1, <1>2, <2>1, ImagesKept DEF Together
  <2>8. QED
    BY <2>2, <2>3, <2>4, <2>5, <2>6, <2>7 DEF Together
<1>5. QED
  BY <1>3, <1>4 DEF SessionInv

LEMMA GuestEndsKeeps ==
  ASSUME SessionInv, NEW g \in 1..Latest, GuestEnds(g)
  PROVE  SessionInv'
<1>1. /\ Typed /\ guests' = [guests EXCEPT ![g].state = "dead"]
      /\ sockets' = sockets \/ (g = Latest /\ sockets' = {})
      /\ UNCHANGED <<dir, manifest, frames, events, phase, object, lock, call, seen, run, apart, calls>>
  BY DEF GuestEnds, session, inside, SessionInv
<1>2. Quiet /\ guests'[g].state # "running"
  BY <1>1, StateQuiet
<1>3. Typed'
  <2>1. DiskTyped'
    BY <1>1, <1>2 DEF Typed, DiskTyped, Quiet
  <2>2. InsideTyped'
    BY <1>1, <1>2 DEF Typed, InsideTyped, Quiet
  <2>3. BesideTyped'
    BY <1>1 DEF Typed, BesideTyped
  <2>4. OwnKnown'
    BY <1>1, <1>2, OwnKept DEF Quiet
  <2>5. QED
    BY <2>1, <2>2, <2>3, <2>4 DEF Typed
<1>4. ASSUME apart'
      PROVE  Together'
  <2>1. Together
    BY <1>1, <1>4 DEF SessionInv
  <2>2. OneAtATime'
    <3>1. \A d \in Clients : MembersOf(ProcessOf[d])' = MembersOf(ProcessOf[d])
      BY DEF MembersOf
    <3>2. QED
      BY <1>1, <2>1, <3>1 DEF Together, OneAtATime
  <2>3. Blank'
    <3>1. Latest' = Latest /\ Latest \in Nat /\ \A h \in 1..Latest : guests'[h].by = guests[h].by
      BY <1>1, <1>2, LatestNatural DEF Quiet
    <3>2. Latest > 0 => Latest \in 1..Latest
      BY <3>1
    <3>3. QED
      BY <1>1, <2>1, <3>1, <3>2 DEF Together, Blank
  <2>4. LogFits'
    BY <1>1, <2>1, LogKept DEF Together
  <2>5. OneRuns'
    <3>1. ASSUME NEW h \in 1..Latest, guests'[h].state = "running"
          PROVE  guests[h].state = "running" /\ sockets' = sockets
      <4>1. guests[h].state = "running" /\ h # g
        BY <1>2, <3>1 DEF Quiet
      <4>2. h = Latest
        BY <2>1, <4>1 DEF Together, OneRuns, Runs
      <4>3. QED
        BY <1>1, <4>1, <4>2
    <3>2. Latest' = Latest
      BY <1>2 DEF Quiet
    <3>3. QED
      BY <1>1, <2>1, <3>1, <3>2 DEF Together, OneRuns, Runs
  <2>6. ResetsStopped'
    BY <1>1, <2>1, StopsKept DEF Together
  <2>7. ImagesFit'
    BY <1>1, <1>2, <2>1, ImagesKept DEF Together, Quiet
  <2>8. QED
    BY <2>2, <2>3, <2>4, <2>5, <2>6, <2>7 DEF Together
<1>5. QED
  BY <1>3, <1>4 DEF SessionInv

------------------------------------------------------------------------------
(* The theorems *)

LEMMA InitSession ==
  ASSUME Init
  PROVE  SessionInv
<1>1. NoManifest \in Manifests /\ NoManifest.gen = 0 /\ NoManifest.status = "none" /\ NoObject = NoManifest
  BY DEF NoManifest, Manifests, NoObject
<1>2. guests = <<>> /\ Latest = 0 /\ \A g \in 1..Latest : FALSE
  BY DEF Init, Latest
<1>3. Typed
  <2>1. DiskTyped
    BY <1>1, <1>2 DEF Init, DiskTyped
  <2>2. InsideTyped
    <3>1. NoCall \in [op : Ops, at : Places, rev : Nat, before : Nat] /\ NoCall.at = "idle"
      BY DEF NoCall, Ops, Places
    <3>2. NoImage \in [rev : Nat, shot : Nat, gen : Nat]
      BY DEF NoImage
    <3>3. QED
      BY <1>1, <1>2, <3>1, <3>2 DEF Init, InsideTyped, Inside
  <2>3. BesideTyped
    BY StudioAssumption DEF Init, BesideTyped
  <2>4. OwnKnown
    BY DEF Init, OwnKnown
  <2>5. QED
    BY <2>1, <2>2, <2>3, <2>4 DEF Typed
<1>4. \A c \in Clients : ProcessOf[c] \in Processes
  BY StudioAssumption
<1>5. OneAtATime
  BY <1>4 DEF Init, OneAtATime, NoCall, Inside
<1>6. Blank
  BY <1>2 DEF Init, Blank
<1>7. LogFits
  <2>1. Covers(manifest) /\ \A p \in Processes : Covers(object[p])
    BY DEF Init, Covers
  <2>2. QED
    BY <2>1 DEF Init, LogFits
<1>8. OneRuns
  BY <1>1, <1>2 DEF Init, OneRuns
<1>9. ResetsStopped
  BY DEF Init, ResetsStopped, NoCall
<1>10. ImagesFit
  BY <1>4 DEF Init, ImagesFit, NoCall
<1>11. QED
  BY <1>3, <1>5, <1>6, <1>7, <1>8, <1>9, <1>10 DEF SessionInv, Together

LEMMA IdleKeeps ==
  ASSUME SessionInv, UNCHANGED vars
  PROVE  SessionInv'
<1>1. UNCHANGED <<dir, manifest, frames, events, guests, sockets, phase, object, lock, call,
                  seen, run, apart, calls>>
  BY DEF vars, session, machine, inside
<1>2. Typed'
  <2>1. DiskTyped'
    BY <1>1 DEF SessionInv, Typed, DiskTyped, Latest
  <2>2. InsideTyped'
    BY <1>1 DEF SessionInv, Typed, InsideTyped, Latest
  <2>3. BesideTyped'
    BY <1>1 DEF SessionInv, Typed, BesideTyped
  <2>4. OwnKnown'
    BY <1>1 DEF SessionInv, Typed, OwnKnown, Latest
  <2>5. QED
    BY <2>1, <2>2, <2>3, <2>4 DEF Typed
<1>3. ASSUME apart'
      PROVE  Together'
  <2>1. Together /\ Typed
    BY <1>1, <1>3 DEF SessionInv
  <2>2. OneAtATime'
    BY <1>1, <2>1 DEF Together, OneAtATime, MembersOf
  <2>3. Blank'
    BY <1>1, <2>1 DEF Together, Blank, Latest
  <2>4. LogFits'
    BY <1>1, <2>1, LogKept DEF Together
  <2>5. OneRuns'
    BY <1>1, <2>1, RunsKept DEF Together, Latest
  <2>6. ResetsStopped'
    BY <1>1, <2>1, StopsKept DEF Together
  <2>7. ImagesFit'
    BY <1>1, <2>1, ImagesKept DEF Together, Latest
  <2>8. QED
    BY <2>2, <2>3, <2>4, <2>5, <2>6, <2>7 DEF Together
<1>4. QED
  BY <1>2, <1>3 DEF SessionInv

LEMMA ProcessStepKeeps ==
  ASSUME SessionInv, NEW p \in Processes, ProcessStep(p)
  PROVE  SessionInv'
BY MarkStaleKeeps, AttachReadsKeeps, AttachedKeeps, StartKeeps, RestoreFailsKeeps,
   RestoredKeeps, FirstSnapshotKeeps, FirstFailsKeeps, LeaveKeeps DEF ProcessStep

LEMMA ClientStepKeeps ==
  ASSUME SessionInv, NEW c \in Clients, ClientStep(c)
  PROVE  SessionInv'
<1>1. CASE BeginControl(c) \/ BeginSnapshot(c)
  <2>1. 0 \in Expected(c)
    BY DEF Expected
  <2>2. CASE BeginControl(c)
    BY <2>2, BeginKeeps DEF BeginControl
  <2>3. CASE BeginSnapshot(c)
    BY <2>1, <2>3, BeginKeeps DEF BeginSnapshot
  <2>4. QED
    BY <1>1, <2>2, <2>3
<1>2. CASE Before(c) \/ Operate(c) \/ ControlFails(c) \/ Capture(c)
  BY <1>2, BeforeKeeps, OperateKeeps, ControlFailsKeeps, CaptureKeeps
<1>3. CASE CallFails(c) \/ ReadSerial(c) \/ Crop(c) \/ Stop(c)
  BY <1>3, ReturnKeeps, ReadSerialKeeps, CropKeeps, StopKeeps
<1>4. CASE ResetStops(c) \/ ResetStarts(c) \/ ResetEnds(c)
  BY <1>4, ReturnKeeps, ResetStopsKeeps, ResetStartsKeeps
<1>5. QED
  BY <1>1, <1>2, <1>3, <1>4 DEF ClientStep

LEMMA NextKeeps ==
  ASSUME SessionInv, [Next]_vars
  PROVE  SessionInv'
<1>1. CASE \E p \in Processes : ProcessStep(p)
  BY <1>1, ProcessStepKeeps
<1>2. CASE \E c \in Clients : ClientStep(c)
  BY <1>2, ClientStepKeeps
<1>3. CASE RunReads \/ RunDiscards \/ RunUnlinks
  BY <1>3, RunKeeps
<1>4. CASE \E g \in 1..Latest : GuestEnds(g)
  BY <1>4, GuestEndsKeeps
<1>5. CASE UNCHANGED vars
  BY <1>5, IdleKeeps
<1>6. QED
  BY <1>1, <1>2, <1>3, <1>4, <1>5 DEF Next, Over

THEOREM SessionKept == Spec => []SessionInv
<1>1. Init => SessionInv
  BY InitSession
<1>2. SessionInv /\ [Next]_vars => SessionInv'
  BY NextKeeps
<1>3. QED
  BY <1>1, <1>2, PTL DEF Spec

\* As long as processes keep apart, the log numbers its events in order, and a
\* frame that a draft asserts shows the screen of the call it was taken for.
THEOREM LogFaithful == Spec => []StudioInv
<1>1. SessionInv => StudioInv
  <2> SUFFICES ASSUME SessionInv
               PROVE  StudioInv
    OBVIOUS
  <2>1. TypeOK
    <3>1. /\ \A f \in frames : f.id \in Nat \ {0} /\ f.shot \in Nat
          /\ \A i \in 1..Len(events) : events[i].id \in Nat \ {0}
      <4>1. frames \subseteq FrameRecords /\ \A i \in 1..Len(events) : events[i] \in EventRecords
        BY DEF SessionInv, Typed, DiskTyped
      <4>2. QED
        BY <4>1 DEF FrameRecords, EventRecords
    <3>2. \A i \in 1..Len(guests) : guests[i].state \in {"running", "dying", "dead", "lost"}
      BY LatestNatural DEF SessionInv, Latest, Guests
    <3>3. \A p \in Processes : lock[p] \in {Nobody} \cup {c \in Clients : ProcessOf[c] = p}
      BY DEF SessionInv, Typed, InsideTyped
    <3>4. run.at \in {"idle", "discard", "unlink"} /\ run.kept \subseteq Kinds
      BY DEF SessionInv, Typed, BesideTyped
    <3>5. QED
      BY <3>1, <3>2, <3>3, <3>4
      DEF SessionInv, Typed, DiskTyped, InsideTyped, BesideTyped, Latest, Inside, TypeOK
  <2>2. LogInOrder
    BY DEF SessionInv, Together, LogFits, LogInOrder
  <2>3. DraftFaithful
    <3>1. ASSUME NEW pair \in Draft, apart
          PROVE  pair[2].shot = events[pair[1]].shot
      <4>1. /\ pair[1] \in 1..Len(events) /\ pair[2] \in frames
            /\ events[pair[1]].op # "crop" /\ events[pair[1]].after = pair[2].id
        BY DEF Draft
      <4>2. QED
        BY <3>1, <4>1 DEF SessionInv, Together, LogFits
    <3>2. QED
      BY <3>1 DEF DraftFaithful
  <2>4. QED
    BY <2>1, <2>2, <2>3 DEF StudioInv
<1>2. QED
  BY <1>1, SessionKept, PTL

\* An input that names a revision reaches the guest only if that guest has had
\* no other input since the client's image.
THEOREM RevisionsExact == Spec => []RevisionExact
<1>1. SessionInv => RevisionExact
  BY DEF SessionInv, Together, ImagesFit, Shows, RevisionExact
<1>2. QED
  BY <1>1, SessionKept, PTL

------------------------------------------------------------------------------
(***************************************************************************)
(* What holds of processes that overlap too.                               *)
(***************************************************************************)
\* The copies of the manifest in the processes, and the calls made with them.
CopiesFit ==
  /\ \A p \in Processes :
       /\ object[p] = NoObject \/ object[p].status \in {"active", "stopped"}
       /\ phase[p] \in {"connect", "open"} => object[p] # NoObject
  /\ \A c \in Clients :
       /\ call[c].at \in Inside => phase[ProcessOf[c]] = "open"
       /\ call[c].at \in {"reset", "restart"} => MembersOf(ProcessOf[c]) = {c}

\* What the functions range over.
Ranges ==
  /\ object \in [Processes -> Manifests] /\ manifest \in Manifests
  /\ phase \in [Processes -> {"out", "connect", "restore", "first", "open"}]
  /\ call \in [Clients -> [op : Ops, at : Places, rev : Nat, before : Nat]]
  /\ \A c \in Clients : ProcessOf[c] \in Processes
  /\ NoManifest \in Manifests /\ NoManifest.status = "none" /\ NoManifest.gen = 0
  /\ NoObject = NoManifest

LEMMA RangesTyped ==
  ASSUME SessionInv
  PROVE  Typed /\ Ranges
<1>1. Typed
  BY DEF SessionInv
<1>2. \A c \in Clients : ProcessOf[c] \in Processes
  BY StudioAssumption
<1>3. NoManifest \in Manifests /\ NoManifest.status = "none" /\ NoManifest.gen = 0
  BY DEF NoManifest, Manifests
<1>4. QED
  BY <1>1, <1>2, <1>3 DEF Typed, DiskTyped, InsideTyped, Ranges, NoObject

\* A client writes back the copy its process has, with its counters moved on.
Writes(p) ==
  \E o \in Manifests : /\ o.gen = object[p].gen
                       /\ manifest' = o /\ object' = [object EXCEPT ![p] = o]
                       /\ o.status \in {object[p].status, "stopped"}

LEMMA ClientWrites ==
  ASSUME Ranges, NEW c \in Clients, ClientStep(c)
  PROVE  \/ Writes(ProcessOf[c])
         \/ UNCHANGED <<manifest, object>>
         \/ ResetStarts(c)
<1>1. ProcessOf[c] \in Processes /\ object[ProcessOf[c]] \in Manifests
  BY DEF Ranges
<1>2. CASE Before(c)
  <2>1. LET o == NextFrame(object[ProcessOf[c]])
        IN  manifest' = o /\ object' = [object EXCEPT ![ProcessOf[c]] = o]
    BY <1>2 DEF Before, Write
  <2>2. QED
    BY <1>1, <2>1, Counters DEF Writes
<1>3. CASE ControlFails(c) \/ ReadSerial(c) \/ Crop(c)
  <2>1. LET o == NextEvent(object[ProcessOf[c]])
        IN  manifest' = o /\ object' = [object EXCEPT ![ProcessOf[c]] = o]
    BY <1>3 DEF ControlFails, ReadSerial, Crop, Write
  <2>2. QED
    BY <1>1, <2>1, Counters DEF Writes
<1>4. CASE Capture(c)
  <2>1. LET o == NextEvent(NextFrame(object[ProcessOf[c]]))
        IN  manifest' = o /\ object' = [object EXCEPT ![ProcessOf[c]] = o]
    BY <1>4 DEF Capture, Write
  <2>2. PICK f \in Manifests : f = NextFrame(object[ProcessOf[c]])
                              /\ f.gen = object[ProcessOf[c]].gen /\ f.status = object[ProcessOf[c]].status
    BY <1>1, Counters
  <2>3. PICK o \in Manifests : o = NextEvent(f) /\ o.gen = f.gen /\ o.status = f.status
    BY Counters
  <2>4. QED
    BY <2>1, <2>2, <2>3 DEF Writes
<1>5. CASE Stop(c) \/ ResetStops(c)
  <2>1. LET o == Stopped(object[ProcessOf[c]])
        IN  manifest' = o /\ object' = [object EXCEPT ![ProcessOf[c]] = o]
    BY <1>5 DEF Stop, ResetStops, StopSession, Write, Stopped
  <2>2. QED
    BY <1>1, <2>1, Counters DEF Writes
<1>6. CASE BeginControl(c) \/ BeginSnapshot(c) \/ Operate(c) \/ CallFails(c) \/ ResetEnds(c)
  BY <1>6 DEF BeginControl, BeginSnapshot, Begin, Operate, CallFails, ResetEnds, session
<1>7. QED
  BY <1>2, <1>3, <1>4, <1>5, <1>6 DEF ClientStep

\* What a client does to the phase of its process and to its call.
LEMMA ClientMoves ==
  ASSUME Ranges, CopiesFit, NEW c \in Clients, ClientStep(c)
  PROVE  /\ phase[ProcessOf[c]] = "open" \/ phase' = phase
         /\ phase' = phase \/ (ResetStarts(c) /\ phase' = [phase EXCEPT ![ProcessOf[c]] = "restore"])
         /\ \A d \in Clients : d # c => call'[d] = call[d]
         /\ call'[c].at \in Inside => phase[ProcessOf[c]] = "open" /\ phase' = phase
         /\ call'[c].at \in {"reset", "restart"} => MembersOf(ProcessOf[c]) = {c}
<1>1. ProcessOf[c] \in Processes /\ NoCall.at = "idle" /\ call[c].at \in Places
  BY DEF Ranges, NoCall
<1>2. CASE BeginControl(c) \/ BeginSnapshot(c)
  BY <1>1, <1>2 DEF BeginControl, BeginSnapshot, Begin, Ranges
<1>3. CASE Before(c) \/ Operate(c)
  BY <1>1, <1>3 DEF Before, Operate, Ranges, CopiesFit, Inside
<1>4. CASE ControlFails(c) \/ Capture(c) \/ CallFails(c) \/ ResetEnds(c)
  BY <1>1, <1>4 DEF ControlFails, Capture, CallFails, ResetEnds, Return, Ranges, Inside
<1>5. CASE ReadSerial(c) \/ Crop(c) \/ Stop(c)
  BY <1>1, <1>5 DEF ReadSerial, Crop, Stop, Ranges, CopiesFit
<1>6. CASE ResetStops(c)
  BY <1>1, <1>6 DEF ResetStops, Ranges, Inside
<1>7. CASE ResetStarts(c)
  BY <1>1, <1>7 DEF ResetStarts, Restoring, Ranges, CopiesFit, Inside
<1>8. QED
  BY <1>2, <1>3, <1>4, <1>5, <1>6, <1>7 DEF ClientStep

LEMMA CopiesStep ==
  ASSUME SessionInv, CopiesFit, [Next]_vars
  PROVE  CopiesFit'
<1>1. Typed /\ Ranges
  BY RangesTyped
<1>2. ASSUME NEW p \in Processes, ProcessStep(p)
      PROVE  CopiesFit'
  <2>1. CASE MarkStale(p)
    BY <2>1 DEF MarkStale, inside, CopiesFit
  <2>2. CASE AttachReads(p)
    BY <1>1, <2>2 DEF AttachReads, CopiesFit, Ranges
  <2>3. CASE Attached(p)
    BY <1>1, <2>3 DEF Attached, CopiesFit, Ranges
  <2>4. CASE Start(p)
    BY <1>1, <2>4 DEF Start, Restoring, CopiesFit, Ranges
  <2>5. CASE RestoreFails(p) \/ FirstFails(p)
    BY <1>1, <2>5 DEF RestoreFails, FirstFails, Failed, CopiesFit, Ranges
  <2>6. CASE Restored(p)
    BY <1>1, <2>6 DEF Restored, CopiesFit, Ranges
  <2>7. CASE FirstSnapshot(p)
    <3>1. PICK o \in Manifests : o.status = "active" /\ object' = [object EXCEPT ![p] = o]
      <4>1. Own(p) \in Nat
        BY <1>1, <2>7, OwnIs, LatestNatural DEF FirstSnapshot
      <4>2. LET o == NextEvent(NextFrame(Fresh(Own(p)))) IN object' = [object EXCEPT ![p] = o]
        BY <2>7 DEF FirstSnapshot
      <4>3. PICK w \in Manifests : w = Fresh(Own(p)) /\ w.status = "active"
        BY <4>1, FreshManifest
      <4>4. PICK f \in Manifests : f = NextFrame(w) /\ f.status = "active"
        BY <4>3, Counters
      <4>5. PICK o \in Manifests : o = NextEvent(f) /\ o.status = "active"
        BY <4>4, Counters
      <4>6. QED
        BY <4>2, <4>3, <4>4, <4>5
    <3>2. phase' = [phase EXCEPT ![p] = "open"] /\ UNCHANGED call
      BY <2>7 DEF FirstSnapshot
    <3>3. QED
      BY <1>1, <3>1, <3>2 DEF CopiesFit, Ranges
  <2>8. CASE Leave(p)
    <3>1. \A c \in Clients : ProcessOf[c] = p => call[c].at = "idle"
      BY <2>8 DEF Leave, AllIdle, MembersOf, NoCall
    <3>2. /\ phase' = [phase EXCEPT ![p] = "out"] /\ object' = [object EXCEPT ![p] = NoObject]
          /\ UNCHANGED call
      BY <2>8 DEF Leave
    <3>3. QED
      BY <1>1, <3>1, <3>2 DEF CopiesFit, Ranges, Inside
  <2>9. QED
    BY <1>2, <2>1, <2>2, <2>3, <2>4, <2>5, <2>6, <2>7, <2>8 DEF ProcessStep
<1>3. ASSUME NEW c \in Clients, ClientStep(c)
      PROVE  CopiesFit'
  <2>1. ASSUME NEW p \in Processes
        PROVE  /\ object'[p] = NoObject \/ object'[p].status \in {"active", "stopped"}
               /\ object'[p] # object[p] => object'[p] # NoObject
    <3>1. CASE Writes(ProcessOf[c]) /\ object[ProcessOf[c]] # NoObject
      BY <1>1, <3>1 DEF Writes, CopiesFit, Ranges
    <3>2. CASE UNCHANGED object
      BY <3>2 DEF CopiesFit
    <3>3. CASE Writes(ProcessOf[c]) /\ object[ProcessOf[c]] = NoObject
      <4>1. phase[ProcessOf[c]] = "open"
        BY <1>1, <1>3, <3>3
        DEF ClientStep, Writes, CopiesFit, Ranges, Inside, BeginControl, BeginSnapshot, Begin,
            Before, Operate, ControlFails, Capture, CallFails, ReadSerial, Crop, Stop,
            ResetStops, ResetStarts, ResetEnds
      <4>2. QED
        BY <1>1, <3>3, <4>1 DEF CopiesFit, Ranges
    <3>4. ResetStarts(c) => UNCHANGED object
      BY DEF ResetStarts
    <3>5. QED
      BY <1>1, <1>3, <3>1, <3>2, <3>3, <3>4, ClientWrites
  <2>2. ASSUME NEW p \in Processes, phase'[p] \in {"connect", "open"}
        PROVE  object'[p] # NoObject
    <3>1. phase'[p] = phase[p]
      BY <1>1, <1>3, <2>2, ClientMoves DEF Ranges
    <3>2. QED
      BY <2>1, <2>2, <3>1 DEF CopiesFit
  <2>3. ASSUME NEW d \in Clients
        PROVE  /\ call'[d].at \in Inside => phase'[ProcessOf[d]] = "open"
               /\ call'[d].at \in {"reset", "restart"} => MembersOf(ProcessOf[d]) = {d}
    <3>1. CASE d = c
      BY <1>1, <1>3, <3>1, ClientMoves DEF Ranges
    <3>2. CASE d # c
      <4>1. call'[d] = call[d]
        BY <1>1, <1>3, <3>2, ClientMoves
      <4>2. CASE phase' = phase
        BY <4>1, <4>2 DEF CopiesFit
      <4>3. CASE ResetStarts(c) /\ phase' = [phase EXCEPT ![ProcessOf[c]] = "restore"]
        <5>1. MembersOf(ProcessOf[c]) = {c}
          BY <4>3 DEF ResetStarts, CopiesFit
        <5>2. ProcessOf[d] # ProcessOf[c]
          BY <3>2, <5>1 DEF MembersOf
        <5>3. phase'[ProcessOf[d]] = phase[ProcessOf[d]]
          BY <1>1, <4>3, <5>2 DEF Ranges
        <5>4. QED
          BY <4>1, <5>3 DEF CopiesFit
      <4>4. QED
        BY <1>1, <1>3, <4>2, <4>3, ClientMoves
    <3>3. QED
      BY <3>1, <3>2
  <2>4. QED
    BY <2>1, <2>2, <2>3 DEF CopiesFit
<1>4. CASE RunReads \/ RunDiscards \/ RunUnlinks
  BY <1>4 DEF RunReads, RunDiscards, RunUnlinks, inside, CopiesFit
<1>5. CASE (\E g \in 1..Latest : GuestEnds(g)) \/ UNCHANGED vars
  BY <1>5 DEF GuestEnds, inside, vars, CopiesFit
<1>6. QED
  BY <1>2, <1>3, <1>4, <1>5 DEF Next, Over

\* The guest that p restored last stays that one while p restores no other.
LEMMA OwnSame ==
  ASSUME Typed, NEW p \in Processes, phase[p] = "first", Latest' \in Nat, Latest <= Latest',
         \A g \in 1..Latest : guests'[g].by = guests[g].by,
         \A h \in Latest + 1..Latest' : guests'[h].by # p
  PROVE  Own(p)' = Own(p)
<1>1. /\ Own(p) \in 1..Latest /\ guests[Own(p)].by = p /\ Latest \in Nat
      /\ \A h \in Own(p) + 1..Latest : guests[h].by # p
  BY OwnIs, LatestNatural
<1>2. PICK w \in 1..Latest : w = Own(p)
  BY <1>1
<1>3. \A h \in w + 1..Latest' : guests'[h].by # p
  <2>1. ASSUME NEW h \in w + 1..Latest'
        PROVE  guests'[h].by # p
    <3>1. CASE h \in w + 1..Latest
      <4>1. h \in 1..Latest
        BY <1>1, <3>1
      <4>2. QED
        BY <1>1, <1>2, <3>1, <4>1
    <3>2. CASE h \in Latest + 1..Latest'
      BY <3>2
    <3>3. QED
      BY <1>1, <2>1, <3>1, <3>2
  <2>2. QED
    BY <2>1
<1>4. w \in 1..Latest' /\ guests'[w].by = p
  BY <1>1, <1>2
<1>5. PICK v : v = Own(p)'
  OBVIOUS
<1>6. v \in 1..Latest' /\ guests'[v].by = p /\ \A h \in v + 1..Latest' : guests'[h].by # p
  BY <1>3, <1>4, <1>5 DEF Own
<1>7. v = w
  BY <1>1, <1>3, <1>4, <1>6
<1>8. QED
  BY <1>2, <1>5, <1>7

\* The manifest, an object or the first snapshot of a process names a guest.  A
\* step that loses no guest and makes up no name keeps the lost ones unnamed.
LEMMA LostKept ==
  ASSUME Typed, LostForGood, Latest' = Latest,
         \A g \in 1..Latest : /\ guests'[g].by = guests[g].by
                              /\ guests'[g].state = "lost" => guests[g].state = "lost",
         \A p \in Processes : phase'[p] = "first" => phase[p] = "first",
         \A g \in 1..Latest :
           (\/ manifest'.gen = g
            \/ \E p \in Processes : object'[p].gen = g)
           => \/ manifest.gen = g
              \/ \E p \in Processes : object[p].gen = g \/ (phase[p] = "first" /\ Own(p) = g)
  PROVE  LostForGood'
<1> SUFFICES ASSUME NEW g \in 1..Latest, guests'[g].state = "lost"
             PROVE  /\ manifest'.gen # g
                    /\ \A p \in Processes : /\ object'[p].gen # g
                                            /\ phase'[p] = "first" => Own(p)' # g
  BY DEF LostForGood
<1>1. guests[g].state = "lost"
  OBVIOUS
<1>2. manifest'.gen # g /\ \A p \in Processes : object'[p].gen # g
  BY <1>1 DEF LostForGood
<1>3. ASSUME NEW p \in Processes, phase'[p] = "first"
      PROVE  Own(p)' # g
  <2>1. phase[p] = "first" /\ Own(p) # g
    BY <1>1, <1>3 DEF LostForGood
  <2>2. Own(p)' = Own(p)
    <3>1. Latest \in Nat /\ \A h \in Latest + 1..Latest : FALSE
      BY LatestNatural
    <3>2. QED
      BY <2>1, <3>1, OwnSame
  <2>3. QED
    BY <2>1, <2>2
<1>4. QED
  BY <1>2, <1>3

\* A restore names the guest it has added, or nobody does.
LEMMA LostAdded ==
  ASSUME Typed, Ranges, LostForGood, NEW p \in Processes, phase[p] = "restore", NEW r \in Guests,
         guests' = Append(guests, r), r.by = p,
         UNCHANGED object,
         \A q \in Processes \ {p} : phase'[q] = phase[q],
         \/ r.state = "lost" /\ phase'[p] # "first" /\ UNCHANGED manifest
         \/ r.state = "running" /\ manifest'.gen = Latest + 1
  PROVE  LostForGood'
<1>1. /\ Latest' = Latest + 1 /\ guests'[Latest'] = r /\ Latest \in Nat
      /\ \A g \in 1..Latest : guests'[g] = guests[g]
  BY GuestAdded, LatestNatural
<1>2. manifest.gen <= Latest /\ \A q \in Processes : object[q].gen <= Latest
  BY DEF Typed, DiskTyped, InsideTyped
<1>3. /\ manifest.gen \in Nat /\ \A q \in Processes : object[q].gen \in Nat
  BY DEF Ranges, Manifests
<1> SUFFICES ASSUME NEW g \in 1..Latest', guests'[g].state = "lost"
             PROVE  /\ manifest'.gen # g
                    /\ \A q \in Processes : /\ object'[q].gen # g
                                            /\ phase'[q] = "first" => Own(q)' # g
  BY DEF LostForGood
<1>4. \A q \in Processes \ {p} : phase'[q] = "first" => Own(q)' = Own(q) /\ Own(q) \in 1..Latest
  <2>1. ASSUME NEW q \in Processes \ {p}, phase'[q] = "first"
        PROVE  Own(q)' = Own(q) /\ Own(q) \in 1..Latest
    <3>1. phase[q] = "first" /\ r.by # q
      BY <2>1
    <3>2. \A h \in Latest + 1..Latest' : h = Latest'
      BY <1>1
    <3>3. \A h \in Latest + 1..Latest' : guests'[h].by # q
      <4>1. guests'[Latest'].by # q
        BY <1>1, <3>1
      <4>2. QED
        BY <3>2, <4>1
    <3>4. Own(q)' = Own(q)
      <4>1. Latest' \in Nat /\ Latest <= Latest'
        BY <1>1
      <4>2. QED
        BY <1>1, <3>1, <3>3, <4>1, OwnSame
    <3>5. QED
      BY <3>1, <3>4, OwnIs
  <2>2. QED
    BY <2>1
<1>5. CASE g = Latest'
  <2>1. r.state = "lost"
    BY <1>1, <1>5
  <2>2. manifest' = manifest /\ phase'[p] # "first"
    BY <2>1
  <2>3. QED
    BY <1>1, <1>2, <1>3, <1>4, <1>5, <2>2
<1>6. CASE g \in 1..Latest
  <2>1. guests[g].state = "lost"
    BY <1>1, <1>6
  <2>2. manifest'.gen # g
    BY <1>1, <1>6, <2>1 DEF LostForGood
  <2>3. ASSUME NEW q \in Processes, phase'[q] = "first"
        PROVE  Own(q)' # g
    <3>1. CASE q = p
      <4>1. r.state = "running" /\ r.by = p
        BY <2>3, <3>1
      <4>2. \A h \in Latest' + 1..Latest' : FALSE
        BY <1>1
      <4>3. PICK v : v = Own(p)'
        OBVIOUS
      <4>4. Latest' \in 1..Latest' /\ guests'[Latest'].by = p
        BY <1>1
      <4>5. v \in 1..Latest' /\ \A h \in v + 1..Latest' : guests'[h].by # p
        BY <4>2, <4>3, <4>4 DEF Own
      <4>6. v = Latest'
        <5>1. PICK n \in Nat : n = Latest'
          BY <1>1
        <5>2. v \in 1..n /\ (v < n => n \in v + 1..n)
          BY <4>5, <5>1
        <5>3. ~(n \in v + 1..n)
          BY <4>4, <4>5, <5>1
        <5>4. QED
          BY <5>1, <5>2, <5>3
      <4>7. QED
        BY <1>1, <1>6, <3>1, <4>3, <4>6
    <3>2. CASE q # p
      BY <1>4, <2>1, <2>3, <3>2 DEF LostForGood
    <3>3. QED
      BY <3>1, <3>2
  <2>4. QED
    BY <1>6, <2>1, <2>2, <2>3 DEF LostForGood
<1>7. QED
  BY <1>1, <1>5, <1>6

\* What happens to the guests in the steps that restore none.
LEMMA LostStates ==
  ASSUME Typed, NEW k \in Nat, guests' \in {guests, Terminated(k)}
  PROVE  Latest' = Latest /\ \A g \in 1..Latest :
           guests'[g].by = guests[g].by /\ (guests'[g].state = "lost" => guests[g].state = "lost")
<1>1. guests \in Seq(Guests) /\ Latest = Len(guests)
  BY DEF Typed, DiskTyped, Latest
<1>2. CASE guests' = guests
  BY <1>2 DEF Latest
<1>3. CASE k \in 1..Latest /\ guests[k].state = "running" /\ guests' = [guests EXCEPT ![k].state = "dying"]
  <2>1. guests[k] \in Guests
    BY <1>1, <1>3
  <2>2. PICK r \in Guests : r = [guests[k] EXCEPT !.state = "dying"]
    BY <2>1 DEF Guests
  <2>3. r.by = guests[k].by /\ r.state = "dying"
    BY <2>1, <2>2 DEF Guests
  <2>4. guests' = [guests EXCEPT ![k] = r]
    BY <1>3, <2>2
  <2>5. Len(guests') = Len(guests) /\ \A i \in 1..Len(guests) : guests'[i] = IF i = k THEN r ELSE guests[i]
    BY <1>1, <1>3, <2>4, GuestEdited
  <2>6. QED
    BY <1>1, <2>3, <2>5 DEF Latest
<1>4. QED
  BY <1>2, <1>3 DEF Terminated

\* A guest that is typed at or ends was not lost.
LEMMA LostEdits ==
  ASSUME Typed, NEW k \in 1..Latest, guests' = Input(k) \/ guests' = [guests EXCEPT ![k].state = "dead"]
  PROVE  Latest' = Latest /\ \A g \in 1..Latest :
           guests'[g].by = guests[g].by /\ (guests'[g].state = "lost" => guests[g].state = "lost")
<1>1. guests \in Seq(Guests) /\ Latest = Len(guests)
  BY DEF Typed, DiskTyped, Latest
<1>2. CASE guests' = Input(k)
  BY <1>2, InputReaches
<1>3. CASE guests' = [guests EXCEPT ![k].state = "dead"]
  <2>1. guests[k] \in Guests
    BY <1>1
  <2>2. PICK r \in Guests : r = [guests[k] EXCEPT !.state = "dead"]
    BY <2>1 DEF Guests
  <2>3. r.by = guests[k].by /\ r.state = "dead"
    BY <2>1, <2>2 DEF Guests
  <2>4. guests' = [guests EXCEPT ![k] = r]
    BY <1>3, <2>2
  <2>5. Len(guests') = Len(guests) /\ \A i \in 1..Len(guests) : guests'[i] = IF i = k THEN r ELSE guests[i]
    BY <1>1, <2>4, GuestEdited
  <2>6. QED
    BY <1>1, <2>3, <2>5 DEF Latest
<1>4. QED
  BY <1>2, <1>3

LEMMA LostStep ==
  ASSUME SessionInv, LostForGood, [Next]_vars
  PROVE  LostForGood'
<1>1. Typed /\ Ranges
  BY RangesTyped
<1>2. /\ Latest \in Nat /\ \A g \in 1..Latest : guests[g] \in Guests
      /\ \A p \in Processes : object[p].gen \in Nat /\ object[p].gen <= Latest
  BY <1>1, LatestNatural DEF Typed, InsideTyped, Ranges, Manifests
<1>3. UNCHANGED guests => Latest' = Latest /\ \A g \in 1..Latest :
        guests'[g].by = guests[g].by /\ (guests'[g].state = "lost" => guests[g].state = "lost")
  BY DEF Latest
<1>4. ASSUME NEW p \in Processes, ProcessStep(p)
      PROVE  LostForGood'
  <2>1. CASE MarkStale(p)
    <3>1. manifest'.gen = manifest.gen /\ UNCHANGED <<guests, phase, object>>
      BY <1>1, <2>1 DEF MarkStale, Write, machine, inside, Ranges, Manifests
    <3>2. QED
      BY <1>1, <1>3, <3>1, LostKept
  <2>2. CASE AttachReads(p) \/ Attached(p) \/ Start(p)
    <3>1. UNCHANGED <<guests, manifest>>
      BY <2>2 DEF AttachReads, Attached, Start, machine, session
    <3>2. /\ \A q \in Processes : phase'[q] = "first" => phase[q] = "first"
          /\ \A q \in Processes : object'[q] \in {object[q], manifest, NoObject}
      BY <1>1, <2>2 DEF AttachReads, Attached, Start, Restoring, Ranges
    <3>3. QED
      BY <1>1, <1>2, <1>3, <3>1, <3>2, LostKept DEF Ranges
  <2>3. CASE RestoreFails(p)
    <3>1. /\ phase[p] = "restore" /\ UNCHANGED <<object, manifest>>
          /\ phase'[p] # "first" /\ \A q \in Processes \ {p} : phase'[q] = phase[q]
          /\ \/ UNCHANGED guests
             \/ guests' = Append(guests, [state |-> "lost", inputs |-> 0, by |-> p])
      BY <1>1, <2>3 DEF RestoreFails, Failed, session, Ranges
    <3>2. CASE UNCHANGED guests
      BY <1>1, <1>3, <3>1, <3>2, LostKept
    <3>3. CASE guests' = Append(guests, [state |-> "lost", inputs |-> 0, by |-> p])
      <4>1. PICK r \in Guests : r = [state |-> "lost", inputs |-> 0, by |-> p]
        BY DEF Guests
      <4>2. QED
        BY <1>1, <3>1, <3>3, <4>1, LostAdded
    <3>4. QED
      BY <3>1, <3>2, <3>3
  <2>4. CASE Restored(p)
    <3>1. /\ phase[p] = "restore" /\ UNCHANGED object /\ manifest' = Fresh(Latest + 1)
          /\ \A q \in Processes \ {p} : phase'[q] = phase[q]
          /\ guests' = Append(guests, [state |-> "running", inputs |-> 0, by |-> p])
      BY <1>1, <2>4 DEF Restored, Write, Ranges
    <3>2. PICK r \in Guests : r = [state |-> "running", inputs |-> 0, by |-> p]
      BY DEF Guests
    <3>3. manifest'.gen = Latest + 1
      BY <3>1 DEF Fresh
    <3>4. QED
      BY <1>1, <3>1, <3>2, <3>3, LostAdded
  <2>5. CASE FirstSnapshot(p)
    <3>1. /\ phase[p] = "first" /\ UNCHANGED guests
          /\ phase' = [phase EXCEPT ![p] = "open"]
      BY <2>5 DEF FirstSnapshot, machine
    <3>2. PICK o \in Manifests : /\ o.gen = Own(p) /\ manifest' = o
                                 /\ object' = [object EXCEPT ![p] = o]
      <4>1. Own(p) \in Nat
        BY <1>1, <1>2, <3>1, OwnIs
      <4>2. LET o == NextEvent(NextFrame(Fresh(Own(p))))
            IN  manifest' = o /\ object' = [object EXCEPT ![p] = o]
        BY <2>5 DEF FirstSnapshot, Write
      <4>3. PICK w \in Manifests : w = Fresh(Own(p)) /\ w.gen = Own(p)
        BY <4>1, FreshManifest
      <4>4. PICK f \in Manifests : f = NextFrame(w) /\ f.gen = Own(p)
        BY <4>3, Counters
      <4>5. PICK o \in Manifests : o = NextEvent(f) /\ o.gen = Own(p)
        BY <4>4, Counters
      <4>6. QED
        BY <4>2, <4>3, <4>4, <4>5
    <3>3. /\ \A q \in Processes : phase'[q] = "first" => phase[q] = "first"
          /\ \A q \in Processes : object'[q].gen \in {object[q].gen, Own(p)}
      BY <1>1, <3>1, <3>2 DEF Ranges
    <3>4. QED
      BY <1>1, <1>3, <3>1, <3>2, <3>3, LostKept
  <2>6. CASE FirstFails(p)
    <3>1. /\ phase[p] = "first" /\ guests' = [guests EXCEPT ![Own(p)].state = "dead"]
          /\ manifest' = NoManifest /\ UNCHANGED object
          /\ \A q \in Processes : phase'[q] = "first" => phase[q] = "first"
      BY <1>1, <2>6 DEF FirstFails, Failed, Ranges
    <3>2. PICK k \in 1..Latest : k = Own(p)
      BY <1>1, <3>1, OwnIs
    <3>3. guests' = [guests EXCEPT ![k].state = "dead"]
      BY <3>1, <3>2
    <3>4. /\ Latest' = Latest
          /\ \A g \in 1..Latest : /\ guests'[g].by = guests[g].by
                                  /\ guests'[g].state = "lost" => guests[g].state = "lost"
      BY <1>1, <3>3, LostEdits
    <3>5. manifest'.gen = 0
      BY <1>1, <3>1 DEF Ranges
    <3>6. QED
      BY <1>1, <1>2, <3>1, <3>4, <3>5, LostKept
  <2>7. CASE Leave(p)
    <3>1. /\ guests' \in {guests, Terminated(object[p].gen)}
          /\ manifest' = manifest \/ manifest' = Stopped(object[p])
          /\ object' = [object EXCEPT ![p] = NoObject] /\ phase' = [phase EXCEPT ![p] = "out"]
      BY <2>7 DEF Leave, Write, session
    <3>2. manifest'.gen \in {manifest.gen, object[p].gen}
      BY <1>1, <3>1, Counters DEF Ranges
    <3>3. /\ \A q \in Processes : phase'[q] = "first" => phase[q] = "first"
          /\ \A q \in Processes : object'[q].gen \in {object[q].gen, 0}
      BY <1>1, <3>1 DEF Ranges
    <3>4. /\ Latest' = Latest
          /\ \A g \in 1..Latest : /\ guests'[g].by = guests[g].by
                                  /\ guests'[g].state = "lost" => guests[g].state = "lost"
      BY <1>1, <1>2, <3>1, LostStates
    <3>5. QED
      BY <1>1, <1>2, <3>2, <3>3, <3>4, LostKept
  <2>8. QED
    BY <1>4, <2>1, <2>2, <2>3, <2>4, <2>5, <2>6, <2>7 DEF ProcessStep
<1>5. ASSUME NEW c \in Clients, ClientStep(c)
      PROVE  LostForGood'
  <2>1. ProcessOf[c] \in Processes /\ object[ProcessOf[c]].gen \in Nat
    BY <1>1, <1>2 DEF Ranges
  <2>2. /\ manifest'.gen \in {manifest.gen, object[ProcessOf[c]].gen, 0}
        /\ \A q \in Processes : object'[q].gen \in {object[q].gen, object[ProcessOf[c]].gen}
    <3>1. CASE Writes(ProcessOf[c])
      BY <1>1, <2>1, <3>1 DEF Writes, Ranges
    <3>2. CASE ResetStarts(c)
      BY <1>1, <3>2 DEF ResetStarts, Ranges
    <3>3. QED
      BY <1>1, <1>5, <3>1, <3>2, ClientWrites
  <2>3. \A q \in Processes : phase'[q] = "first" => phase[q] = "first"
    BY <1>1, <1>5
    DEF ClientStep, Ranges, BeginControl, BeginSnapshot, Begin, Before, Operate, ControlFails,
        Capture, CallFails, ReadSerial, Crop, Stop, ResetStops, ResetStarts, ResetEnds, Restoring
  <2>4. \/ guests' \in {guests, Terminated(object[ProcessOf[c]].gen)}
        \/ object[ProcessOf[c]].gen \in 1..Latest /\ guests' = Input(object[ProcessOf[c]].gen)
    <3>1. CASE BeginControl(c) \/ BeginSnapshot(c) \/ Before(c) \/ Capture(c) \/ CallFails(c)
      BY <3>1 DEF BeginControl, BeginSnapshot, Begin, Before, Capture, CallFails, machine
    <3>2. CASE Operate(c)
      BY <3>2 DEF Operate, Reaches, Alive
    <3>3. CASE ControlFails(c)
      <4>1. NextEvent(object[ProcessOf[c]]).gen = object[ProcessOf[c]].gen
        BY <1>1, <2>1, Counters DEF Ranges
      <4>2. QED
        BY <3>3, <4>1 DEF ControlFails, Reaches, Alive
    <3>4. CASE ReadSerial(c) \/ Crop(c) \/ ResetStarts(c) \/ ResetEnds(c)
      BY <3>4 DEF ReadSerial, Crop, ResetStarts, ResetEnds, machine
    <3>5. CASE Stop(c) \/ ResetStops(c)
      BY <3>5 DEF Stop, ResetStops, StopSession
    <3>6. QED
      BY <1>5, <3>1, <3>2, <3>3, <3>4, <3>5 DEF ClientStep
  <2>5. /\ Latest' = Latest
        /\ \A g \in 1..Latest : /\ guests'[g].by = guests[g].by
                                /\ guests'[g].state = "lost" => guests[g].state = "lost"
    BY <1>1, <2>1, <2>4, LostStates, LostEdits
  <2>6. QED
    BY <1>1, <1>2, <2>1, <2>2, <2>3, <2>5, LostKept
<1>6. CASE RunReads \/ RunDiscards \/ RunUnlinks
  <2>1. manifest' \in {manifest, NoManifest} /\ UNCHANGED <<guests, phase, object>>
    BY <1>6 DEF RunReads, RunDiscards, RunUnlinks, session, machine, inside
  <2>2. QED
    BY <1>1, <1>3, <2>1, LostKept DEF Ranges
<1>7. ASSUME NEW g \in 1..Latest, GuestEnds(g)
      PROVE  LostForGood'
  <2>1. guests' = [guests EXCEPT ![g].state = "dead"] /\ UNCHANGED <<manifest, phase, object>>
    BY <1>7 DEF GuestEnds, session, inside
  <2>2. QED
    BY <1>1, <2>1, LostEdits, LostKept
<1>8. CASE UNCHANGED vars
  <2>1. UNCHANGED <<manifest, guests, phase, object>>
    BY <1>8 DEF vars, session, machine, inside
  <2>2. QED
    BY <1>1, <1>3, <2>1, LostKept
<1>9. QED
  BY <1>4, <1>5, <1>6, <1>7, <1>8 DEF Next, Over

LEMMA RetiredStep ==
  ASSUME SessionInv, CopiesFit, Next, Retired
  PROVE  Retired' \/ manifest' = NoManifest \/ manifest'.gen > manifest.gen
<1>1. Typed /\ Ranges /\ manifest.gen \in Nat /\ manifest.gen <= Latest /\ Latest \in Nat
  BY RangesTyped, LatestNatural DEF Typed, DiskTyped, Manifests
<1>2. /\ manifest.status = "stopped"
      /\ \A p \in Processes : phase[p] # "first" /\ object[p].status # "active"
  BY DEF Retired
<1>3. ASSUME NEW p \in Processes, ProcessStep(p)
      PROVE  Retired' \/ manifest' = NoManifest \/ manifest'.gen > manifest.gen
  <2>1. CASE Attached(p) \/ Start(p) \/ RestoreFails(p)
    BY <1>1, <1>2, <2>1
    DEF Attached, Start, RestoreFails, Restoring, Failed, session, Retired, Ranges
  <2>2. CASE Restored(p)
    <3>1. manifest' = Fresh(Latest + 1)
      BY <2>2 DEF Restored, Write
    <3>2. manifest'.gen = Latest + 1
      BY <3>1 DEF Fresh
    <3>3. QED
      BY <1>1, <3>2
  <2>3. CASE Leave(p)
    <3>1. phase[p] = "open" /\ object[p] \in Manifests /\ object[p].status = "stopped"
      BY <1>1, <1>2, <2>3 DEF Leave, CopiesFit, Ranges
    <3>2. manifest' = manifest \/ manifest' = Stopped(object[p])
      BY <2>3 DEF Leave, Write, session
    <3>3. manifest'.status = "stopped"
      BY <1>2, <3>1, <3>2, Counters
    <3>4. phase' = [phase EXCEPT ![p] = "out"] /\ object' = [object EXCEPT ![p] = NoObject]
      BY <2>3 DEF Leave
    <3>5. QED
      BY <1>1, <1>2, <3>3, <3>4 DEF Retired, Ranges
  <2>4. ~(MarkStale(p) \/ AttachReads(p) \/ FirstSnapshot(p) \/ FirstFails(p))
    BY <1>2 DEF MarkStale, AttachReads, FirstSnapshot, FirstFails
  <2>5. QED
    BY <1>3, <2>1, <2>2, <2>3, <2>4 DEF ProcessStep
<1>4. ASSUME NEW c \in Clients, ClientStep(c)
      PROVE  Retired' \/ manifest' = NoManifest \/ manifest'.gen > manifest.gen
  <2>1. ProcessOf[c] \in Processes /\ object[ProcessOf[c]].status # "active"
    BY <1>1, <1>2 DEF Ranges
  <2>2. \A p \in Processes : phase'[p] # "first"
    BY <1>1, <1>2, <1>4, ClientMoves DEF Ranges
  <2>3. CASE ResetStarts(c)
    BY <2>3 DEF ResetStarts
  <2>4. CASE UNCHANGED <<manifest, object>>
    BY <1>2, <2>2, <2>4 DEF Retired
  <2>5. CASE Writes(ProcessOf[c]) /\ ~UNCHANGED <<manifest, object>>
    <3>1. phase[ProcessOf[c]] = "open"
      BY <1>1, <1>4, <2>5
      DEF ClientStep, CopiesFit, Ranges, Inside, BeginControl, BeginSnapshot, Begin,
          Before, Operate, ControlFails, Capture, CallFails, ReadSerial, Crop, Stop,
          ResetStops, ResetStarts, ResetEnds, session
    <3>2. object[ProcessOf[c]].status = "stopped"
      BY <1>1, <2>1, <3>1 DEF CopiesFit, Ranges
    <3>3. PICK o \in Manifests : /\ o.status = "stopped" /\ manifest' = o
                                 /\ object' = [object EXCEPT ![ProcessOf[c]] = o]
      BY <2>5, <3>2 DEF Writes
    <3>4. QED
      BY <1>1, <1>2, <2>2, <3>3 DEF Retired, Ranges
  <2>6. QED
    BY <1>1, <1>4, <2>3, <2>4, <2>5, ClientWrites
<1>5. CASE RunReads \/ RunDiscards \/ RunUnlinks
  BY <1>2, <1>5 DEF RunReads, RunDiscards, RunUnlinks, session, inside, Retired
<1>6. CASE (\E g \in 1..Latest : GuestEnds(g)) \/ UNCHANGED vars
  BY <1>2, <1>6 DEF GuestEnds, vars, session, inside, Retired
<1>7. QED
  BY <1>3, <1>4, <1>5, <1>6 DEF Next, Over

\* The copies fit and the lost guests stay lost, in every interleaving.
LEMMA OverlapKept == Spec => [](SessionInv /\ CopiesFit /\ LostForGood)
<1>1. Init => SessionInv /\ CopiesFit /\ LostForGood
  <2> SUFFICES ASSUME Init
               PROVE  SessionInv /\ CopiesFit /\ LostForGood
    OBVIOUS
  <2>1. SessionInv
    BY InitSession
  <2>2. CopiesFit
    BY DEF Init, CopiesFit, NoCall, Inside
  <2>3. LostForGood
    BY DEF Init, LostForGood, Latest
  <2>4. QED
    BY <2>1, <2>2, <2>3
<1>2. SessionInv /\ CopiesFit /\ LostForGood /\ [Next]_vars => (SessionInv /\ CopiesFit /\ LostForGood)'
  BY NextKeeps, CopiesStep, LostStep
<1>3. QED
  BY <1>1, <1>2, PTL DEF Spec

\* Processes that keep apart leave every guest that runs listed, or owned by the
\* process that restored it; and in every interleaving the guests of a restore
\* that failed half-way, the ones this passes over, are named by no manifest and
\* no process, so that they stay out of reach for good.
THEOREM GuestsReachable == Spec => [](NothingUnreachable /\ LostForGood)
<1>1. SessionInv => NothingUnreachable
  BY DEF SessionInv, Together, OneRuns, Runs, NothingUnreachable
<1>2. QED
  BY <1>1, OverlapKept, PTL

\* No step makes a stopped session active: every object that could be written
\* back is stopped too, and a restore starts from no manifest.
LEMMA NotRevived ==
  ASSUME SessionInv, Next, apart', manifest.status = "stopped"
  PROVE  manifest'.status # "active"
<1>1. apart
  <2>1. ASSUME NEW p \in Processes, ProcessStep(p)
        PROVE  apart
    BY <2>1 DEF ProcessStep, MarkStale, AttachReads, Attached, Start, Restoring, RestoreFails,
                Restored, FirstSnapshot, FirstFails, Leave
  <2>2. ASSUME NEW c \in Clients, ClientStep(c)
        PROVE  apart
    BY <2>2 DEF ClientStep, BeginControl, BeginSnapshot, Begin, Before, Operate, ControlFails,
                Capture, CallFails, ReadSerial, Crop, Stop, ResetStops, ResetStarts, Restoring,
                ResetEnds
  <2>3. CASE RunReads \/ RunDiscards \/ RunUnlinks
    BY <2>3 DEF RunReads, RunDiscards, RunUnlinks
  <2>4. CASE (\E g \in 1..Latest : GuestEnds(g)) \/ Over
    BY <2>4 DEF GuestEnds, Over, vars
  <2>5. QED
    BY <2>1, <2>2, <2>3, <2>4 DEF Next
<1>2. /\ Typed /\ Together
      /\ \A p \in Processes : phase[p] \in {"out", "open"}
                              /\ (phase[p] = "open" => object[p].status = "stopped")
  BY <1>1 DEF SessionInv, Together, OneRuns
<1>3. object \in [Processes -> Manifests]
  BY <1>2 DEF Typed, InsideTyped
<1>4. ASSUME NEW p \in Processes, ProcessStep(p)
      PROVE  manifest'.status # "active"
  <2>1. CASE Leave(p)
    BY <1>2, <1>3, <2>1, Counters DEF Leave, Write, session
  <2>2. CASE ~Leave(p)
    BY <1>2, <1>4, <2>2
    DEF ProcessStep, MarkStale, AttachReads, Attached, Start, RestoreFails, Restored,
        FirstSnapshot, FirstFails, session
  <2>3. QED
    BY <2>1, <2>2
<1>5. ASSUME NEW c \in Clients, ClientStep(c)
      PROVE  manifest'.status # "active"
  <2>1. ProcessOf[c] \in Processes /\ object[ProcessOf[c]] \in Manifests
    BY <1>3, StudioAssumption
  <2>2. call[c].at \in Inside => object[ProcessOf[c]].status = "stopped"
    BY <1>2, <2>1 DEF Together, OneAtATime
  <2>3. CASE ControlFails(c) \/ ReadSerial(c) \/ Crop(c)
    <3>1. manifest' = NextEvent(object[ProcessOf[c]]) /\ object[ProcessOf[c]].status = "stopped"
      BY <1>2, <2>1, <2>2, <2>3 DEF ControlFails, ReadSerial, Crop, Write, Inside
    <3>2. QED
      BY <2>1, <3>1, Counters
  <2>4. CASE Stop(c) \/ ResetStops(c)
    BY <2>1, <2>4, Counters DEF Stop, ResetStops, StopSession, Write
  <2>5. CASE Before(c) \/ Operate(c) \/ Capture(c)
    BY <2>2, <2>5 DEF Before, Operate, Capture, Reaches, Inside
  <2>6. CASE BeginControl(c) \/ BeginSnapshot(c) \/ CallFails(c) \/ ResetEnds(c)
    BY <2>6 DEF BeginControl, BeginSnapshot, Begin, CallFails, ResetEnds, session
  <2>7. CASE ResetStarts(c)
    BY <2>7 DEF ResetStarts, NoManifest
  <2>8. QED
    BY <1>5, <2>3, <2>4, <2>5, <2>6, <2>7 DEF ClientStep
<1>6. CASE RunReads \/ RunDiscards \/ RunUnlinks
  <2>1. manifest' = manifest \/ manifest' = NoManifest
    BY <1>6 DEF RunReads, RunDiscards, RunUnlinks, session
  <2>2. QED
    BY <2>1 DEF NoManifest
<1>7. CASE (\E g \in 1..Latest : GuestEnds(g)) \/ Over
  <2>1. manifest' = manifest
    BY <1>7 DEF GuestEnds, Over, vars, session
  <2>2. QED
    BY <2>1
<1>8. QED
  BY <1>4, <1>5, <1>6, <1>7 DEF Next

\* Processes that keep apart never show a stopped session active again, but for
\* another restore.  Processes that overlap do so only from a copy of the
\* manifest made before the stop: once no process has one, the session stays
\* stopped until it is discarded or restored.
THEOREM StopsLast == Spec => StoppedStays /\ RetiredStays
<1>1. SessionInv /\ [Next]_vars =>
        [(apart' /\ manifest.status = "stopped" /\ manifest'.status = "active")
         => manifest'.gen > manifest.gen]_vars
  BY NotRevived
<1>2. SessionInv /\ CopiesFit /\ [Next]_vars =>
        [Retired => Retired' \/ manifest' = NoManifest \/ manifest'.gen > manifest.gen]_vars
  BY RetiredStep
<1>3. QED
  BY <1>1, <1>2, OverlapKept, PTL DEF Spec, StoppedStays, RetiredStays
==============================================================================
