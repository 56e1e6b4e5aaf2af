------------------------------- MODULE Studio -------------------------------
(***************************************************************************)
(* One Studio session (studio.py, studio_mcp.py) and the processes that    *)
(* use it: `catsnail studio` commands, which attach, do one thing and      *)
(* leave, and servers, which stay and serve several clients.  Beside them  *)
(* `catsnail run` clears old output (RunArtifacts.prepare).                *)
(*                                                                         *)
(* What the processes share is on disk: the session's directory, its       *)
(* manifest, frames and event log, and the sockets of its guests.  Each    *)
(* process keeps an object with its own copy of the manifest, read once    *)
(* when it attaches and written back whole whenever it saves something.    *)
(* A frame is described by its shot: the number of inputs the guest had    *)
(* received when it was taken.                                             *)
(***************************************************************************)
EXTENDS Integers, Sequences, FiniteSets

CONSTANTS
  Processes,   \* the processes that may attach or start
  Clients,     \* what issues calls in them
  ProcessOf,   \* ProcessOf[c]: the process of a client
  MaxCalls,    \* bound: calls, attachments, starts and runs begun
  MaxStarts    \* bound: restores of the checkpoint

Nobody == "nobody"   \* the holder of a lock that is free

ASSUME StudioAssumption ==
  /\ Nobody \notin Clients
  /\ ProcessOf \in [Clients -> Processes]
  /\ MaxCalls \in Nat /\ MaxStarts \in Nat

VARIABLES
  dir,       \* the session's directory: none, bare (no frames/) or full
  manifest,  \* session.json
  frames,    \* the files in frames/
  events,    \* the lines of events.jsonl
  guests,    \* one record per restore: its state and the inputs it received
  sockets,   \* the sockets of the latest guest that are on disk
  phase,     \* phase[p]: where process p is with its session
  object,    \* object[p]: its StudioSession
  lock,      \* lock[p]: the client that holds object[p]._lock
  call,      \* call[c]: what client c is doing
  seen,      \* seen[c]: the last image client c was given
  run,       \* where RunArtifacts.prepare is, and the sockets it will keep
  apart,     \* processes have never overlapped (see Overlaps)
  calls      \* calls begun

session == <<dir, manifest, frames, events>>
machine == <<guests, sockets>>
inside  == <<phase, object, lock, call, seen>>
vars == <<session, machine, inside, run, apart, calls>>

Kinds == {"vnc", "qmp", "serial"}
NoManifest == [status |-> "none", gen |-> 0, frame |-> 0, event |-> 0]
NoObject == NoManifest
NoCall == [op |-> "none", at |-> "idle", rev |-> 0, before |-> 0]
NoImage == [rev |-> 0, shot |-> 0, gen |-> 0]
Manifests == [status : {"none", "active", "stale", "stopped"},
              gen : Nat, frame : Nat, event : Nat]

\* The generation of a manifest, on disk or in an object, is that of a guest
\* that has been started.
TypeOK ==
  /\ dir \in {"none", "bare", "full"}
  /\ manifest \in Manifests /\ manifest.gen <= Len(guests)
  /\ \A f \in frames : f.id \in Nat \ {0} /\ f.shot \in Nat
  /\ \A i \in 1..Len(events) : events[i].id \in Nat \ {0}
  /\ \A i \in 1..Len(guests) :
       guests[i].state \in {"running", "dying", "dead", "lost"}
  /\ sockets \subseteq Kinds
  /\ phase \in [Processes -> {"out", "connect", "restore", "first", "open"}]
  /\ object \in [Processes -> Manifests]
  /\ \A p \in Processes : object[p].gen <= Len(guests)
  /\ \A p \in Processes : lock[p] \in {Nobody} \cup {c \in Clients : ProcessOf[c] = p}
  /\ \A c \in Clients : (call[c].at \in {"before", "operate", "after", "capture"})
                        => lock[ProcessOf[c]] = c
  /\ run.at \in {"idle", "discard", "unlink"} /\ run.kept \subseteq Kinds
  /\ apart \in BOOLEAN /\ calls \in 0..MaxCalls

Init ==
  /\ dir = "none" /\ manifest = NoManifest /\ frames = {} /\ events = <<>>
  /\ guests = <<>> /\ sockets = {}
  /\ phase = [p \in Processes |-> "out"] /\ object = [p \in Processes |-> NoObject]
  /\ lock = [p \in Processes |-> Nobody]
  /\ call = [c \in Clients |-> NoCall] /\ seen = [c \in Clients |-> NoImage]
  /\ run = [at |-> "idle", kept |-> {}]
  /\ apart = TRUE /\ calls = 0

Latest == Len(guests)
Alive(g) == g \in 1..Latest /\ guests[g].state \in {"running", "dying"}
MembersOf(p) == {c \in Clients : ProcessOf[c] = p}
AllIdle(p) == \A c \in MembersOf(p) : call[c] = NoCall
Begins == calls < MaxCalls /\ calls' = calls + 1

(***************************************************************************)
(* A process overlaps with another that has the session open, a restore    *)
(* with a `catsnail run` that is clearing old output.                      *)
(***************************************************************************)
Meets(p) == \E q \in Processes \ {p} : phase[q] # "out"
------------------------------------------------------------------------------
(***************************************************************************)
(* StudioSessionStore.write, _save_frame and _append_event.                *)
(***************************************************************************)
\* The object's copy replaces the manifest; a missing directory is made anew.
Write(o) ==
  /\ manifest' = o
  /\ dir' = IF dir = "none" THEN "bare" ELSE dir

\* A frame's file name is its number and its label.
Filed(id, label, shot) ==
  {f \in frames : ~(f.id = id /\ f.label = label)}
    \cup {[id |-> id, label |-> label, shot |-> shot]}

\* Mutant of NextFrame: the counter is not written back to the object.
NextFrameForgotten(o) == [o EXCEPT !.frame = IF @ = 0 THEN 1 ELSE @]

NextFrame(o) == [o EXCEPT !.frame = @ + 1]

NextEvent(o) == [o EXCEPT !.event = @ + 1]

Event(id, op, ok, after, shot) ==
  [id |-> id, op |-> op, ok |-> ok, after |-> after, shot |-> shot]

Free(p) == lock[p] = Nobody

\* The call ends: the lock is released and the client is idle again.
Return(c) ==
  /\ call' = [call EXCEPT ![c] = NoCall]
  /\ lock' = IF lock[ProcessOf[c]] = c THEN [lock EXCEPT ![ProcessOf[c]] = Nobody] ELSE lock

\* What the client of an image learns (_frame_response).
Shown(c, o, shot) == seen' = [seen EXCEPT ![c] = [rev |-> o.event, shot |-> shot, gen |-> o.gen]]
------------------------------------------------------------------------------
(***************************************************************************)
(* StudioSession.attach.  active() marks a session whose guest is gone.    *)
(***************************************************************************)
IsLive == Alive(manifest.gen) /\ "vnc" \in sockets

MarkStale(p) ==
  /\ phase[p] = "out" /\ manifest.status = "active" /\ ~IsLive
  /\ Write([manifest EXCEPT !.status = "stale"]) /\ Begins
  /\ UNCHANGED <<frames, events, machine, inside, run, apart>>

\* The manifest is read; connecting to the guests may take a while.
AttachReads(p) ==
  /\ phase[p] = "out" /\ manifest.status = "active" /\ Begins
  /\ phase' = [phase EXCEPT ![p] = "connect"]
  /\ object' = [object EXCEPT ![p] = manifest]
  /\ apart' = (apart /\ ~Meets(p))
  /\ UNCHANGED <<session, machine, lock, call, seen, run>>

Attached(p) ==
  /\ phase[p] = "connect"
  /\ \/ /\ Alive(object[p].gen) /\ "vnc" \in sockets
        /\ phase' = [phase EXCEPT ![p] = "open"] /\ UNCHANGED object
     \/ /\ phase' = [phase EXCEPT ![p] = "out"]
        /\ object' = [object EXCEPT ![p] = NoObject]
  /\ UNCHANGED <<session, machine, lock, call, seen, run, apart, calls>>

(***************************************************************************)
(* StudioSession.start, also from a reset: the object it replaces stays    *)
(* until the restore has succeeded.                                        *)
(***************************************************************************)
MayStart ==   \* the bound on restores
  Latest + Cardinality({p \in Processes : phase[p] = "restore"}
                       \cup {c \in Clients : call[c].at = "reset"}) < MaxStarts

Restoring(p) ==
  /\ phase' = [phase EXCEPT ![p] = "restore"] /\ dir' = "full"
  /\ apart' = (apart /\ ~Meets(p) /\ run.at = "idle")

Start(p) ==
  /\ phase[p] = "out" /\ dir = "none" /\ MayStart /\ Begins
  /\ Restoring(p)
  /\ UNCHANGED <<manifest, frames, events, machine, object, lock, call, seen, run>>

Failed(p) == phase' = [phase EXCEPT ![p] = IF object[p] = NoObject THEN "out" ELSE "open"]

\* The restore is outside the try of start: guests it has already started
\* stay, and so does the directory.
RestoreFails(p) ==
  /\ phase[p] = "restore" /\ Failed(p)
  /\ \/ UNCHANGED guests
     \/ guests' = Append(guests, [state |-> "lost", inputs |-> 0, by |-> p])
  /\ UNCHANGED <<session, sockets, object, lock, call, seen, run, apart, calls>>

\* The guest that p restored last.
Own(p) == CHOOSE g \in 1..Latest :
            guests[g].by = p /\ \A h \in g + 1..Latest : guests[h].by # p

Fresh(g) == [status |-> "active", gen |-> g, frame |-> 0, event |-> 0]

Restored(p) ==
  /\ phase[p] = "restore"
  /\ guests' = Append(guests, [state |-> "running", inputs |-> 0, by |-> p])
  /\ sockets' = Kinds
  /\ Write(Fresh(Latest + 1))
  /\ phase' = [phase EXCEPT ![p] = "first"]
  /\ UNCHANGED <<frames, events, object, lock, call, seen, run, apart, calls>>

\* The first snapshot, labelled "restored", then the header of the replay.
FirstSnapshot(p) ==
  /\ phase[p] = "first" /\ dir = "full" /\ Alive(Own(p))
  /\ LET o == NextEvent(NextFrame(Fresh(Own(p))))
         shot == guests[Own(p)].inputs
     IN /\ object' = [object EXCEPT ![p] = o] /\ Write(o)
        /\ frames' = Filed(o.frame, "snapshot", shot)
        /\ events' = Append(events, Event(o.event, "snapshot", TRUE, o.frame, shot))
  /\ phase' = [phase EXCEPT ![p] = "open"]
  /\ UNCHANGED <<machine, lock, call, seen, run, apart, calls>>

\* Mutant of FirstFails: only the directory is removed.
FirstFailsLeavesGuests(p) ==
  /\ phase[p] = "first" /\ Failed(p) /\ UNCHANGED machine
  /\ dir' = "none" /\ manifest' = NoManifest /\ frames' = {} /\ events' = <<>>
  /\ UNCHANGED <<object, lock, call, seen, run, apart, calls>>

\* The guests are disposed of and the directory is removed.
FirstFails(p) ==
  /\ phase[p] = "first" /\ Failed(p)
  /\ guests' = [guests EXCEPT ![Own(p)].state = "dead"] /\ sockets' = {}
  /\ dir' = "none" /\ manifest' = NoManifest /\ frames' = {} /\ events' = <<>>
  /\ UNCHANGED <<object, lock, call, seen, run, apart, calls>>

------------------------------------------------------------------------------
(***************************************************************************)
(* _control: a frame before, the input, a frame after, all under the lock. *)
(* rev is the revision a server's client expects, 0 for none.              *)
(***************************************************************************)
Accepts(o, rev) == rev \in {0, o.event}
Begin(c, op, at, rev) ==
  LET p == ProcessOf[c] IN
  /\ phase[p] = "open" /\ call[c] = NoCall /\ Free(p) /\ Begins
  /\ Accepts(object[p], rev)
  /\ lock' = [lock EXCEPT ![p] = c]
  /\ call' = [call EXCEPT ![c] = [op |-> op, at |-> at, rev |-> rev, before |-> 0]]
  /\ UNCHANGED <<session, machine, phase, object, seen, run, apart>>

\* The MCP tools ask for the revision of the last image, the other ways to
\* reach a control leave it to the client.
Expected(c) == {0, seen[c].rev}

BeginControl(c) == \E rev \in Expected(c) : Begin(c, "control", "before", rev)

BeginSnapshot(c) == Begin(c, "snapshot", "capture", 0)

\* The guest answers; stop has closed the connections of its own process.
Reaches(p) == object[p].status = "active" /\ Alive(object[p].gen)

Before(c) ==
  LET p == ProcessOf[c]  o == NextFrame(object[p]) IN
  /\ call[c].at = "before" /\ Reaches(p) /\ dir = "full"
  /\ frames' = Filed(o.frame, "before", guests[o.gen].inputs)
  /\ object' = [object EXCEPT ![p] = o] /\ Write(o)
  /\ call' = [call EXCEPT ![c].at = "operate", ![c].before = guests[o.gen].inputs]
  /\ UNCHANGED <<events, machine, phase, lock, seen, run, apart, calls>>

Input(g) == [guests EXCEPT ![g].inputs = @ + 1]

Operate(c) ==
  LET p == ProcessOf[c] IN
  /\ call[c].at = "operate" /\ Reaches(p)
  /\ guests' = Input(object[p].gen)
  /\ call' = [call EXCEPT ![c].at = "after"]
  /\ UNCHANGED <<session, sockets, phase, object, lock, seen, run, apart, calls>>

\* Mutant of ControlFails: a failure is not recorded.
ControlFailsSilently(c) ==
  LET p == ProcessOf[c] IN
  /\ call[c].at \in {"operate", "after"}
  /\ guests' \in IF call[c].at = "operate" /\ Reaches(p) THEN {guests, Input(object[p].gen)} ELSE {guests}
  /\ Return(c)
  /\ UNCHANGED <<session, sockets, phase, object, seen, run, apart, calls>>

\* An error or a cancellation after the first frame is an event too.
ControlFails(c) ==
  LET p == ProcessOf[c]  o == NextEvent(object[p]) IN
  /\ call[c].at \in {"operate", "after"}
  /\ guests' \in IF call[c].at = "operate" /\ Reaches(p) THEN {guests, Input(o.gen)} ELSE {guests}
  /\ events' = Append(events, Event(o.event, "control", FALSE, 0, 0))
  /\ object' = [object EXCEPT ![p] = o] /\ Write(o)
  /\ Return(c)
  /\ UNCHANGED <<frames, sockets, phase, seen, run, apart, calls>>

\* The last frame of a control, and the frame of snapshot and wait_stable.
Capture(c) ==
  LET p == ProcessOf[c]
      o == NextEvent(NextFrame(object[p]))
      shot == guests[o.gen].inputs IN
  /\ call[c].at \in {"after", "capture"} /\ Reaches(p) /\ dir = "full"
  /\ frames' = Filed(o.frame, call[c].op, shot)
  /\ events' = Append(events, Event(o.event, call[c].op, TRUE, o.frame, shot))
  /\ object' = [object EXCEPT ![p] = o] /\ Write(o)
  /\ Return(c) /\ Shown(c, o, shot)
  /\ UNCHANGED <<machine, phase, run, apart, calls>>

\* The first frame fails, wait_stable times out, or a caller is cancelled.
CallFails(c) ==
  /\ call[c].at \in {"before", "capture"} /\ Return(c)
  /\ UNCHANGED <<session, machine, phase, object, seen, run, apart, calls>>

\* serial under the lock; crop takes no lock and refers to a recorded frame.
ReadSerial(c) ==
  LET p == ProcessOf[c]  o == NextEvent(object[p]) IN
  /\ phase[p] = "open" /\ call[c] = NoCall /\ Free(p) /\ Begins
  /\ events' = Append(events, Event(o.event, "serial", TRUE, 0, 0))
  /\ object' = [object EXCEPT ![p] = o] /\ Write(o)
  /\ UNCHANGED <<frames, machine, phase, lock, call, seen, run, apart>>

Crop(c) ==
  LET p == ProcessOf[c]  o == NextEvent(object[p]) IN
  /\ phase[p] = "open" /\ call[c] = NoCall /\ Begins
  /\ \E f \in frames :
       events' = Append(events, Event(o.event, "crop", TRUE, f.id, f.shot))
  /\ object' = [object EXCEPT ![p] = o] /\ Write(o)
  /\ UNCHANGED <<frames, machine, phase, lock, call, seen, run, apart>>
------------------------------------------------------------------------------
(***************************************************************************)
(* stop, the end of a process, and reset.                                  *)
(***************************************************************************)
Terminated(g) ==
  IF g \in 1..Latest /\ guests[g].state = "running"
  THEN [guests EXCEPT ![g].state = "dying"] ELSE guests

Stopped(o) == [o EXCEPT !.status = "stopped"]
\* Mutant of StopSession: the object keeps the status it has read.
StopSessionOnDisk(p) ==
  /\ guests' = Terminated(object[p].gen)
  /\ Write(Stopped(object[p])) /\ UNCHANGED object

\* Only a SIGTERM is sent; nobody waits for the guest.
StopSession(p) ==
  /\ guests' = Terminated(object[p].gen)
  /\ object' = [object EXCEPT ![p] = Stopped(@)] /\ Write(Stopped(object[p]))

Stop(c) ==
  LET p == ProcessOf[c] IN
  /\ phase[p] = "open" /\ call[c] = NoCall /\ Free(p) /\ Begins
  /\ StopSession(p)
  /\ UNCHANGED <<frames, events, sockets, phase, lock, call, seen, run, apart>>

\* A command ends after its call, a server at the end of its input or when it
\* is interrupted; a standard-I/O or MCP server stops the session on its way.
Leave(p) ==
  /\ phase[p] = "open" /\ AllIdle(p)
  /\ phase' = [phase EXCEPT ![p] = "out"]
  /\ seen' = [c \in Clients |-> IF ProcessOf[c] = p THEN NoImage ELSE seen[c]]
  /\ \/ UNCHANGED <<guests, session>>
     \/ guests' = Terminated(object[p].gen) /\ Write(Stopped(object[p]))
        /\ UNCHANGED <<frames, events>>
  /\ object' = [object EXCEPT ![p] = NoObject]
  /\ UNCHANGED <<sockets, lock, call, run, apart, calls>>

\* One client owns a session that is reset (studio_reset, studio reset).
ResetStops(c) ==
  LET p == ProcessOf[c] IN
  /\ phase[p] = "open" /\ MembersOf(p) = {c} /\ call[c] = NoCall
  /\ MayStart /\ Begins
  /\ StopSession(p)
  /\ call' = [call EXCEPT ![c] = [NoCall EXCEPT !.op = "reset", !.at = "reset"]]
  /\ seen' = [seen EXCEPT ![c] = NoImage]
  /\ UNCHANGED <<frames, events, sockets, phase, lock, run, apart>>

\* rmtree, then start with the same id.
ResetStarts(c) ==
  LET p == ProcessOf[c] IN
  /\ call[c].at = "reset" /\ phase[p] = "open"
  /\ manifest' = NoManifest /\ frames' = {} /\ events' = <<>>
  /\ Restoring(p)
  /\ call' = [call EXCEPT ![c].at = "restart"]
  /\ UNCHANGED <<machine, object, lock, seen, run, calls>>

ResetEnds(c) ==
  /\ call[c].at = "restart" /\ phase[ProcessOf[c]] = "open" /\ Return(c)
  /\ UNCHANGED <<session, machine, phase, object, seen, run, apart, calls>>
------------------------------------------------------------------------------
(***************************************************************************)
(* RunArtifacts.prepare of a `catsnail run`, in its three passes, and the  *)
(* guests, which may end at any time and remove their sockets.             *)
(***************************************************************************)
Listed == {"vnc", "qmp"}    \* _machine_manifest names no serial socket

RunReads ==
  /\ run.at = "idle" /\ Begins
  /\ run' = [at |-> "discard",
             kept |-> IF manifest.status = "active" /\ Alive(manifest.gen)
                      THEN Listed ELSE {}]
  /\ apart' = (apart /\ \A p \in Processes : phase[p] # "restore")
  /\ UNCHANGED <<session, machine, inside>>

Discards == manifest = NoManifest \/ (~Alive(manifest.gen) /\ run.kept = {})

RunDiscards ==
  /\ run.at = "discard" /\ run' = [run EXCEPT !.at = "unlink"]
  /\ IF dir # "none" /\ Discards
     THEN dir' = "none" /\ manifest' = NoManifest /\ frames' = {} /\ events' = <<>>
     ELSE UNCHANGED session
  /\ UNCHANGED <<machine, inside, apart, calls>>

RunUnlinks ==
  /\ run.at = "unlink" /\ run' = [at |-> "idle", kept |-> {}]
  /\ sockets' = sockets \cap run.kept
  /\ UNCHANGED <<session, guests, inside, apart, calls>>

GuestEnds(g) ==
  /\ Alive(g) /\ guests' = [guests EXCEPT ![g].state = "dead"]
  /\ sockets' \in IF g = Latest THEN {sockets, {}} ELSE {sockets}
  /\ UNCHANGED <<session, inside, run, apart, calls>>

Over == calls = MaxCalls /\ (\A p \in Processes : phase[p] = "out") /\ UNCHANGED vars
ProcessStep(p) ==
  \/ MarkStale(p) \/ AttachReads(p) \/ Attached(p) \/ Start(p) \/ RestoreFails(p)
  \/ Restored(p) \/ FirstSnapshot(p) \/ FirstFails(p) \/ Leave(p)
ClientStep(c) ==
  \/ BeginControl(c) \/ BeginSnapshot(c) \/ Before(c) \/ Operate(c) \/ ControlFails(c)
  \/ Capture(c) \/ CallFails(c) \/ ReadSerial(c) \/ Crop(c)
  \/ Stop(c) \/ ResetStops(c) \/ ResetStarts(c) \/ ResetEnds(c)
Next ==
  \/ \E p \in Processes : ProcessStep(p)
  \/ \E c \in Clients : ClientStep(c)
  \/ RunReads \/ RunDiscards \/ RunUnlinks
  \/ \E g \in 1..Latest : GuestEnds(g)
  \/ Over
Spec == Init /\ [][Next]_vars
------------------------------------------------------------------------------
(***************************************************************************)
(* Properties of processes that keep apart.                                *)
(***************************************************************************)
\* Every event of the log has a number of its own, in the order of the log:
\* the counters survive the processes that carry them from call to call
\* (_next_event, attach), and a failed or unlocked call loses none.
LogInOrder ==
  apart => \A i, j \in 1..Len(events) : i < j => events[i].id < events[j].id

\* What emit copies: for each call that succeeded and left a frame, a file that
\* bears the frame's number.  Crops belong to no machine and are passed over.
Draft == {pair \in (1..Len(events)) \X frames :
            LET e == events[pair[1]] IN e.ok /\ e.op # "crop" /\ e.after = pair[2].id}

\* The draft that emit writes asserts, after each call, the screen that call
\* left: whichever file bears the frame number of its event shows it.
DraftFaithful ==
  apart => \A pair \in Draft : pair[2].shot = events[pair[1]].shot

\* The log of a session: its events in order, and the frames they name.
StudioInv == TypeOK /\ LogInOrder /\ DraftFaithful

\* An input that names a revision reaches the guest only if that guest has had
\* no other input since the image the client was given, whatever the server's
\* other clients did, failed to do or reset in between (_check_revision).
RevisionExact ==
  apart => \A c \in Clients :
             (call[c].at = "operate" /\ call[c].rev # 0)
             => /\ seen[c].gen = object[ProcessOf[c]].gen
                /\ guests[seen[c].gen].inputs = seen[c].shot

\* A session that was stopped is not shown active again, unless its checkpoint
\* has been restored again (stop, _manifest_payload).
StoppedStays ==
  [][(apart' /\ manifest.status = "stopped" /\ manifest'.status = "active")
     => manifest'.gen > manifest.gen]_vars

\* A guest that runs can be found and stopped: a manifest on disk lists it as
\* active and its screen can be reached, or the process that restored it is
\* still answerable for it.  Guests lost by a restore that failed half-way are
\* the exception (RestoreFails).
NothingUnreachable ==
  apart => \A g \in 1..Latest : guests[g].state = "running" =>
             \/ manifest.status = "active" /\ manifest.gen = g /\ "vnc" \in sockets
             \/ \E p \in Processes : phase[p] = "first" /\ g = Own(p)

(***************************************************************************)
(* Properties of processes that overlap too.                               *)
(***************************************************************************)
\* A guest of a restore that failed half-way is out of reach for good: no
\* manifest and no object names it, so neither stop nor the end of a process
\* terminates it (start restores outside its try).
LostForGood ==
  \A g \in 1..Latest : guests[g].state = "lost" =>
    /\ manifest.gen # g
    /\ \A p \in Processes : object[p].gen # g /\ (phase[p] = "first" => Own(p) # g)

\* The session is stopped and no process has a copy of its manifest that still
\* says active, or is about to make one.
Retired ==
  /\ manifest.status = "stopped"
  /\ \A p \in Processes : phase[p] # "first" /\ object[p].status # "active"

\* Then it stays so until it is discarded or its checkpoint restored again: a
\* stopped session comes back only from a copy made before it was stopped
\* (attach, _manifest_payload).
RetiredStays ==
  [][Retired => Retired' \/ manifest' = NoManifest \/ manifest'.gen > manifest.gen]_vars

(***************************************************************************)
(* What a test and the README say of the program.                          *)
(***************************************************************************)
\* A `catsnail run` leaves an active session all the sockets of its guests
\* (tests/test_qemu.py, test_prepare_preserves_an_active_studio_session).
SocketsPreserved ==
  \A g \in 1..Latest :
    (apart /\ guests[g].state = "running" /\ manifest.status = "active" /\ manifest.gen = g)
    => sockets = Kinds
==============================================================================
