------------------------------ MODULE IsoCache ------------------------------
(***************************************************************************)
(* The cache of remote ISO images (image.py): one directory per URL, with  *)
(* the image, a partial download that a later call resumes, and a file     *)
(* whose lock lets one process at a time in.  Processes are killed at any  *)
(* point, the server replaces the file, ignores ranges, and ends transfers *)
(* early; the machine that asked opens the path some time after the call.  *)
(*                                                                         *)
(* A file is the sequence of its chunks, each of a version of the image;   *)
(* its digest is that sequence.                                            *)
(***************************************************************************)
EXTENDS Naturals, Sequences

CONSTANTS
  Procs,       \* the runs that need the image (each retries when it failed)
  Versions,    \* versions of the file on the server
  Length,      \* its length in chunks
  MaxFaults    \* bound: kills, failed requests, transfers cut short, releases

ASSUME IsoCacheAssumption ==
  /\ Length \in Nat \ {0} /\ MaxFaults \in Nat
  /\ "none" \notin Versions /\ "none" \notin Procs

VARIABLES
  served,      \* the version the server has
  image,       \* image.iso, None when there is none
  partial,     \* .image.part, <<>> when there is none
  legacy,      \* .image.<pid>.part of an older release
  manifest,    \* the digest in manifest.json
  lock,        \* the process that holds the lock
  want,        \* want[p]: the sha256 of its Machine, None when it gives none
  pc, digest, stream,   \* per process; stream is the version it is being sent
  opened,      \* what its machine read from the path it was given
  faults

disk == <<image, partial, legacy, manifest>>
local == <<digest, stream, opened>>
vars == <<served, disk, lock, want, pc, local, faults>>

None == <<"none">>
File(v) == [i \in 1..Length |-> v]
Contents == UNION {[1..n -> Versions] : n \in 0..Length}

TypeOK ==
  /\ served \in Versions
  /\ image \in Contents \cup {None} /\ manifest \in Contents \cup {None}
  /\ partial \in Contents /\ legacy \in Contents
  /\ lock \in Procs \cup {"none"}
  /\ want \in [Procs -> Contents \cup {None}]
  /\ pc \in [Procs -> {"idle", "lock", "check", "request", "stream", "verify",
                       "manifest", "return", "report", "ready", "done"}]
  /\ digest \in [Procs -> Contents]
  /\ \A p \in Procs : lock = p <=> pc[p] \notin {"idle", "lock", "ready", "done"}

\* What earlier runs, killed ones among them, and earlier releases have left.
Init ==
  /\ served \in Versions
  /\ image \in {None} \cup {File(v) : v \in Versions} \cup {<<v>> : v \in Versions}
  /\ partial = <<>> /\ legacy \in {<<>>} \cup {<<v>> : v \in Versions}
  /\ manifest = None /\ lock = "none"
  /\ want \in [Procs -> {None} \cup {File(v) : v \in Versions}]
  /\ pc = [p \in Procs |-> "idle"] /\ faults = 0
  /\ digest = [p \in Procs |-> <<>>] /\ stream = [p \in Procs |-> served]
  /\ opened = [p \in Procs |-> None]

Goto(p, to) == pc' = [pc EXCEPT ![p] = to]
Fault == faults < MaxFaults /\ faults' = faults + 1
------------------------------------------------------------------------------
\* resolve_iso: the call runs in a thread; a run that failed is started again.
Call(p) ==
  /\ pc[p] = "idle" /\ Goto(p, "lock")
  /\ UNCHANGED <<served, disk, lock, want, local, faults>>

\* Mutant of Free: nobody waits for the lock.
FreeAnyway == TRUE
Free == lock = "none"

Acquire(p) ==
  /\ pc[p] = "lock" /\ Free /\ lock' = p /\ Goto(p, "check")
  /\ UNCHANGED <<served, disk, want, local, faults>>

\* The finally clause: the lock is released however the call ends.
Release(p, to) == lock' = "none" /\ Goto(p, to)

Hit(p) ==
  /\ pc[p] = "check" /\ image # None /\ image = want[p]
  /\ digest' = [digest EXCEPT ![p] = image] /\ Goto(p, "return")
  /\ UNCHANGED <<served, disk, lock, want, stream, opened, faults>>

\* Without a sha256 the caller is told the digest of the image that is there.
NoDigest(p) ==
  /\ pc[p] = "check" /\ image # None /\ want[p] = None
  /\ digest' = [digest EXCEPT ![p] = image] /\ Goto(p, "report")
  /\ UNCHANGED <<served, disk, lock, want, stream, opened, faults>>

\* Any other image is removed; a partial file is resumed, its digest read first.
Miss(p) ==
  /\ pc[p] = "check" /\ (image = None \/ (want[p] # None /\ image # want[p]))
  /\ image' = None
  /\ IF partial = <<>> /\ legacy # <<>>
     THEN partial' = legacy /\ legacy' = <<>>
     ELSE UNCHANGED <<partial, legacy>>
  /\ digest' = [digest EXCEPT ![p] = partial'] /\ Goto(p, "request")
  /\ UNCHANGED <<served, manifest, lock, want, stream, opened, faults>>
------------------------------------------------------------------------------
(***************************************************************************)
(* _download_iso.                                                          *)
(***************************************************************************)
Respond(p) ==
  /\ pc[p] = "request" /\ Goto(p, "stream")
  /\ stream' = [stream EXCEPT ![p] = served]
  /\ \/ Len(partial) < Length /\ UNCHANGED <<partial, digest>>             \* 206, or 200 from nothing
     \/ partial # <<>> /\ partial' = <<>> /\ digest' = [digest EXCEPT ![p] = <<>>]   \* 200
  /\ UNCHANGED <<served, image, legacy, manifest, lock, want, opened, faults>>

\* 416: the server has no more than what is there.
NothingLeft(p) ==
  /\ pc[p] = "request" /\ Len(partial) = Length /\ Goto(p, "verify")
  /\ UNCHANGED <<served, disk, lock, want, local, faults>>

Chunk(p) ==
  /\ pc[p] = "stream" /\ Len(digest[p]) < Length /\ Len(partial) < Length
  /\ partial' = Append(partial, stream[p])
  /\ digest' = [digest EXCEPT ![p] = Append(@, stream[p])]
  /\ UNCHANGED <<served, image, legacy, manifest, lock, want, pc, stream, opened, faults>>

StreamEnds(p) ==
  /\ pc[p] = "stream" /\ (Len(digest[p]) = Length \/ Len(partial) = Length) /\ Goto(p, "verify")
  /\ UNCHANGED <<served, disk, lock, want, local, faults>>

\* A connection that is closed early reads like the end of the file.
StreamCut(p) ==
  /\ pc[p] = "stream" /\ Fault /\ Len(digest[p]) \in 1..Length - 1 /\ Goto(p, "verify")
  /\ UNCHANGED <<served, disk, lock, want, local>>

\* An error of the request or of a read: the partial file stays.
DownloadFails(p) ==
  /\ pc[p] \in {"request", "stream"} /\ Fault /\ Release(p, "idle")
  /\ UNCHANGED <<served, disk, want, local>>
------------------------------------------------------------------------------
\* Mutant of Discarded: the partial file of another image is kept.
DiscardedNever == partial
Discarded == <<>>

Mismatch(p) ==
  /\ pc[p] = "verify" /\ want[p] # None /\ digest[p] # want[p]
  /\ partial' = Discarded /\ Release(p, "idle")
  /\ UNCHANGED <<served, image, legacy, manifest, want, local, faults>>

\* Mutant of Matches: any complete download is taken.
MatchesComplete(p) == want[p] = None \/ Len(digest[p]) = Length
Matches(p) == want[p] \in {None, digest[p]}

Install(p) ==
  /\ pc[p] = "verify" /\ Matches(p)
  /\ image' = partial /\ partial' = <<>> /\ Goto(p, "manifest")
  /\ UNCHANGED <<served, legacy, manifest, lock, want, local, faults>>

WriteManifest(p) ==
  /\ pc[p] = "manifest" /\ manifest' = digest[p]
  /\ Goto(p, IF want[p] = None THEN "report" ELSE "return")
  /\ UNCHANGED <<served, image, partial, legacy, lock, want, local, faults>>

Return(p) ==
  /\ pc[p] = "return" /\ Release(p, "ready")
  /\ UNCHANGED <<served, disk, want, local, faults>>

\* The user adds the sha256 that the error told, and runs again.
Report(p) ==
  /\ pc[p] = "report" /\ Release(p, "idle")
  /\ want' = [want EXCEPT ![p] = digest[p]]
  /\ UNCHANGED <<served, disk, local, faults>>

\* QEMU opens the path that was returned.
OpenImage(p) ==
  /\ pc[p] = "ready" /\ Goto(p, "done")
  /\ opened' = [opened EXCEPT ![p] = image]
  /\ UNCHANGED <<served, disk, lock, want, digest, stream, faults>>
------------------------------------------------------------------------------
Kill(p) ==
  /\ pc[p] \notin {"idle", "ready", "done"} /\ Fault /\ Goto(p, "idle")
  /\ lock' = IF lock = p THEN "none" ELSE lock
  /\ UNCHANGED <<served, disk, want, local>>

NewRelease(v) ==
  /\ v # served /\ Fault /\ served' = v
  /\ UNCHANGED <<disk, lock, want, pc, local>>

Step(p) ==
  \/ Hit(p) \/ NoDigest(p) \/ Miss(p) \/ Respond(p) \/ NothingLeft(p) \/ Chunk(p)
  \/ StreamEnds(p) \/ Mismatch(p) \/ Install(p) \/ WriteManifest(p)
  \/ Return(p) \/ Report(p) \/ OpenImage(p)

Over == (\A p \in Procs : pc[p] = "done") /\ UNCHANGED vars

Next ==
  \/ \E p \in Procs : Call(p) \/ Acquire(p) \/ Step(p) \/ StreamCut(p) \/ DownloadFails(p) \/ Kill(p)
  \/ \E v \in Versions : NewRelease(v)
  \/ Over

\* Waiters of a lock get it in their turn; a run that failed is repeated.
Spec ==
  /\ Init /\ [][Next]_vars
  /\ \A p \in Procs : WF_vars(Call(p)) /\ SF_vars(Acquire(p)) /\ WF_vars(Step(p))
------------------------------------------------------------------------------
\* The digest a call accepts, or tells its caller, is that of the image it
\* leaves in the cache, whatever the others do and whoever was killed before.
TellsWhatIsThere == \A p \in Procs : pc[p] \in {"return", "report"} =>
  /\ image = digest[p]
  /\ pc[p] = "return" => image = want[p]

\* The cache and its callers keep their shape, and agree about the image.
CacheInv == TypeOK /\ TellsWhatIsThere

\* Unless another run names another sha256, a machine boots the image its run
\* has verified, although the path is opened after the lock is free.
BootsVerified ==
  \A p \in Procs :
    (\A q \in Procs : want[q] \in {None, want[p]}) => opened[p] \in {None, want[p]}

\* Every run whose sha256 is that of the file on the server gets its image in
\* the end: nothing that was left in the cache stands in its way for good.
Recovers == \A p \in Procs :
  <>[](want[p] # File(served)) \/ <>(pc[p] = "done")
==============================================================================
