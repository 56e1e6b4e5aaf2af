--------------------------- MODULE IsoCacheProofs ---------------------------
(***************************************************************************)
(* Proofs about IsoCache: any number of runs, versions of the file, chunks *)
(* and faults.                                                             *)
(***************************************************************************)
EXTENDS IsoCache, SequenceTheorems, TLAPS

------------------------------------------------------------------------------
(* Files *)

LEMMA ContentsAreSeqs ==
  \A s : s \in Contents <=> s \in Seq(Versions) /\ Len(s) <= Length
<1>1. ASSUME NEW s \in Contents
      PROVE  s \in Seq(Versions) /\ Len(s) <= Length
  <2>1. PICK n \in 0..Length : s \in [1..n -> Versions]
    BY DEF Contents
  <2>2. n \in Nat /\ n <= Length
    BY IsoCacheAssumption
  <2>3. QED
    BY <2>1, <2>2
<1>2. ASSUME NEW s \in Seq(Versions), Len(s) <= Length
      PROVE  s \in Contents
  <2>1. Len(s) \in 0..Length /\ s \in [1..Len(s) -> Versions]
    BY <1>2, IsoCacheAssumption
  <2>2. QED
    BY <2>1 DEF Contents
<1>3. QED
  BY <1>1, <1>2

LEMMA FilesAreContents ==
  /\ <<>> \in Contents /\ None \notin Contents
  /\ \A v \in Versions : File(v) \in Contents /\ <<v>> \in Contents
  /\ \A s \in Contents, v \in Versions : Len(s) < Length => Append(s, v) \in Contents
<1>1. <<>> \in Contents
  <2>1. <<>> \in Seq(Versions) /\ Len(<<>>) <= Length
    BY IsoCacheAssumption
  <2>2. QED
    BY <2>1, ContentsAreSeqs, Zenon
<1>2. None \notin Contents
  <2>1. None \in Seq(Versions) => "none" \in Versions
    BY DEF None
  <2>2. QED
    BY <2>1, ContentsAreSeqs, IsoCacheAssumption
<1>3. ASSUME NEW v \in Versions
      PROVE  File(v) \in Contents /\ <<v>> \in Contents
  <2>1. Length \in 0..Length /\ File(v) \in [1..Length -> Versions]
    BY IsoCacheAssumption DEF File
  <2>2. File(v) \in Contents
    BY <2>1 DEF Contents
  <2>3. <<v>> \in Seq(Versions) /\ Len(<<v>>) <= Length
    BY IsoCacheAssumption
  <2>4. QED
    BY <2>2, <2>3, ContentsAreSeqs
<1>4. ASSUME NEW s \in Contents, NEW v \in Versions, Len(s) < Length
      PROVE  Append(s, v) \in Contents
  <2>1. s \in Seq(Versions)
    BY ContentsAreSeqs
  <2>2. Append(s, v) \in Seq(Versions) /\ Len(Append(s, v)) = Len(s) + 1 /\ Len(s) \in Nat
    BY <2>1
  <2>3. Len(Append(s, v)) <= Length
    BY <1>4, <2>2, IsoCacheAssumption
  <2>4. QED
    BY <2>2, <2>3, ContentsAreSeqs, Zenon
<1>5. QED
  BY <1>1, <1>2, <1>3, <1>4

------------------------------------------------------------------------------
(* The inductive invariant *)

LocalTypeOK ==
  /\ stream \in [Procs -> Versions]
  /\ opened \in [Procs -> Contents \cup {None}]

\* What the process in the lock knows about the disk: while it downloads there
\* is no image, and the digest it keeps is that of the partial file.
KnowsDisk ==
  \A p \in Procs :
    /\ pc[p] \in {"request", "stream", "verify"} => image = None /\ digest[p] = partial
    /\ pc[p] = "manifest" => image = digest[p] /\ want[p] \in {None, digest[p]}
    /\ pc[p] \in {"return", "report"} => image = digest[p]
    /\ pc[p] = "return" => image = want[p]
    /\ pc[p] = "report" => want[p] = None

\* Another run names another digest.
Rivals(p) == \E q \in Procs : want[q] \notin {None, want[p]}

\* What a run has verified is there when its machine opens it, and was when it
\* did, unless a rival took it away.
Verified ==
  \A p \in Procs :
    /\ pc[p] \in {"ready", "done"} => want[p] # None
    /\ pc[p] = "ready" => Rivals(p) \/ image = want[p]
    /\ opened[p] # None => pc[p] = "done" /\ (Rivals(p) \/ opened[p] = want[p])

ImageInv == TypeOK /\ LocalTypeOK /\ KnowsDisk /\ Verified

LEMMA ImageInit == Init => ImageInv
<1> SUFFICES ASSUME Init
             PROVE  ImageInv
  OBVIOUS
<1> USE DEF Init
<1>1. TypeOK
  <2>1. image \in Contents \cup {None} /\ manifest \in Contents \cup {None}
        /\ partial \in Contents /\ legacy \in Contents
    BY FilesAreContents
  <2>2. {None} \cup {File(v) : v \in Versions} \subseteq Contents \cup {None}
    BY FilesAreContents
  <2>3. want \in [Procs -> Contents \cup {None}] /\ digest \in [Procs -> Contents]
    BY <2>2, FilesAreContents
  <2>4. QED
    BY <2>1, <2>3, IsoCacheAssumption DEF TypeOK
<1>2. LocalTypeOK
  BY DEF LocalTypeOK
<1>3. KnowsDisk /\ Verified
  BY DEF KnowsDisk, Verified
<1>4. QED
  BY <1>1, <1>2, <1>3 DEF ImageInv

\* The lock lets one process at a time in.
LEMMA Alone ==
  ASSUME ImageInv, NEW p \in Procs, pc[p] \notin {"idle", "lock", "ready", "done"}
  PROVE  lock = p /\ \A q \in Procs \ {p} : pc[q] \in {"idle", "lock", "ready", "done"}
BY DEF ImageInv, TypeOK

------------------------------------------------------------------------------
(* A step of a process leaves the others where they are.                   *)

Moves(p, to) ==
  /\ to \in {"idle", "lock", "check", "request", "stream", "verify", "manifest", "return",
             "report", "ready", "done"}
  /\ pc' = [pc EXCEPT ![p] = to]

\* The lock goes with the section it protects.
LEMMA MoveType ==
  ASSUME ImageInv, NEW p \in Procs, NEW to, Moves(p, to),
         served' \in Versions, want' \in [Procs -> Contents \cup {None}],
         image' \in Contents \cup {None}, manifest' \in Contents \cup {None},
         partial' \in Contents, legacy' \in Contents, digest' \in [Procs -> Contents],
         \/ /\ lock' = lock
            /\ pc[p] \in {"idle", "lock", "ready", "done"} <=> to \in {"idle", "lock", "ready", "done"}
         \/ lock = "none" /\ lock' = p /\ to \notin {"idle", "lock", "ready", "done"}
         \/ lock = p /\ lock' = "none" /\ to \in {"idle", "lock", "ready", "done"}
  PROVE  TypeOK'
<1>1. pc' \in [Procs -> {"idle", "lock", "check", "request", "stream", "verify",
                         "manifest", "return", "report", "ready", "done"}]
  BY DEF Moves, ImageInv, TypeOK
<1>2. pc'[p] = to /\ \A q \in Procs \ {p} : pc'[q] = pc[q]
  BY DEF Moves, ImageInv, TypeOK
<1>3. lock' \in Procs \cup {"none"}
  BY DEF ImageInv, TypeOK
<1>4. \A q \in Procs : lock = q <=> pc[q] \notin {"idle", "lock", "ready", "done"}
  BY DEF ImageInv, TypeOK
<1>5. \A q \in Procs : lock' = q <=> pc'[q] \notin {"idle", "lock", "ready", "done"}
  BY <1>2, <1>3, <1>4, IsoCacheAssumption
<1>6. QED
  BY <1>1, <1>3, <1>5 DEF TypeOK

LEMMA MoveKnows ==
  ASSUME ImageInv, NEW p \in Procs, NEW to, Moves(p, to),
         UNCHANGED <<image, partial>> \/ pc[p] \notin {"idle", "lock", "ready", "done"},
         \A q \in Procs \ {p} : digest'[q] = digest[q] /\ want'[q] = want[q],
         to \in {"request", "stream", "verify"} => image' = None /\ digest'[p] = partial',
         to = "manifest" => image' = digest'[p] /\ want'[p] \in {None, digest'[p]},
         to \in {"return", "report"} => image' = digest'[p],
         to = "return" => image' = want'[p],
         to = "report" => want'[p] = None
  PROVE  KnowsDisk'
<1>1. pc'[p] = to /\ \A q \in Procs \ {p} : pc'[q] = pc[q]
  BY DEF Moves, ImageInv, TypeOK
<1>2. ASSUME NEW q \in Procs \ {p}, pc[q] \notin {"idle", "lock", "ready", "done"}
      PROVE  UNCHANGED <<image, partial>>
  BY <1>2, Alone
<1>3. QED
  BY <1>1, <1>2 DEF KnowsDisk, ImageInv

\* A sha256 is given once, so a rival stays one; and who removes or replaces the
\* image another run has verified is its rival.
LEMMA MoveVerified ==
  ASSUME ImageInv, NEW p \in Procs, NEW to, Moves(p, to),
         \A q \in Procs : want[q] # None => want'[q] = want[q],
         \A q \in Procs \ {p} : want'[q] = want[q] /\ opened'[q] = opened[q],
         image' = image \/ image = None \/ (want[p] # None /\ image # want[p]),
         to \in {"ready", "done"} => want'[p] # None,
         to = "ready" => image' = want'[p],
         opened'[p] # None => to = "done" /\ (Rivals(p)' \/ opened'[p] = want'[p])
  PROVE  Verified'
<1>1. pc'[p] = to /\ \A q \in Procs \ {p} : pc'[q] = pc[q]
  BY DEF Moves, ImageInv, TypeOK
<1>2. ASSUME NEW q \in Procs, want[q] # None, Rivals(q)
      PROVE  Rivals(q)'
  <2>1. PICK r \in Procs : want[r] \notin {None, want[q]}
    BY <1>2 DEF Rivals
  <2>2. want'[r] = want[r] /\ want'[q] = want[q]
    BY <1>2, <2>1
  <2>3. QED
    BY <2>1, <2>2 DEF Rivals
<1>3. ASSUME NEW q \in Procs \ {p}
      PROVE  /\ pc'[q] \in {"ready", "done"} => want'[q] # None
             /\ pc'[q] = "ready" => Rivals(q)' \/ image' = want'[q]
             /\ opened'[q] # None => pc'[q] = "done" /\ (Rivals(q)' \/ opened'[q] = want'[q])
  <2>1. pc[q] \in {"ready", "done"} => want[q] # None
    BY DEF ImageInv, Verified
  <2>2. pc[q] = "ready" => Rivals(q) \/ image = want[q]
    BY DEF ImageInv, Verified
  <2>3. opened[q] # None => pc[q] = "done" /\ (Rivals(q) \/ opened[q] = want[q])
    BY DEF ImageInv, Verified
  <2>4. ASSUME pc[q] = "ready", image = want[q]
        PROVE  Rivals(q) \/ image' = want[q]
    BY <2>1, <2>4 DEF Rivals
  <2>5. QED
    BY <1>1, <1>2, <2>1, <2>2, <2>3, <2>4
<1>4. QED
  BY <1>1, <1>3 DEF Verified

------------------------------------------------------------------------------
(* The steps *)

\* The call waits for the lock and gets it.
LEMMA CallKeeps ==
  ASSUME ImageInv, NEW p \in Procs, Call(p) \/ Acquire(p)
  PROVE  ImageInv'
<1> DEFINE to == IF pc[p] = "idle" THEN "lock" ELSE "check"
<1>1. Moves(p, to) /\ UNCHANGED <<served, image, partial, legacy, manifest, want, digest, stream, opened>>
  BY DEF Call, Acquire, Goto, Moves, disk, local
<1>2. TypeOK'
  BY <1>1, MoveType DEF Call, Acquire, Free, ImageInv, TypeOK
<1>3. KnowsDisk'
  BY <1>1, MoveKnows
<1>4. Verified'
  BY <1>1, MoveVerified DEF Call, Acquire, ImageInv, Verified
<1>5. QED
  BY <1>1, <1>2, <1>3, <1>4 DEF ImageInv, LocalTypeOK

\* The call finds an image, or prepares to download one.
LEMMA CheckKeeps ==
  ASSUME ImageInv, NEW p \in Procs, Hit(p) \/ NoDigest(p) \/ Miss(p)
  PROVE  ImageInv'
<1> DEFINE to == IF Hit(p) THEN "return" ELSE IF NoDigest(p) THEN "report" ELSE "request"
<1>0. Hit(p) => ~NoDigest(p) /\ ~Miss(p)
  BY DEF Hit, NoDigest, Miss, ImageInv, TypeOK
<1>1. pc[p] = "check" /\ Moves(p, to)
      /\ UNCHANGED <<served, manifest, lock, want, stream, opened>>
  BY DEF Hit, NoDigest, Miss, Goto, Moves, disk
<1>2. image' \in Contents \cup {None} /\ partial' \in Contents /\ legacy' \in Contents
  BY FilesAreContents DEF Hit, NoDigest, Miss, disk, ImageInv, TypeOK
<1>3. digest' \in [Procs -> Contents] /\ \A q \in Procs \ {p} : digest'[q] = digest[q]
  BY <1>2 DEF Hit, NoDigest, Miss, ImageInv, TypeOK
<1>4. TypeOK'
  BY <1>1, <1>2, <1>3, MoveType DEF ImageInv, TypeOK
<1>5. digest'[p] = IF to = "request" THEN partial' ELSE image
  BY DEF Hit, NoDigest, Miss, ImageInv, TypeOK
<1>6. KnowsDisk'
  BY <1>1, <1>3, <1>5, MoveKnows DEF Hit, NoDigest, Miss, disk
<1>7. Verified'
  BY <1>1, MoveVerified DEF Hit, NoDigest, Miss, disk, ImageInv, Verified
<1>8. QED
  BY <1>1, <1>4, <1>6, <1>7 DEF ImageInv, LocalTypeOK

\* The download: only the partial file changes, and the digest with it.
LEMMA DownloadKeeps ==
  ASSUME ImageInv, NEW p \in Procs,
         Respond(p) \/ NothingLeft(p) \/ Chunk(p) \/ StreamEnds(p) \/ StreamCut(p)
  PROVE  ImageInv'
<1> DEFINE to == IF Respond(p) \/ Chunk(p) THEN "stream" ELSE "verify"
<1>1. pc[p] \in {"request", "stream"} /\ Moves(p, to)
      /\ UNCHANGED <<served, image, legacy, manifest, lock, want, opened>>
  BY DEF Respond, NothingLeft, Chunk, StreamEnds, StreamCut, Goto, Moves, disk, local, ImageInv, TypeOK
<1>2. image = None /\ digest[p] = partial
  BY <1>1 DEF ImageInv, KnowsDisk
<1>3. stream' \in [Procs -> Versions]
  BY DEF Respond, NothingLeft, Chunk, StreamEnds, StreamCut, disk, local, ImageInv, TypeOK, LocalTypeOK
<1>4. partial' \in Contents /\ digest' \in [Procs -> Contents] /\ digest'[p] = partial'
      /\ \A q \in Procs \ {p} : digest'[q] = digest[q]
  <2>1. CASE Respond(p)
    BY <1>2, <2>1, FilesAreContents DEF Respond, ImageInv, TypeOK
  <2>2. CASE Chunk(p)
    <3>1. Append(partial, stream[p]) \in Contents
      BY <2>2, FilesAreContents DEF Chunk, ImageInv, TypeOK, LocalTypeOK
    <3>2. QED
      BY <1>2, <2>2, <3>1 DEF Chunk, ImageInv, TypeOK
  <2>3. CASE NothingLeft(p) \/ StreamEnds(p) \/ StreamCut(p)
    BY <1>2, <2>3 DEF NothingLeft, StreamEnds, StreamCut, disk, local, ImageInv, TypeOK
  <2>4. QED
    BY <2>1, <2>2, <2>3
<1>5. TypeOK'
  BY <1>1, <1>4, MoveType DEF ImageInv, TypeOK
<1>6. KnowsDisk'
  BY <1>1, <1>2, <1>4, MoveKnows
<1>7. Verified'
  BY <1>1, MoveVerified DEF ImageInv, Verified
<1>8. QED
  BY <1>1, <1>3, <1>5, <1>6, <1>7 DEF ImageInv, LocalTypeOK

\* The download is installed or thrown away, its digest noted.
LEMMA InstallKeeps ==
  ASSUME ImageInv, NEW p \in Procs, Mismatch(p) \/ Install(p) \/ WriteManifest(p)
  PROVE  ImageInv'
<1> DEFINE to == IF Mismatch(p) THEN "idle" ELSE IF Install(p) THEN "manifest"
                 ELSE IF want[p] = None THEN "report" ELSE "return"
<1>0. Mismatch(p) => ~Install(p)
  BY DEF Mismatch, Install, Matches
<1>1. pc[p] \in {"verify", "manifest"} /\ Moves(p, to) /\ lock = p
      /\ UNCHANGED <<served, legacy, want, digest, stream, opened>>
  BY <1>0, Alone DEF Mismatch, Install, WriteManifest, Release, Goto, Moves, local
<1>2. digest[p] \in Contents /\ None \notin Contents
  BY FilesAreContents DEF ImageInv, TypeOK
<1>3. /\ pc[p] = "verify" => image = None /\ digest[p] = partial
      /\ pc[p] = "manifest" => image = digest[p] /\ want[p] \in {None, digest[p]}
  BY DEF ImageInv, KnowsDisk
<1>4. image' \in Contents \cup {None} /\ partial' \in Contents /\ manifest' \in Contents \cup {None}
  BY <1>2, FilesAreContents DEF Mismatch, Install, WriteManifest, Discarded, ImageInv, TypeOK
<1>5. TypeOK'
  BY <1>1, <1>4, MoveType DEF Mismatch, Install, WriteManifest, Release, ImageInv, TypeOK
<1>6. KnowsDisk'
  BY <1>0, <1>1, <1>2, <1>3, MoveKnows DEF Mismatch, Install, WriteManifest, Matches
<1>7. Verified'
  BY <1>1, <1>3, MoveVerified DEF Mismatch, Install, WriteManifest, ImageInv, Verified
<1>8. QED
  BY <1>1, <1>5, <1>6, <1>7 DEF ImageInv, LocalTypeOK

\* The call ends: with the image, or with the digest the user had not given.
LEMMA ReturnKeeps ==
  ASSUME ImageInv, NEW p \in Procs, Return(p) \/ Report(p)
  PROVE  ImageInv'
<1> DEFINE to == IF Return(p) THEN "ready" ELSE "idle"
<1>1. pc[p] \in {"return", "report"} /\ Moves(p, to) /\ lock = p
      /\ UNCHANGED <<served, image, partial, legacy, manifest, digest, stream, opened>>
  BY Alone DEF Return, Report, Release, Goto, Moves, disk, local
<1>2. digest[p] \in Contents /\ None \notin Contents /\ lock' = "none"
  BY FilesAreContents DEF Return, Report, Release, ImageInv, TypeOK
<1>3. image = digest[p] /\ (pc[p] = "return" => image = want[p])
  BY <1>1 DEF ImageInv, KnowsDisk
<1>4. want' \in [Procs -> Contents \cup {None}] /\ \A q \in Procs \ {p} : want'[q] = want[q]
  BY <1>2 DEF Return, Report, ImageInv, TypeOK
<1>5. TypeOK'
  BY <1>1, <1>2, <1>4, MoveType DEF ImageInv, TypeOK
<1>6. KnowsDisk'
  BY <1>1, <1>4, MoveKnows
<1>7. Verified'
  <2>1. \A q \in Procs : want[q] # None => want'[q] = want[q]
    BY <1>1, <1>3, <1>4 DEF Return, Report, ImageInv, KnowsDisk, TypeOK
  <2>2. QED
    BY <1>1, <1>2, <1>3, <1>4, <2>1, MoveVerified DEF Return, Report, ImageInv, Verified
<1>8. QED
  BY <1>1, <1>5, <1>6, <1>7 DEF ImageInv, LocalTypeOK

\* The machine opens what is at the path.
LEMMA OpenKeeps ==
  ASSUME ImageInv, NEW p \in Procs, OpenImage(p)
  PROVE  ImageInv'
<1>1. pc[p] = "ready" /\ Moves(p, "done")
      /\ UNCHANGED <<served, image, partial, legacy, manifest, lock, want, digest, stream>>
  BY DEF OpenImage, Goto, Moves, disk
<1>2. opened' \in [Procs -> Contents \cup {None}] /\ opened'[p] = image
      /\ \A q \in Procs \ {p} : opened'[q] = opened[q]
  BY DEF OpenImage, ImageInv, TypeOK, LocalTypeOK
<1>3. TypeOK'
  BY <1>1, MoveType DEF ImageInv, TypeOK
<1>4. KnowsDisk'
  BY <1>1, MoveKnows
<1>5. want[p] # None /\ (Rivals(p) \/ image = want[p]) /\ Rivals(p)' = Rivals(p)
  BY <1>1 DEF ImageInv, Verified, Rivals
<1>6. Verified'
  BY <1>1, <1>2, <1>5, MoveVerified
<1>7. QED
  BY <1>1, <1>2, <1>3, <1>4, <1>6 DEF ImageInv, LocalTypeOK

\* A request that fails, and a kill, leave the disk as it is.
LEMMA FaultKeeps ==
  ASSUME ImageInv, NEW p \in Procs, DownloadFails(p) \/ Kill(p)
  PROVE  ImageInv'
<1>1. pc[p] \notin {"idle", "ready", "done"} /\ Moves(p, "idle")
      /\ UNCHANGED <<served, image, partial, legacy, manifest, want, digest, stream, opened>>
  BY DEF DownloadFails, Kill, Release, Goto, Moves, disk, local
<1>2. IF pc[p] = "lock" THEN lock' = lock ELSE lock = p /\ lock' = "none"
  BY <1>1, Alone DEF DownloadFails, Kill, Release, ImageInv, TypeOK
<1>3. TypeOK'
  BY <1>1, <1>2, MoveType DEF ImageInv, TypeOK
<1>4. KnowsDisk'
  BY <1>1, MoveKnows
<1>5. Verified'
  BY <1>1, MoveVerified DEF ImageInv, Verified
<1>6. QED
  BY <1>1, <1>3, <1>4, <1>5 DEF ImageInv, LocalTypeOK

LEMMA ImageStep == ImageInv /\ [Next]_vars => ImageInv'
<1> SUFFICES ASSUME ImageInv, [Next]_vars
             PROVE  ImageInv'
  OBVIOUS
<1>1. ASSUME NEW p \in Procs,
             Call(p) \/ Acquire(p) \/ Step(p) \/ StreamCut(p) \/ DownloadFails(p) \/ Kill(p)
      PROVE  ImageInv'
  BY <1>1, CallKeeps, CheckKeeps, DownloadKeeps, InstallKeeps, ReturnKeeps, OpenKeeps, FaultKeeps
     DEF Step
<1>2. CASE (\E v \in Versions : NewRelease(v)) \/ UNCHANGED vars
  <2>1. served' \in Versions
        /\ UNCHANGED <<image, partial, legacy, manifest, lock, want, pc, digest, stream, opened>>
    BY <1>2 DEF NewRelease, vars, disk, local, ImageInv, TypeOK
  <2>2. TypeOK' /\ LocalTypeOK'
    BY <2>1 DEF ImageInv, TypeOK, LocalTypeOK
  <2>3. KnowsDisk' /\ Verified'
    BY <2>1 DEF ImageInv, KnowsDisk, Verified, Rivals
  <2>4. QED
    BY <2>2, <2>3 DEF ImageInv
<1>3. QED
  BY <1>1, <1>2 DEF Next, Over

LEMMA ImageInvariance == Spec => []ImageInv
BY ImageInit, ImageStep, PTL DEF Spec

(***************************************************************************)
(* However many runs share the cache, and whichever of them are killed at  *)
(* whatever point: what a call has accepted, or tells its caller, is the   *)
(* digest of the image it leaves there (image.py, resolve_iso).            *)
(***************************************************************************)
THEOREM CacheCorrect == Spec => []CacheInv
<1>1. ImageInv => CacheInv
  BY DEF ImageInv, KnowsDisk, CacheInv, TellsWhatIsThere
<1>2. QED
  BY <1>1, ImageInvariance, PTL

(***************************************************************************)
(* Unless another run names another sha256, a machine boots what its run   *)
(* has verified, although QEMU opens the path after the lock is free       *)
(* (image.py, resolve_iso; qemu/session.py, QemuSession.start).            *)
(***************************************************************************)
THEOREM MachinesBootVerified == Spec => []BootsVerified
<1>1. ImageInv => BootsVerified
  BY DEF ImageInv, Verified, Rivals, BootsVerified
<1>2. QED
  BY <1>1, ImageInvariance, PTL
==============================================================================
