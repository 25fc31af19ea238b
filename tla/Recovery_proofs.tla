--------------------------- MODULE Recovery_proofs ---------------------------
(***************************************************************************)
(* restore.sh for any archive: nothing live changes before the snapshot is *)
(* complete, and what the script reports is true unless a signal took its  *)
(* snapshot away.  The invariant says, for each loop, what holds of the    *)
(* paths it has done: those no longer in todo, or in dests.                *)
(*                                                                         *)
(* What the backup publishes is one instant of the router, for any set of  *)
(* files and any number of changes.  The argument: versions only grow, so  *)
(* a file whose hash before and hash after agree had that content all the  *)
(* time between; the disk at the end of the first round of hashes is the   *)
(* instant, the same for every file.                                       *)
(***************************************************************************)
EXTENDS Restore, DrBackup, FiniteSetTheorems, TLAPS


-----------------------------------------------------------------------------
(* The invariant of restore.sh.                                            *)

\* What a loop still has to do.
In(seq) == {seq[i] : i \in DOMAIN seq}

Types ==
  /\ before \in [Archived \cup {Hook} -> {"old", "absent"}]
  /\ live \in [Archived \cup {Hook} -> {"old", "new", "torn", "absent"}]
  /\ saved \in [Archived -> {"none", "old", "new", "torn", "absent"}]
  /\ todo \in Seq(Archived)
  /\ dests \in Seq(SUBSET Archived)
  /\ At("copy") => dests # <<>>
  /\ At("put_back") => todo # <<>>

\* Where the snapshot is complete.
Complete == pc \in {"next", "copy", "failed", "remove", "put_back"}

SnapshotState ==
  /\ At("snapshot") => live = before /\ \A p \in Archived : p \in In(todo) \/ saved[p] = before[p]
  /\ Complete => \A p \in Archived : saved[p] = before[p]

HookState == live[Hook] = before[Hook]

CopyState ==
  tmp /\ pc \in {"snapshot", "next", "copy"} =>
    \A p \in Archived : live[p] = "new" \/ \E d \in In(dests) : p \in d

RollbackState ==
  tmp /\ ~failed /\ pc \in {"remove", "put_back"} =>
    \A p \in Archived : live[p] = before[p] \/ p \in In(todo)

MessageState == message # "none" <=> At("done")

RInv ==
  /\ Types /\ SnapshotState /\ HookState /\ CopyState /\ RollbackState
  /\ MessageState /\ ReportsAreTrue

-----------------------------------------------------------------------------
(* Sequences.                                                              *)

\* A set as a sequence has all its elements.
LEMMA SeqOfSet ==
  ASSUME NEW S, IsFiniteSet(S)
  PROVE  SetToSeq(S) \in Seq(S) /\ In(SetToSeq(S)) = S
<1> DEFINE n == Cardinality(S)
           f == SetToSeq(S)
<1>1. n \in Nat /\ ExistsBijection(1..n, S)
  BY FS_CardinalityType
<1>2. \E g \in [1..n -> S] : IsInjective(g)
  BY <1>1 DEF ExistsBijection, Bijection, Injection
<1>3. f \in [1..n -> S] /\ IsInjective(f)
  BY <1>2 DEF SetToSeq
<1>4. f \in Injection(1..n, S)
  BY <1>3 DEF Injection
<1>5. Cardinality(1..n) = n
  BY <1>1, FS_Interval
<1>6. f \in Surjection(1..n, S)
  BY <1>4, <1>5, FS_Injection
<1>7. In(f) = S
  BY <1>3, <1>6 DEF Surjection, In
<1>8. f \in Seq(S)
  BY <1>1, <1>3
<1> QED BY <1>7, <1>8

\* The tail has all but the head.
LEMMA TailIn ==
  ASSUME NEW S, NEW seq \in Seq(S), seq # <<>>
  PROVE  /\ Tail(seq) \in Seq(S) /\ Head(seq) \in S
         /\ In(seq) = {Head(seq)} \cup In(Tail(seq))
<1>1. Tail(seq) \in Seq(S) /\ Head(seq) \in S /\ Len(seq) \in Nat /\ Len(seq) > 0
  OBVIOUS
<1>2. Len(Tail(seq)) = Len(seq) - 1 /\ \A i \in 1..(Len(seq) - 1) : Tail(seq)[i] = seq[i + 1]
  OBVIOUS
<1>3. Head(seq) = seq[1] /\ DOMAIN seq = 1..Len(seq) /\ DOMAIN Tail(seq) = 1..(Len(seq) - 1)
  BY <1>2
<1>4. ASSUME NEW i \in DOMAIN seq PROVE seq[i] = Head(seq) \/ seq[i] \in In(Tail(seq))
  <2>1. CASE i = 1
    BY <1>3, <2>1
  <2>2. CASE i # 1
    <3>1. i - 1 \in 1..(Len(seq) - 1)
      BY <1>1, <1>3, <1>4, <2>2
    <3>2. Tail(seq)[i - 1] = seq[i]
      BY <1>2, <1>3, <3>1
    <3> QED BY <1>3, <3>1, <3>2 DEF In
  <2> QED BY <2>1, <2>2
<1>5. ASSUME NEW i \in DOMAIN Tail(seq) PROVE Tail(seq)[i] \in In(seq)
  <2>1. i + 1 \in DOMAIN seq /\ Tail(seq)[i] = seq[i + 1]
    BY <1>1, <1>2, <1>3, <1>5
  <2> QED BY <2>1 DEF In
<1>6. Head(seq) \in In(seq)
  BY <1>1, <1>3 DEF In
<1> QED BY <1>1, <1>4, <1>5, <1>6 DEF In

\* Nothing is left of an empty sequence.
LEMMA EmptyIn == In(<<>>) = {}
BY DEF In

-----------------------------------------------------------------------------
(* Preservation.                                                           *)

\* The archive is finite, and the hook is not one of the files copied.
LEMMA ArchiveFacts == IsFiniteSet(Archived) /\ Hook \notin Archived
BY RestoreAssumption, FS_Union DEF RestoreAssumption, Archived

\* Before the first snapshot everything is as it was and all is still to do.
LEMMA RInvInit == RestoreInit => RInv
<1> SUFFICES ASSUME RestoreInit PROVE RInv
  OBVIOUS
<1>1. todo \in Seq(Archived) /\ In(todo) = Archived
  BY ArchiveFacts, SeqOfSet DEF RestoreInit
<1>2. dests \in Seq(SUBSET Archived) /\ \A p \in Archived : \E d \in In(dests) : p \in d
  <2>1. dests = <<Jffs, Opt>>
    BY DEF RestoreInit
  <2>2. Jffs \in In(dests) /\ Opt \in In(dests)
    BY <2>1 DEF In
  <2> QED BY <2>1, <2>2 DEF Archived
<1>3. saved \in [Archived -> {"none", "old", "new", "torn", "absent"}]
  BY DEF RestoreInit
<1>4. before \in [Archived \cup {Hook} -> {"old", "absent"}] /\ live = before
  BY DEF RestoreInit
<1>5. live \in [Archived \cup {Hook} -> {"old", "new", "torn", "absent"}]
  BY <1>4
<1> QED
  BY <1>1, <1>2, <1>3, <1>4, <1>5
  DEF RInv, Types, SnapshotState, Complete, HookState, CopyState, RollbackState,
      MessageState, ReportsAreTrue, RestoreInit, At

\* A step per action: a loop takes one path off what it has to do, and that path is done.
LEMMA RInvStep == RInv /\ [RestoreNext]_rvars => RInv'
<1> SUFFICES ASSUME RInv, [RestoreNext]_rvars PROVE RInv'
  OBVIOUS
<1> USE DEF RInv, Types, SnapshotState, Complete, HookState, CopyState, RollbackState,
            MessageState, ReportsAreTrue, At, End
<1>1. CASE SnapshotPath
  <2>1. Tail(todo) \in Seq(Archived) /\ Head(todo) \in Archived
        /\ In(todo) = {Head(todo)} \cup In(Tail(todo))
    BY <1>1, TailIn DEF SnapshotPath
  <2> QED BY <1>1, <2>1 DEF SnapshotPath
<1>2. CASE SnapshotFails
  BY <1>2 DEF SnapshotFails
<1>3. CASE SnapshotDone
  <2>1. In(todo) = {}
    BY <1>3, EmptyIn DEF SnapshotDone
  <2>2. dests' = dests
    BY <1>3 DEF SnapshotDone
  <2> QED BY <1>3, <2>1 DEF SnapshotDone
<1>4. CASE NextDestination
  <2>1. Tail(dests) \in Seq(SUBSET Archived) /\ In(dests) = {Head(dests)} \cup In(Tail(dests))
    BY <1>4, TailIn DEF NextDestination
  <2> QED BY <1>4, <2>1 DEF NextDestination
<1>5. CASE NoDestinationLeft
  <2>1. In(dests) = {}
    BY <1>5, EmptyIn DEF NoDestinationLeft
  <2> QED BY <1>5, <2>1 DEF NoDestinationLeft
<1>6. CASE CopyFile
  <2>1. PICK p \in Head(dests) : live' = [live EXCEPT ![p] = "new"]
    BY <1>6 DEF CopyFile
  <2>2. p \in Archived /\ p # Hook
    BY <1>6, TailIn, ArchiveFacts DEF CopyFile
  <2> QED BY <1>6, <2>1, <2>2 DEF CopyFile
<1>7. CASE CopyDone
  <2>1. Tail(dests) \in Seq(SUBSET Archived) /\ In(dests) = {Head(dests)} \cup In(Tail(dests))
    BY <1>7, TailIn DEF CopyDone
  <2> QED BY <1>7, <2>1 DEF CopyDone
<1>8. CASE CopyFails
  <2>1. \A p \in Head(dests) : p \in Archived /\ p # Hook
    BY <1>8, TailIn, ArchiveFacts DEF CopyFails
  <2>2. live' \in [Archived \cup {Hook} -> {"old", "new", "torn", "absent"}]
        /\ live'[Hook] = live[Hook]
    BY <1>8, <2>1 DEF CopyFails
  <2> QED BY <1>8, <2>2 DEF CopyFails
<1>9. CASE BeginRollback
  <2>1. todo' \in Seq(Archived) /\ (tmp => In(todo') = Archived)
    BY <1>9, ArchiveFacts, SeqOfSet DEF BeginRollback
  <2> QED BY <1>9, <2>1 DEF BeginRollback
<1>10. CASE RemoveNew
  <2>1. Tail(todo) \in Seq(Archived) /\ Head(todo) \in Archived /\ Head(todo) # Hook
        /\ In(todo) = {Head(todo)} \cup In(Tail(todo))
    BY <1>10, TailIn, ArchiveFacts DEF RemoveNew
  <2>2. /\ pc' \in {"remove", "put_back"}
        /\ \/ todo' = todo
           \/ todo' = Tail(todo) /\ tmp /\ saved[Head(todo)] = "absent" /\ pc' = "remove"
        /\ \/ live' = [live EXCEPT ![Head(todo)] = "absent"] /\ failed' = failed
           \/ failed' = TRUE /\ live' = live
        /\ UNCHANGED <<before, saved, tmp, dests, message>>
    BY <1>10 DEF RemoveNew
  <2>3. live' \in [Archived \cup {Hook} -> {"old", "new", "torn", "absent"}]
        /\ \A p \in Archived \cup {Hook} :
             p # Head(todo) => live'[p] = live[p]
    BY <2>1, <2>2
  <2>4. Types'
    BY <1>10, <2>1, <2>2, <2>3 DEF RemoveNew
  <2>5. ASSUME tmp', ~failed' PROVE \A p \in Archived : live'[p] = before[p] \/ p \in In(todo')
    <3>1. live' = [live EXCEPT ![Head(todo)] = "absent"]
      BY <2>2, <2>5
    <3>2. \A p \in Archived : live[p] = before[p] \/ p \in In(todo)
      BY <1>10, <2>2, <2>5 DEF RemoveNew
    <3>3. saved[Head(todo)] = before[Head(todo)]
      BY <1>10, <2>1 DEF RemoveNew
    <3>4. CASE todo' = todo
      BY <2>1, <2>3, <3>2, <3>4
    <3>5. CASE todo' = Tail(todo) /\ saved[Head(todo)] = "absent"
      BY <2>1, <2>3, <3>1, <3>2, <3>3, <3>5
    <3> QED BY <2>2, <3>4, <3>5
  <2> QED BY <1>10, <2>1, <2>2, <2>3, <2>4, <2>5 DEF RemoveNew
<1>11. CASE PutBack
  <2>1. Tail(todo) \in Seq(Archived) /\ Head(todo) \in Archived /\ Head(todo) # Hook
        /\ In(todo) = {Head(todo)} \cup In(Tail(todo))
    BY <1>11, TailIn, ArchiveFacts DEF PutBack
  <2> QED BY <1>11, <2>1 DEF PutBack
<1>12. CASE PutBackFails
  <2>1. Tail(todo) \in Seq(Archived)
    BY <1>12, TailIn DEF PutBackFails
  <2> QED BY <1>12, <2>1 DEF PutBackFails
<1>13. CASE EndRollback
  <2>1. In(todo) = {}
    BY <1>13, EmptyIn DEF EndRollback
  <2>2. tmp /\ ~failed => \A p \in Archived \cup {Hook} : live[p] = before[p]
    BY <1>13, <2>1 DEF EndRollback
  <2>3. /\ live = [p \in Archived \cup {Hook} |-> live[p]]
        /\ before = [p \in Archived \cup {Hook} |-> before[p]]
    OBVIOUS
  <2>4. tmp /\ ~failed => live = before
    BY <2>2, <2>3
  <2> QED BY <1>13, <2>4 DEF EndRollback
<1>14. CASE Signal
  BY <1>14 DEF Signal
<1>15. CASE Killed
  BY <1>15 DEF Killed
<1>16. CASE UNCHANGED rvars
  BY <1>16 DEF rvars
<1> QED
  BY <1>1, <1>2, <1>3, <1>4, <1>5, <1>6, <1>7, <1>8, <1>9, <1>10, <1>11, <1>12, <1>13,
     <1>14, <1>15, <1>16
  DEF RestoreNext

\* The invariant holds of every behaviour of restore.sh, with signals and kills anywhere.
THEOREM RestoreInvariant == RestoreSpec => []RInv
BY RInvInit, RInvStep, PTL DEF RestoreSpec

\* What the last message says of the live files is true, for any archive.
THEOREM RestoreReports == RestoreSpec => []ReportsAreTrue
<1>1. RInv => ReportsAreTrue
  BY DEF RInv
<1> QED BY <1>1, RestoreInvariant, PTL

\* No live file changes before all of the archive's paths are saved, and the hook never does
\* (restore.sh:175-226).
THEOREM RestoreSnapshot == RestoreSpec => SnapshotComesFirst
<1> DEFINE First == live' # live => /\ \A p \in Archived : saved[p] = before[p]
                                    /\ live'[Hook] = before[Hook]
<1>1. RInv /\ RInv' /\ [RestoreNext]_rvars => [First]_rvars
  <2> SUFFICES ASSUME RInv, RInv', RestoreNext, live' # live PROVE First
    BY DEF rvars
  <2>1. Complete /\ before' = before
    BY DEF RestoreNext, SnapshotPath, SnapshotFails, SnapshotDone, NextDestination,
           NoDestinationLeft, CopyFile, CopyDone, CopyFails, BeginRollback, RemoveNew,
           PutBack, PutBackFails, EndRollback, Signal, Killed, Complete, At
  <2> QED BY <2>1 DEF RInv, SnapshotState, HookState
<1> QED BY <1>1, RestoreInvariant, PTL DEF RestoreSpec, SnapshotComesFirst

-----------------------------------------------------------------------------
(* The invariant of the backup.                                            *)

\* The disk is the latest of the instants.
DiskState == disk \in [Paths -> Nat] /\ disk \in instants

\* What was read is not newer than the disk.
NotNewer(read) ==
  \A p \in SOURCE_FILES : p \in DOMAIN read => read[p] \in Nat /\ read[p] <= disk[p]

\* Between the first hashes and the last: an instant that no hash before is
\* newer than, and no hash after is older than.
Between(d) ==
  \A p \in SOURCE_FILES :
    /\ d[p] \in Nat /\ d[p] <= disk[p]
    /\ p \in DOMAIN hashes /\ hashes[p] <= d[p]
    /\ p \in DOMAIN rehashed => d[p] <= rehashed[p]

OneInstant(files) ==
  \E d \in instants : \A p \in SOURCE_FILES : p \in DOMAIN files /\ files[p] = d[p]

BInv ==
  /\ DiskState
  /\ NotNewer(hashes) /\ NotNewer(rehashed)
  /\ phase \in {"before", "metadata", "tar"} => DOMAIN rehashed = {}
  /\ phase \in {"metadata", "tar", "after", "compare"} => \E d \in instants : Between(d)
  /\ phase \in {"encrypt", "roundtrip"} => OneInstant(plain)
  /\ PublishedIsOneInstant

-----------------------------------------------------------------------------
(* Its preservation.                                                       *)

\* Reading one more file keeps what was read and adds what the disk has.
LEMMA WithEffect ==
  ASSUME NEW read, NEW paths, NEW q, q \in DOMAIN With(read, paths)
  PROVE  \/ With(read, paths)[q] = disk[q]
         \/ q \in DOMAIN read /\ With(read, paths)[q] = read[q]
BY DEF With

\* What was read stays read.
LEMMA WithKeeps ==
  ASSUME NEW read, NEW paths, NEW q \in DOMAIN read
  PROVE  q \in DOMAIN With(read, paths)
BY DEF With

\* The disk has a version for every source file.
LEMMA SourceVersions ==
  ASSUME DiskState, NEW p \in SOURCE_FILES
  PROVE  disk[p] \in Nat
BY DEF DiskState, Paths

\* Every step of the script and every change on the router keeps it.
LEMMA BInvStep == BInv /\ [BackupNext]_bvars => BInv'
<1> SUFFICES ASSUME BInv, [BackupNext]_bvars PROVE BInv'
  OBVIOUS
<1>1. CASE Hash
  <2>1. /\ hashes' = With(hashes, SOURCE_FILES)
        /\ phase' = IF Whole(hashes', SOURCE_FILES) THEN "metadata" ELSE "before"
        /\ phase = "before"
        /\ UNCHANGED <<disk, instants, rehashed, output>>
    BY <1>1 DEF Hash
  <2>2. NotNewer(hashes)' /\ DOMAIN rehashed' = {}
    BY <2>1, WithEffect, SourceVersions DEF BInv, NotNewer
  <2>3. phase' = "metadata" => \A p \in SOURCE_FILES : p \in DOMAIN hashes'
    BY <2>1 DEF Whole
  <2>4. phase' = "metadata" => Between(disk)'
    BY <2>1, <2>2, <2>3, SourceVersions DEF BInv, Between, NotNewer
  <2>5. phase' \in {"before", "metadata"}
    BY <2>1
  <2> QED BY <2>1, <2>2, <2>4, <2>5 DEF BInv, DiskState, NotNewer, PublishedIsOneInstant
<1>2. CASE Stat
  BY <1>2 DEF Stat, BInv, DiskState, NotNewer, Between, PublishedIsOneInstant
<1>3. CASE Tar
  BY <1>3 DEF Tar, BInv, DiskState, NotNewer, Between, PublishedIsOneInstant
<1>4. CASE Rehash
  <2>1. /\ rehashed' = With(rehashed, SOURCE_FILES)
        /\ phase = "after" /\ phase' \in {"after", "compare"}
        /\ UNCHANGED <<disk, instants, hashes, output>>
    BY <1>4 DEF Rehash
  <2>2. NotNewer(rehashed)'
    BY <2>1, WithEffect, SourceVersions DEF BInv, NotNewer
  <2>3. PICK d \in instants : Between(d)
    BY <2>1 DEF BInv
  <2>4. Between(d)'
    BY <2>1, <2>3, WithEffect, SourceVersions DEF BInv, Between
  <2> QED BY <2>1, <2>2, <2>3, <2>4 DEF BInv, DiskState, NotNewer, PublishedIsOneInstant
<1>5. CASE Die
  BY <1>5 DEF Die, BInv, DiskState, NotNewer, PublishedIsOneInstant
<1>6. CASE Build
  <2>1. /\ phase = "compare" /\ hashes = rehashed /\ snapshot = rehashed
        /\ plain' = snapshot /\ phase' = "encrypt"
        /\ UNCHANGED <<disk, instants, hashes, rehashed, output>>
    BY <1>6 DEF Build, Agree
  <2>2. PICK d \in instants : Between(d)
    BY <2>1 DEF BInv
  <2>3. \A p \in SOURCE_FILES : p \in DOMAIN hashes /\ hashes[p] = d[p]
    BY <2>1, <2>2 DEF Between, BInv, NotNewer
  <2>4. OneInstant(plain)'
    BY <2>1, <2>2, <2>3 DEF OneInstant
  <2> QED BY <2>1, <2>4 DEF BInv, DiskState, NotNewer, PublishedIsOneInstant
<1>7. CASE Encrypt
  BY <1>7 DEF Encrypt, BInv, DiskState, NotNewer, OneInstant, PublishedIsOneInstant
<1>8. CASE Rename
  <2>1. phase = "roundtrip" /\ output' = plain /\ UNCHANGED instants /\ phase' = "sidecar"
    BY <1>8 DEF Rename
  <2>2. PublishedIsOneInstant'
    BY <2>1 DEF BInv, OneInstant, PublishedIsOneInstant
  <2> QED BY <1>8, <2>1, <2>2 DEF Rename, BInv, DiskState, NotNewer
<1>9. CASE Sidecar
  BY <1>9 DEF Sidecar, BInv, DiskState, NotNewer, PublishedIsOneInstant
<1>10. CASE Kill
  BY <1>10 DEF Kill, BInv, DiskState, NotNewer, PublishedIsOneInstant
<1>11. ASSUME NEW p \in Paths, Change(p) PROVE BInv'
  <2>1. /\ disk' = [disk EXCEPT ![p] = @ + 1] /\ instants' = instants \cup {disk'}
        /\ UNCHANGED <<phase, hashes, rehashed, plain, output>>
    BY <1>11 DEF Change
  <2>2. DiskState'
    BY <2>1 DEF BInv, DiskState
  <2>3. \A q \in SOURCE_FILES : disk[q] \in Nat /\ disk'[q] \in Nat /\ disk[q] <= disk'[q]
    BY <2>1 DEF BInv, DiskState, Paths
  <2>4. NotNewer(hashes)' /\ NotNewer(rehashed)'
    BY <2>1, <2>3 DEF BInv, NotNewer
  <2>5. ASSUME NEW d \in instants, Between(d) PROVE d \in instants' /\ Between(d)'
    BY <2>1, <2>3, <2>5 DEF Between
  <2>6. phase' \in {"encrypt", "roundtrip"} => OneInstant(plain)'
    BY <2>1 DEF BInv, OneInstant
  <2>7. PublishedIsOneInstant'
    BY <2>1 DEF BInv, PublishedIsOneInstant
  <2> QED BY <2>1, <2>2, <2>4, <2>5, <2>6, <2>7 DEF BInv
<1>12. CASE UNCHANGED bvars
  BY <1>12 DEF bvars, BInv, DiskState, NotNewer, Between, OneInstant, PublishedIsOneInstant
<1> QED
  BY <1>1, <1>2, <1>3, <1>4, <1>5, <1>6, <1>7, <1>8, <1>9, <1>10, <1>11, <1>12
  DEF BackupNext

\* It holds when the script starts.
LEMMA BInvInit == BackupInit => BInv
BY DEF BackupInit, BInv, DiskState, NotNewer, PublishedIsOneInstant, Paths, Nowhere

-----------------------------------------------------------------------------
\* A file under the archive's name holds, for every source file, what the
\* router had at one and the same moment, wherever the script was stopped,
\* whatever changed meanwhile and whatever encryption made of the archive.
THEOREM BackupIsOneInstant == BackupSpec => []PublishedIsOneInstant
<1>1. BInv => PublishedIsOneInstant
  BY DEF BInv
<1> QED BY <1>1, BInvInit, BInvStep, PTL DEF BackupSpec

=============================================================================
