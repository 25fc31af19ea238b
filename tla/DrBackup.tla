------------------------------ MODULE DrBackup ------------------------------
(***************************************************************************)
(* scripts/backup-pihole-dr.py: Pi-hole's files read over SSH three times  *)
(* (hashes, a tar, hashes again) while the router goes on, an archive      *)
(* built from the tar, encrypted as .partial, decrypted to compare, and    *)
(* given its name.  The content of a file is the number of its version; a  *)
(* hash is the content it is of.                                           *)
(***************************************************************************)
EXTENDS Naturals, FiniteSets

CONSTANTS
  SOURCE_FILES, \* in the order they are read
  DIRECTORIES,  \* whose owners and modes are read once
  MaxChanges    \* bound: changes on the router

ASSUME BackupAssumption ==
  /\ SOURCE_FILES # {} /\ SOURCE_FILES \cap DIRECTORIES = {}
  /\ MaxChanges \in Nat

VARIABLES
  phase,    \* where the script is
  disk,     \* the router: a version for each file and directory
  instants, \* history: what the disk has been since the script started
  hashes,   \* the files' hashes before
  dirs,     \* owners and modes of the directories
  snapshot, \* the tar
  rehashed, \* the hashes after
  plain,    \* the archive built from them, in memory
  partial,  \* the encrypted archive, under the name .partial
  output,   \* under its own name
  sidecar   \* the hash beside it

bvars == <<phase, disk, instants, hashes, dirs, snapshot, rehashed, plain, partial, output, sidecar>>

Nowhere == <<>>
Paths == SOURCE_FILES \cup DIRECTORIES

BackupInit ==
  /\ phase = "before" /\ disk = [p \in Paths |-> 0] /\ instants = {disk}
  /\ hashes = Nowhere /\ dirs = Nowhere /\ snapshot = Nowhere /\ rehashed = Nowhere
  /\ plain = Nowhere /\ partial = Nowhere /\ output = Nowhere /\ sidecar = Nowhere

\* The router and its owner; no version comes back.
Change(p) ==
  /\ Cardinality(instants) <= MaxChanges
  /\ disk' = [disk EXCEPT ![p] = @ + 1]
  /\ instants' = instants \cup {disk'}
  /\ UNCHANGED <<phase, hashes, dirs, snapshot, rehashed, plain, partial, output, sidecar>>

-----------------------------------------------------------------------------
(* Reading.  A connection that fails or gives no complete answer ends it.  *)

NextOf(read, paths) == CHOOSE p \in paths \ DOMAIN read : TRUE
With(read, paths) ==
  LET p == NextOf(read, paths) IN
  [q \in DOMAIN read \cup {p} |-> IF q = p THEN disk[p] ELSE read[q]]
Whole(read, paths) == paths \subseteq DOMAIN read

Hash ==
  /\ phase = "before"
  /\ hashes' = With(hashes, SOURCE_FILES)
  /\ phase' = IF Whole(hashes', SOURCE_FILES) THEN "metadata" ELSE phase
  /\ UNCHANGED <<disk, instants, dirs, snapshot, rehashed, plain, partial, output, sidecar>>

Stat ==
  /\ phase = "metadata"
  /\ dirs' = With(dirs, DIRECTORIES)
  /\ phase' = IF Whole(dirs', DIRECTORIES) THEN "tar" ELSE phase
  /\ UNCHANGED <<disk, instants, hashes, snapshot, rehashed, plain, partial, output, sidecar>>

Tar ==
  /\ phase = "tar"
  /\ snapshot' = With(snapshot, SOURCE_FILES)
  /\ phase' = IF Whole(snapshot', SOURCE_FILES) THEN "after" ELSE phase
  /\ UNCHANGED <<disk, instants, hashes, dirs, rehashed, plain, partial, output, sidecar>>

Rehash ==
  /\ phase = "after"
  /\ rehashed' = With(rehashed, SOURCE_FILES)
  /\ phase' = IF Whole(rehashed', SOURCE_FILES) THEN "compare" ELSE phase
  /\ UNCHANGED <<disk, instants, hashes, dirs, snapshot, plain, partial, output, sidecar>>

\* die, at any point: the work directory goes, and .partial with it.
Die ==
  /\ phase \notin {"done", "sidecar", "killed"} /\ phase' = "done"
  /\ plain' = Nowhere /\ partial' = Nowhere
  /\ UNCHANGED <<disk, instants, hashes, dirs, snapshot, rehashed, output, sidecar>>

\* Mutant: only the names are compared.
Agree_Names == DOMAIN hashes = DOMAIN rehashed /\ DOMAIN snapshot = DOMAIN rehashed

\* The hashes before and after, and the hash of each file of the tar.
Agree == hashes = rehashed /\ snapshot = rehashed

\* build_archive checks the database, the account and the archive it wrote.
Build ==
  /\ phase = "compare" /\ Agree
  /\ plain' = snapshot /\ phase' = "encrypt"
  /\ UNCHANGED <<disk, instants, hashes, dirs, snapshot, rehashed, partial, output, sidecar>>

-----------------------------------------------------------------------------
(* Writing.  What is encrypted may not be what was to be, or not all of it.*)

Damaged == [p \in SOURCE_FILES |-> MaxChanges + 1]

Encrypt ==
  /\ phase = "encrypt"
  /\ partial' \in {plain, Damaged} /\ phase' = "roundtrip"
  /\ UNCHANGED <<disk, instants, hashes, dirs, snapshot, rehashed, plain, output, sidecar>>

\* Mutant: renamed whatever the decryption gives.
Rename_Unread ==
  /\ phase = "roundtrip"
  /\ output' = partial /\ partial' = Nowhere /\ phase' = "sidecar"
  /\ UNCHANGED <<disk, instants, hashes, dirs, snapshot, rehashed, plain, sidecar>>

Rename ==
  /\ phase = "roundtrip" /\ partial = plain
  /\ output' = partial /\ partial' = Nowhere /\ phase' = "sidecar"
  /\ UNCHANGED <<disk, instants, hashes, dirs, snapshot, rehashed, plain, sidecar>>

Sidecar ==
  /\ phase = "sidecar"
  /\ sidecar' = output /\ phase' = "done"
  /\ UNCHANGED <<disk, instants, hashes, dirs, snapshot, rehashed, plain, partial, output>>

\* Killed where nothing is cleaned up.
Kill ==
  /\ phase \notin {"done", "killed"} /\ phase' = "killed"
  /\ UNCHANGED <<disk, instants, hashes, dirs, snapshot, rehashed, plain, partial, output, sidecar>>

BackupNext ==
  \/ Hash \/ Stat \/ Tar \/ Rehash \/ Die \/ Build \/ Encrypt \/ Rename \/ Sidecar \/ Kill
  \/ \E p \in Paths : Change(p)

BackupSpec == BackupInit /\ [][BackupNext]_bvars

-----------------------------------------------------------------------------
\* main: a file under the archive's name, wherever the script was stopped and
\* whatever encryption made of it, holds for every source file what the router
\* had at one and the same moment of the run.
PublishedIsOneInstant ==
  output # Nowhere =>
    \E d \in instants : \A p \in SOURCE_FILES : p \in DOMAIN output /\ output[p] = d[p]

=============================================================================
