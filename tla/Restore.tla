------------------------------ MODULE Restore ------------------------------
(***************************************************************************)
(* scripts/restore.sh --apply, from the verified archive on: a snapshot of *)
(* every path the archive would overwrite, one recursive copy for each     *)
(* destination, and, when a copy fails, a rollback from the snapshot.      *)
(* Payload, manifest and snapshot all live in TMP_DIR, which the handler   *)
(* of HUP, INT and TERM removes; the script then goes on.                  *)
(***************************************************************************)
EXTENDS Naturals, Sequences, SequencesExt

CONSTANTS
  Jffs, Opt,  \* the archived files below jffs/ and below opt/
  Hook        \* jffs/scripts/post-mount, archived too, and left alone

ASSUME RestoreAssumption ==
  /\ IsFiniteSet(Jffs) /\ IsFiniteSet(Opt) /\ Jffs \cap Opt = {}
  /\ Hook \notin Jffs \cup Opt

Archived == Jffs \cup Opt

VARIABLES
  before,  \* history: the live files when the script starts
  live,    \* the live files
  saved,   \* the snapshot: a file, or "absent" for a marker
  tmp,     \* TMP_DIR has what the script put there
  todo,    \* paths the loop at pc still has to do
  dests,   \* destinations still to copy
  pc,      \* where the script is
  failed,  \* rollback_failed
  message  \* what it says at its end

rvars == <<before, live, saved, tmp, todo, dests, pc, failed, message>>

At(label) == pc = label

End(m) == pc' = "done" /\ message' = m

RestoreInit ==
  /\ before \in [Archived \cup {Hook} -> {"old", "absent"}]
  /\ live = before
  /\ saved = [p \in Archived |-> "none"]
  /\ tmp = TRUE
  /\ todo = SetToSeq(Archived)
  /\ dests = <<Jffs, Opt>>
  /\ pc = "snapshot"
  /\ failed = FALSE
  /\ message = "none"

-----------------------------------------------------------------------------
(* The snapshot.  It goes on in a new directory when TMP_DIR has gone.     *)

SnapshotPath ==
  /\ At("snapshot") /\ todo # <<>>
  /\ saved' = [saved EXCEPT ![Head(todo)] = live[Head(todo)]]
  /\ todo' = Tail(todo)
  /\ UNCHANGED <<before, live, tmp, dests, pc, failed, message>>

SnapshotFails ==
  /\ At("snapshot") /\ todo # <<>>
  /\ End("not started")
  /\ UNCHANGED <<before, live, saved, tmp, todo, dests, failed>>

\* Mutant: copying starts before the last path has its snapshot.
SnapshotDone_Early ==
  /\ At("snapshot") /\ Len(todo) <= 1
  /\ pc' = "next"
  /\ UNCHANGED <<before, live, saved, tmp, todo, dests, failed, message>>

SnapshotDone ==
  /\ At("snapshot") /\ todo = <<>>
  /\ pc' = "next"
  /\ UNCHANGED <<before, live, saved, tmp, todo, dests, failed, message>>

-----------------------------------------------------------------------------
(* The copy, destination by destination.                                   *)

\* [ -d "$ROOT/$destination" ]: an archive need not have both, and without
\* TMP_DIR there is neither.
NextDestination ==
  /\ At("next") /\ dests # <<>>
  /\ IF tmp /\ Head(dests) # {}
       THEN pc' = "copy" /\ UNCHANGED dests
       ELSE dests' = Tail(dests) /\ UNCHANGED pc
  /\ UNCHANGED <<before, live, saved, tmp, todo, failed, message>>

NoDestinationLeft ==
  /\ At("next") /\ dests = <<>>
  /\ End("restored")
  /\ UNCHANGED <<before, live, saved, tmp, todo, dests, failed>>

CopyFile ==
  /\ At("copy")
  /\ \E p \in Head(dests) :
       /\ live[p] # "new"
       /\ live' = [live EXCEPT ![p] = "new"]
  /\ UNCHANGED <<before, saved, tmp, todo, dests, pc, failed, message>>

CopyDone ==
  /\ At("copy")
  /\ \A p \in Head(dests) : live[p] = "new"
  /\ pc' = "next"
  /\ dests' = Tail(dests)
  /\ UNCHANGED <<before, live, saved, tmp, todo, failed, message>>

\* cp stops, perhaps in the middle of a file.
CopyFails ==
  /\ At("copy")
  /\ \/ UNCHANGED live
     \/ \E p \in Head(dests) : live[p] # "new" /\ live' = [live EXCEPT ![p] = "torn"]
  /\ pc' = "failed"
  /\ UNCHANGED <<before, saved, tmp, todo, dests, failed, message>>

-----------------------------------------------------------------------------
(* rollback_restore.                                                       *)

\* Without a manifest the loop does not run, and nothing says it failed.
BeginRollback ==
  /\ At("failed")
  /\ pc' = "remove"
  /\ todo' = IF tmp THEN SetToSeq(Archived) ELSE <<>>
  /\ UNCHANGED <<before, live, saved, tmp, dests, failed, message>>

\* Mutant: a file that was absent is left where it is.
RemoveNew_NotAbsent ==
  /\ At("remove") /\ todo # <<>>
  /\ UNCHANGED failed
  /\ IF tmp /\ saved[Head(todo)] = "absent"
       THEN todo' = Tail(todo) /\ UNCHANGED <<pc, live>>
       ELSE /\ pc' = "put_back" /\ UNCHANGED todo
            /\ live' = [live EXCEPT ![Head(todo)] = "absent"]
  /\ UNCHANGED <<before, saved, tmp, dests, message>>

\* rm -rf, and what it does not remove stays.  A file that was absent is done.
RemoveNew ==
  /\ At("remove") /\ todo # <<>>
  /\ \/ live' = [live EXCEPT ![Head(todo)] = "absent"] /\ UNCHANGED failed
     \/ failed' = TRUE /\ UNCHANGED live
  /\ IF tmp /\ saved[Head(todo)] = "absent"
       THEN todo' = Tail(todo) /\ UNCHANGED pc
       ELSE pc' = "put_back" /\ UNCHANGED todo
  /\ UNCHANGED <<before, saved, tmp, dests, message>>

PutBack ==
  /\ At("put_back")
  /\ tmp /\ saved[Head(todo)] # "absent"
  /\ live' = [live EXCEPT ![Head(todo)] = saved[Head(todo)]]
  /\ pc' = "remove"
  /\ todo' = Tail(todo)
  /\ UNCHANGED <<before, saved, tmp, dests, failed, message>>

\* The copy fails, as it must without a snapshot; the loop goes on.
PutBackFails ==
  /\ At("put_back")
  /\ failed' = TRUE
  /\ pc' = "remove"
  /\ todo' = Tail(todo)
  /\ UNCHANGED <<before, live, saved, tmp, dests, message>>

EndRollback ==
  /\ At("remove") /\ todo = <<>>
  /\ End(IF failed THEN "rollback error" ELSE "rolled back")
  /\ UNCHANGED <<before, live, saved, tmp, todo, dests, failed>>

-----------------------------------------------------------------------------

\* The trap runs between two commands: a copy under way ends first, by itself
\* or by the same signal.
Signal ==
  /\ ~At("copy") /\ ~At("done")
  /\ tmp /\ tmp' = FALSE
  /\ UNCHANGED <<before, live, saved, todo, dests, pc, failed, message>>

\* The end of the script, by SIGKILL or the loss of power.
Killed ==
  /\ ~At("done")
  /\ End("killed")
  /\ UNCHANGED <<before, live, saved, tmp, todo, dests, failed>>

RestoreNext ==
  \/ SnapshotPath \/ SnapshotFails \/ SnapshotDone
  \/ NextDestination \/ NoDestinationLeft \/ CopyFile \/ CopyDone \/ CopyFails
  \/ BeginRollback \/ RemoveNew \/ PutBack \/ PutBackFails \/ EndRollback
  \/ Signal \/ Killed

RestoreSpec == RestoreInit /\ [][RestoreNext]_rvars

-----------------------------------------------------------------------------
(* Properties.                                                             *)

RestoreTypeOK ==
  /\ {before, live} \subseteq [Archived \cup {Hook} -> {"old", "new", "torn", "absent"}]
  /\ saved \in [Archived -> {"none", "old", "absent"}]
  /\ tmp \in BOOLEAN /\ failed \in BOOLEAN
  /\ pc \in {"snapshot", "next", "copy", "failed", "remove", "put_back", "done"}
  /\ message \in {"none", "not started", "restored", "rolled back",
                  "rollback error", "killed"}
  /\ todo \in Seq(Archived) /\ dests \in Seq({Jffs, Opt})

\* Nothing live changes before every path has its snapshot or its marker, and
\* post-mount never does (the loop before rollback_restore; "If the snapshot
\* fails, copying does not start", docs/operations.md:122).
SnapshotComesFirst ==
  [][live' # live => /\ \A p \in Archived : saved[p] = before[p]
                     /\ live'[Hook] = before[Hook]]_rvars

\* Without a signal, the three reports are true: a rollback that reports no
\* error has brought back every file and removed every new one, a restore that
\* reports success has applied every file, and one that did not start has
\* changed nothing.
ReportsAreTrue ==
  tmp => /\ message \in {"rolled back", "not started"} => live = before
         /\ message = "restored" => \A p \in Archived : live[p] = "new"

\* "A successful rollback is reported; a rollback error is reported separately"
\* (docs/operations.md:124): whatever happens on the way, the script says
\* "pre-restore state recovered" only when it is.
RollbackReportIsTrue == message = "rolled back" => live = before
=============================================================================
