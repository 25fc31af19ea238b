----------------------------- MODULE MCRestore -----------------------------
(***************************************************************************)
(* Restore and DrBackup for TLC: a behaviour is one of the one or one of   *)
(* the other.                                                              *)
(***************************************************************************)
EXTENDS Restore, DrBackup

VARIABLE script \* which of the two runs

MCJffs == {"edge.conf", "dns-guard"}
MCOpt == {"unbound.conf", "S61unbound"}
MCSourceFiles == {"gravity.db", "pihole.toml", "pihole-FTL"}
MCDirectories == {"pihole"}

RecoveryInit ==
  /\ script \in {"restore", "backup"}
  /\ RestoreInit /\ BackupInit
  /\ script = "backup" => before = [p \in Archived \cup {Hook} |-> "old"]

RecoveryNext ==
  \/ script = "restore" /\ RestoreNext /\ UNCHANGED <<script, bvars>>
  \/ script = "backup" /\ BackupNext /\ UNCHANGED <<script, rvars>>

RecoverySpec == RecoveryInit /\ [][RecoveryNext]_<<script, rvars, bvars>>
=============================================================================
