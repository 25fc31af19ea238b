---------------------------- MODULE ServicesStart ----------------------------
(***************************************************************************)
(* router/scripts/services-start: run by the firmware at boot and by hand, *)
(* perhaps twice at once.  Its lock is a directory, and in it a file with  *)
(* the holder's pid and start time; a start that finds the directory with  *)
(* no live owner on record removes both and makes its own.  A holder then  *)
(* sees to it that tailscaled runs and goes on to the other services.      *)
(*                                                                         *)
(* A process is known by its pid, a member of Procs, and its start time,   *)
(* the number of its life: pids are used again.                            *)
(***************************************************************************)
EXTENDS Naturals, FiniteSets

CONSTANTS
  Procs,    \* pids of services-start
  MaxLives, \* bound: starts of one pid
  Attempts, \* EDGE_SERVICE_START_ATTEMPTS
  ForceRestart \* EDGE_FORCE_TAILSCALE_RESTART

ASSUME ServicesAssumption ==
  /\ Attempts \in Nat \ {0} /\ MaxLives \in Nat
  /\ ForceRestart \in BOOLEAN

VARIABLES
  dir,        \* LOCK_DIR exists
  owner,      \* LOCK_OWNER: the pid and start time in it, or one of the two below
  proc,       \* the state of each process
  tailscaled, \* processes of that name
  raced       \* history: two starts have been acquiring the lock at once

svars == <<dir, owner, proc, tailscaled, raced>>

NoFile == <<>>
Blank  == <<"">>

\* seen: the record it read; linked: the file it writes is still in LOCK_DIR;
\* alone: nobody else has been running since it started.
Dead(life, why) == [pc |-> "dead", life |-> life, seen |-> NoFile, linked |-> FALSE,
                    alone |-> FALSE, tries |-> 0, why |-> why]

At(p, label) == proc[p].pc = label

Acquiring(p) == proc[p].pc \in {"mkdir", "create", "write", "read", "check", "rm",
                                "rmdir", "mkdir_again"}
Staying(p) == proc[p].pc \in {"stays", "competes", "launched"}
Holding(p) == Staying(p) \/ proc[p].pc \in {"stop", "look", "attempt", "launch", "rest"}

Goto(p, label) == proc' = [proc EXCEPT ![p].pc = label]

\* The process ends, for a reason.
Exit(p, why) == proc' = [proc EXCEPT ![p] = Dead(@.life, why)]

ServicesInit ==
  /\ dir = FALSE /\ owner = NoFile
  /\ proc = [p \in Procs |-> Dead(0, "none")]
  /\ tailscaled \in {0, 1}
  /\ raced = FALSE

-----------------------------------------------------------------------------
(* acquire_services_lock.                                                  *)

Begin(p) ==
  /\ At(p, "dead") /\ proc[p].life < MaxLives
  /\ proc' = [q \in Procs |->
                IF q = p THEN [Dead(proc[p].life + 1, "none") EXCEPT
                                 !.pc = "mkdir", !.alone = \A r \in Procs : At(r, "dead")]
                         ELSE [proc[q] EXCEPT !.alone = FALSE]]
  /\ raced' = (raced \/ \E q \in Procs : Acquiring(q))
  /\ UNCHANGED <<dir, owner, tailscaled>>

MakeLock(p) ==
  /\ At(p, "mkdir")
  /\ dir' = TRUE
  /\ Goto(p, IF dir THEN "read" ELSE "create")
  /\ UNCHANGED <<owner, tailscaled, raced>>

\* The shell opens LOCK_OWNER, which empties it, and then writes.
CreateOwner(p) ==
  /\ At(p, "create")
  /\ IF dir THEN /\ owner' = Blank
                 /\ proc' = [proc EXCEPT ![p].pc = "write", ![p].linked = TRUE]
            ELSE Exit(p, "error") /\ UNCHANGED owner
  /\ UNCHANGED <<dir, tailscaled, raced>>

WriteOwner(p) ==
  /\ At(p, "write")
  /\ owner' = IF proc[p].linked THEN <<p, proc[p].life>> ELSE owner
  /\ Goto(p, IF ForceRestart THEN "stop" ELSE "look")
  /\ UNCHANGED <<dir, tailscaled, raced>>

\* Neither the start time nor the record: the directory goes if it is empty.
RecordFails(p) ==
  /\ At(p, "create") \/ At(p, "write")
  /\ dir' = (dir /\ owner # NoFile)
  /\ Exit(p, "failure")
  /\ UNCHANGED <<owner, tailscaled, raced>>

ReadOwner(p) ==
  /\ At(p, "read")
  /\ proc' = [proc EXCEPT ![p].pc = "check", ![p].seen = owner]
  /\ UNCHANGED <<dir, owner, tailscaled, raced>>

Live(record) == \E q \in Procs : ~At(q, "dead") /\ record = <<q, proc[q].life>>

\* Mutant: any pid in use counts, whenever its process started.
CheckOwner_PidOnly(p) ==
  /\ At(p, "check")
  /\ IF \E q \in Procs : ~At(q, "dead") /\ proc[p].seen \in {<<q, n>> : n \in 0..MaxLives}
       THEN Exit(p, "running")
       ELSE Goto(p, "rm")
  /\ UNCHANGED <<dir, owner, tailscaled, raced>>

\* Mutant: whatever is there is stale.
CheckOwner_Never(p) ==
  /\ At(p, "check")
  /\ Goto(p, "rm")
  /\ UNCHANGED <<dir, owner, tailscaled, raced>>

CheckOwner(p) ==
  /\ At(p, "check")
  /\ IF Live(proc[p].seen) THEN Exit(p, "running") ELSE Goto(p, "rm")
  /\ UNCHANGED <<dir, owner, tailscaled, raced>>

\* rm -f: what others have open is no longer the file of that name.
Unlink(p, next) ==
  /\ owner' = NoFile
  /\ proc' = [q \in Procs |-> [proc[q] EXCEPT !.linked = FALSE,
                                              !.pc = IF q = p THEN next ELSE @]]
  /\ UNCHANGED <<dir, tailscaled, raced>>

RemoveStaleOwner(p) == At(p, "rm") /\ Unlink(p, "rmdir")

RemoveFails(p) ==
  /\ At(p, "rm") \/ At(p, "rmdir")
  /\ Exit(p, "failure")
  /\ UNCHANGED <<dir, owner, tailscaled, raced>>

RemoveStaleLock(p) ==
  /\ At(p, "rmdir")
  /\ IF dir /\ owner = NoFile
       THEN dir' = FALSE /\ Goto(p, "mkdir_again")
       ELSE UNCHANGED dir /\ Exit(p, "error")
  /\ UNCHANGED <<owner, tailscaled, raced>>

MakeLockAgain(p) ==
  /\ At(p, "mkdir_again")
  /\ dir' = TRUE
  /\ IF dir THEN Exit(p, "running") ELSE Goto(p, "create")
  /\ UNCHANGED <<owner, tailscaled, raced>>

-----------------------------------------------------------------------------
(* The services of a holder.                                               *)

LockAsItIs == UNCHANGED <<dir, owner, raced>>

\* stop_tailscaled_for_maintenance_restart; when it fails nothing is started.
StopTailscaled(p) ==
  /\ At(p, "stop")
  /\ \/ tailscaled > 0 /\ tailscaled' = tailscaled - 1
        /\ Goto(p, IF tailscaled' = 0 THEN "look" ELSE "rest")
     \/ tailscaled = 0 /\ UNCHANGED tailscaled /\ Goto(p, "look")
     \/ tailscaled > 0 /\ UNCHANGED tailscaled /\ Goto(p, "rest")
  /\ LockAsItIs

\* start_tailscaled_with_retry: one that runs already has to stay.
LookForTailscaled(p) ==
  /\ At(p, "look")
  /\ Goto(p, IF tailscaled > 0 THEN "stays" ELSE "attempt")
  /\ UNCHANGED tailscaled
  /\ LockAsItIs

SwapMissing(p) ==
  /\ At(p, "attempt") /\ proc[p].tries = 0
  /\ Goto(p, "rest")
  /\ UNCHANGED tailscaled
  /\ LockAsItIs

\* Mutant: started without another look whether it runs.
Attempt_Blind(p) ==
  /\ At(p, "attempt")
  /\ proc' = [proc EXCEPT ![p].tries = @ + 1, ![p].pc = "launch"]
  /\ UNCHANGED tailscaled
  /\ LockAsItIs

\* An attempt looks again, and one that stays is enough; if it does not, its own follows.
Attempt(p) ==
  /\ At(p, "attempt")
  /\ proc' = [proc EXCEPT ![p].tries = @ + 1,
                          ![p].pc = IF tailscaled > 0 THEN "competes" ELSE "launch"]
  /\ UNCHANGED tailscaled
  /\ LockAsItIs

LaunchTailscaled(p) ==
  /\ At(p, "launch")
  /\ tailscaled' = tailscaled + 1
  /\ Goto(p, "launched")
  /\ LockAsItIs

\* process_stays_running, and then the Tailscale policy, done or not.
StaysUp(p) ==
  /\ Staying(p) /\ tailscaled > 0
  /\ Goto(p, "rest")
  /\ UNCHANGED tailscaled
  /\ LockAsItIs

\* The one found at first is gone, or the one another start has launched.
GoneAgain(p) ==
  /\ tailscaled = 0
  /\ \/ At(p, "stays") /\ Goto(p, "attempt")
     \/ At(p, "competes") /\ Goto(p, "launch")
  /\ UNCHANGED tailscaled
  /\ LockAsItIs

\* Its own is gone, or not to be seen yet: the child in the background may not
\* have become tailscaled when pidof looks first.  A retry comes seconds later.
LaunchFails(p) ==
  /\ At(p, "launched")
  /\ Goto(p, IF proc[p].tries < Attempts THEN "attempt" ELSE "rest")
  /\ UNCHANGED tailscaled
  /\ LockAsItIs

\* Unbound, syslog-ng and the firewall, and the end; or HUP, INT or TERM anywhere.
Leave(p) ==
  /\ At(p, "rest")
  /\ Goto(p, "unlock")
  /\ UNCHANGED tailscaled
  /\ LockAsItIs

Signal(p) ==
  /\ Holding(p) /\ ~At(p, "rest")
  /\ Goto(p, "unlock")
  /\ UNCHANGED tailscaled
  /\ LockAsItIs

\* release_services_lock, the trap on EXIT.
ReleaseOwner(p) == At(p, "unlock") /\ Unlink(p, "unlock_dir")

ReleaseLock(p) ==
  /\ At(p, "unlock_dir")
  /\ dir' = (dir /\ owner # NoFile)
  /\ Exit(p, "done")
  /\ UNCHANGED <<owner, tailscaled, raced>>

-----------------------------------------------------------------------------

Kill(p) ==
  /\ ~At(p, "dead")
  /\ Exit(p, "killed")
  /\ UNCHANGED <<dir, owner, tailscaled, raced>>

TailscaledDies ==
  /\ tailscaled > 0
  /\ tailscaled' = tailscaled - 1
  /\ UNCHANGED proc
  /\ LockAsItIs

Run(p) ==
  \/ MakeLock(p) \/ CreateOwner(p) \/ WriteOwner(p) \/ RecordFails(p)
  \/ ReadOwner(p) \/ CheckOwner(p) \/ RemoveStaleOwner(p) \/ RemoveFails(p)
  \/ RemoveStaleLock(p) \/ MakeLockAgain(p)
  \/ StopTailscaled(p) \/ LookForTailscaled(p) \/ SwapMissing(p) \/ Attempt(p)
  \/ LaunchTailscaled(p) \/ StaysUp(p) \/ GoneAgain(p) \/ LaunchFails(p)
  \/ Leave(p) \/ ReleaseOwner(p) \/ ReleaseLock(p)

ServicesNext ==
  \/ \E p \in Procs : Begin(p) \/ Run(p) \/ Signal(p) \/ Kill(p)
  \/ TailscaledDies

ServicesSpec == ServicesInit /\ [][ServicesNext]_svars

-----------------------------------------------------------------------------
(* Properties.                                                             *)

Records == {NoFile, Blank} \cup (Procs \X (1..MaxLives))

ServicesTypeOK ==
  /\ dir \in BOOLEAN /\ owner \in Records
  /\ tailscaled \in 0..(Cardinality(Procs) + 1)
  /\ raced \in BOOLEAN
  /\ proc \in [Procs ->
       [pc : {"dead", "mkdir", "create", "write", "read", "check", "rm", "rmdir",
              "mkdir_again", "stop", "look", "stays", "attempt", "competes", "launch",
              "launched", "rest", "unlock", "unlock_dir"},
        life : 0..MaxLives, seen : Records, linked : BOOLEAN, alone : BOOLEAN,
        tries : 0..Attempts,
        why : {"none", "error", "failure", "running", "done", "killed"}]]

\* One start at a time works under the lock, as long as no two have been in
\* acquire_services_lock at once: whoever else holds, is killed, releases or had
\* the same pid before (the comparison of start times, and the order of
\* release_services_lock).
OneHolderUnlessRaced == ~raced => \A p, q \in Procs : Holding(p) /\ Holding(q) => p = q

\* The same for what the lock is there for: services-start never runs a second
\* tailscaled on the state and the socket of the first (start_tailscaled_with_retry).
OneTailscaled == ~raced => tailscaled <= 1

\* "services-start lock survives crashes without permanent stale-lock blockage"
\* (tests/test-services-lock.sh): wherever earlier starts were killed or failed, a
\* start with no other running gets the lock, unless a call of its own fails.
AloneSucceeds ==
  [][\A p \in Procs : proc[p].alone /\ Acquiring(p) /\ proc'[p].pc = "dead"
                      => proc'[p].why \in {"failure", "killed"}]_svars

\* "Detect and reclaim stale services-start locks using a recorded process
\* identity, while preserving the live lock owner" (docs/worklog/2026-09-23.md:14),
\* whenever two starts may come.
OneHolder == \A p, q \in Procs : Holding(p) /\ Holding(q) => p = q
=============================================================================
