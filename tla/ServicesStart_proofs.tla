------------------------ MODULE ServicesStart_proofs ------------------------
(***************************************************************************)
(* The safety of services-start's lock, for any number of starts, lives    *)
(* and attempts.  Two invariants: what a single start in                   *)
(* acquire_services_lock may rely on while no two have been there at once, *)
(* and what a start with no other running may rely on, come what may       *)
(* before it.                                                              *)
(***************************************************************************)
EXTENDS ServicesStart, TLAPS

-----------------------------------------------------------------------------
(* The invariant of the lock.                                              *)

Labels == {"dead", "mkdir", "create", "write", "read", "check", "rm", "rmdir",
           "mkdir_again", "stop", "look", "stays", "attempt", "competes", "launch",
           "launched", "rest", "unlock", "unlock_dir"}

Owners == {NoFile, Blank} \cup (Procs \X (0..MaxLives))
Reasons == {"none", "error", "failure", "running", "done", "killed"}

ProcState == [pc : Labels, life : 0..MaxLives, seen : Owners, linked : BOOLEAN,
              alone : BOOLEAN, tries : Nat, why : Reasons]

Types ==
  /\ dir \in BOOLEAN /\ owner \in Owners /\ raced \in BOOLEAN /\ tailscaled \in Nat
  /\ proc \in [Procs -> ProcState]

\* From the record to its removal.
OnRecord(p) == Holding(p) \/ At(p, "unlock")
\* It has made the lock, or found it without a live owner.
FoundStale(p) == proc[p].pc \in {"rm", "rmdir", "mkdir_again", "create", "write"}

\* One start at a time acquires; a holder is on record, which is there from
\* its writing on; nobody takes the lock of a holder, for who reads its record
\* finds it alive; and a launch follows a look that found no tailscaled.
OneAcquirer == \A p, q \in Procs : Acquiring(p) /\ Acquiring(q) => p = q
Recorded == \A p \in Procs : OnRecord(p) => dir /\ owner = <<p, proc[p].life>>
Writing == \A p \in Procs : At(p, "write") => dir /\ owner = Blank /\ proc[p].linked
Stale == \A p, h \in Procs : FoundStale(p) => ~OnRecord(h)
SeenHolder ==
  \A p, h \in Procs : At(p, "check") /\ OnRecord(h) => proc[p].seen = <<h, proc[h].life>>
Launching == tailscaled <= 1 /\ \A p \in Procs : At(p, "launch") => tailscaled = 0

Unraced == OneAcquirer /\ Recorded /\ Writing /\ Stale /\ SeenHolder /\ Launching

-----------------------------------------------------------------------------
(* What a step does to the processes.                                      *)

Others(p) == \A q \in Procs \ {p} : proc'[q] = proc[q]
Kept(p) == /\ proc'[p].life = proc[p].life /\ proc'[p].alone = proc[p].alone
           /\ proc'[p].linked = proc[p].linked /\ proc'[p].seen = proc[p].seen

\* Goto changes where one process is, and nothing else of it.
LEMMA GotoEffect ==
  ASSUME proc \in [Procs -> ProcState], NEW p \in Procs, NEW label \in Labels, Goto(p, label)
  PROVE  /\ proc' \in [Procs -> ProcState]
         /\ proc'[p].pc = label /\ Kept(p) /\ Others(p)
<1>1. proc[p] \in ProcState /\ proc' = [proc EXCEPT ![p] = [proc[p] EXCEPT !.pc = label]]
  BY DEF Goto
<1>2. proc'[p] = [proc[p] EXCEPT !.pc = label] /\ Others(p)
  BY <1>1 DEF Others
<1>3. [proc[p] EXCEPT !.pc = label] \in ProcState
  BY <1>1 DEF ProcState
<1> QED BY <1>1, <1>2, <1>3 DEF Kept, ProcState

\* A dead process is a process.
LEMMA DeadState ==
  ASSUME NEW life \in 0..MaxLives, NEW why \in Reasons
  PROVE  Dead(life, why) \in ProcState
BY DEF Dead, ProcState, Labels, Owners

\* Exit ends one process, for its reason.
LEMMA ExitEffect ==
  ASSUME proc \in [Procs -> ProcState], NEW p \in Procs, NEW why \in Reasons, Exit(p, why)
  PROVE  /\ proc' \in [Procs -> ProcState]
         /\ proc'[p].pc = "dead" /\ proc'[p].why = why
         /\ proc'[p].life = proc[p].life /\ proc'[p].alone = FALSE /\ Others(p)
<1>1. proc[p].life \in 0..MaxLives
  BY DEF ProcState
<1>2. proc' = [proc EXCEPT ![p] = Dead(proc[p].life, why)]
  BY DEF Exit
<1> QED BY <1>1, <1>2, DeadState DEF Others, Dead

\* rm -f takes the name from the record, and moves one process.
LEMMA UnlinkEffect ==
  ASSUME proc \in [Procs -> ProcState], NEW p \in Procs, NEW next \in Labels, Unlink(p, next)
  PROVE  /\ proc' \in [Procs -> ProcState]
         /\ proc'[p].pc = next
         /\ \A q \in Procs \ {p} : proc'[q].pc = proc[q].pc
         /\ \A q \in Procs : /\ proc'[q].life = proc[q].life /\ proc'[q].alone = proc[q].alone
                             /\ proc'[q].seen = proc[q].seen
         /\ owner' = NoFile /\ UNCHANGED <<dir, tailscaled, raced>>
<1>1. \A q \in Procs :
        proc'[q] = [proc[q] EXCEPT !.linked = FALSE, !.pc = IF q = p THEN next ELSE @]
  BY DEF Unlink
<1>2. \A q \in Procs : proc[q] \in ProcState
  OBVIOUS
<1>3. \A q \in Procs : proc'[q] \in ProcState
  <2> TAKE q \in Procs
  <2>1. proc[q] \in ProcState /\ (IF q = p THEN next ELSE proc[q].pc) \in Labels
    BY DEF ProcState
  <2>2. proc'[q] = [proc[q] EXCEPT !.linked = FALSE, !.pc = IF q = p THEN next ELSE proc[q].pc]
    BY <1>1
  <2>3. [proc[q] EXCEPT !.linked = FALSE] \in ProcState
    BY <2>1 DEF ProcState
  <2> QED BY <2>1, <2>2, <2>3 DEF ProcState
<1>4. proc' = [q \in Procs |-> proc'[q]]
  BY DEF Unlink
<1> QED BY <1>1, <1>2, <1>3, <1>4 DEF ProcState, Unlink

\* A start gets a new life, with nothing read; the others are no longer alone.
LEMMA BeginEffect ==
  ASSUME Types, NEW p \in Procs, Begin(p)
  PROVE  /\ proc' \in [Procs -> ProcState]
         /\ At(p, "dead")
         /\ proc'[p].pc = "mkdir" /\ proc'[p].life = proc[p].life + 1
         /\ proc'[p].seen = NoFile
         /\ proc'[p].alone = (\A r \in Procs : At(r, "dead"))
         /\ \A q \in Procs \ {p} :
              /\ proc'[q].pc = proc[q].pc /\ proc'[q].life = proc[q].life
              /\ proc'[q].seen = proc[q].seen /\ proc'[q].linked = proc[q].linked
              /\ proc'[q].alone = FALSE
         /\ raced' = (raced \/ \E q \in Procs : Acquiring(q))
         /\ UNCHANGED <<dir, owner, tailscaled>>
<1> DEFINE new == [Dead(proc[p].life + 1, "none") EXCEPT
                     !.pc = "mkdir", !.alone = \A r \in Procs : At(r, "dead")]
<1>1. proc[p].life + 1 \in 0..MaxLives
  <2>1. proc[p] \in ProcState
    BY DEF Types
  <2>2. proc[p].life \in 0..MaxLives /\ proc[p].life < MaxLives
    BY <2>1 DEF ProcState, Begin
  <2> QED BY <2>2, ServicesAssumption DEF ServicesAssumption
<1>2. Dead(proc[p].life + 1, "none") \in ProcState
  BY <1>1, DeadState DEF Reasons
<1>3. new \in ProcState
  BY <1>2 DEF ProcState, Labels
<1>4. proc' = [q \in Procs |-> IF q = p THEN new ELSE [proc[q] EXCEPT !.alone = FALSE]]
  BY DEF Begin
<1>5. \A q \in Procs : proc[q] \in ProcState /\ [proc[q] EXCEPT !.alone = FALSE] \in ProcState
  BY DEF Types, ProcState
<1>6. proc' \in [Procs -> ProcState]
  BY <1>3, <1>4, <1>5
<1>7. proc'[p] = new /\ \A q \in Procs \ {p} : proc'[q] = [proc[q] EXCEPT !.alone = FALSE]
  BY <1>4
<1>8. new.pc = "mkdir" /\ new.life = proc[p].life + 1 /\ new.seen = NoFile
      /\ new.alone = (\A r \in Procs : At(r, "dead"))
  BY DEF Dead
<1>9. \A q \in Procs \ {p} :
        /\ proc'[q].pc = proc[q].pc /\ proc'[q].life = proc[q].life
        /\ proc'[q].seen = proc[q].seen /\ proc'[q].linked = proc[q].linked
        /\ proc'[q].alone = FALSE
  <2> TAKE q \in Procs \ {p}
  <2>1. proc[q] \in ProcState /\ proc'[q] = [proc[q] EXCEPT !.alone = FALSE]
    BY <1>5, <1>7
  <2> QED BY <2>1 DEF ProcState
<1> HIDE DEF new
<1> QED BY <1>6, <1>7, <1>8, <1>9 DEF Begin

\* The steps of a holder, up to its end.
ServiceStep(p) ==
  \/ StopTailscaled(p) \/ LookForTailscaled(p) \/ SwapMissing(p) \/ Attempt(p)
  \/ LaunchTailscaled(p) \/ StaysUp(p) \/ GoneAgain(p) \/ LaunchFails(p)
  \/ Leave(p) \/ Signal(p)

\* They leave the lock as it is, and launch a tailscaled only after a look.
LEMMA ServiceEffect ==
  ASSUME Types, NEW p \in Procs, ServiceStep(p)
  PROVE  /\ proc' \in [Procs -> ProcState] /\ tailscaled' \in Nat
         /\ Holding(p) /\ Kept(p) /\ Others(p)
         /\ proc'[p].pc \in {"stays", "competes", "launched", "stop", "look", "attempt",
                             "launch", "rest", "unlock"}
         /\ UNCHANGED <<dir, owner, raced>>
         /\ tailscaled <= 1 /\ (At(p, "launch") => tailscaled = 0) =>
              tailscaled' <= 1 /\ (proc'[p].pc = "launch" => tailscaled' = 0)
<1> DEFINE to == proc'[p].pc
           Service == {"stays", "competes", "launched", "stop", "look", "attempt",
                       "launch", "rest", "unlock"}
<1> USE DEF Types
<1>1. Service \subseteq Labels
  BY DEF Labels
<1>2. ASSUME NEW label \in Service, Goto(p, label)
      PROVE  proc' \in [Procs -> ProcState] /\ to = label /\ Kept(p) /\ Others(p)
  BY <1>1, <1>2, GotoEffect
<1>3. CASE StopTailscaled(p)
  BY <1>2, <1>3 DEF StopTailscaled, At, Holding, LockAsItIs
<1>4. CASE LookForTailscaled(p)
  BY <1>2, <1>4 DEF LookForTailscaled, At, Holding, LockAsItIs
<1>5. CASE SwapMissing(p)
  BY <1>2, <1>5 DEF SwapMissing, At, Holding, LockAsItIs
<1>6. CASE Attempt(p)
  <2> DEFINE label == IF tailscaled > 0 THEN "competes" ELSE "launch"
  <2>1. proc' = [proc EXCEPT ![p] = [proc[p] EXCEPT !.tries = @ + 1, !.pc = label]]
    BY <1>6 DEF Attempt
  <2>2. proc[p] \in ProcState /\ label \in Service
    OBVIOUS
  <2>3. proc'[p] = [proc[p] EXCEPT !.tries = @ + 1, !.pc = label]
    BY <2>1
  <2>4. proc'[p] \in ProcState /\ to = label /\ Kept(p)
    <3>1. [proc[p] EXCEPT !.tries = @ + 1] \in ProcState
      BY <2>2 DEF ProcState
    <3>2. label \in Labels
      BY <1>1, <2>2
    <3> HIDE DEF label
    <3> QED BY <2>2, <2>3, <3>1, <3>2 DEF ProcState, Kept
  <2>5. proc' \in [Procs -> ProcState] /\ Others(p)
    BY <2>1, <2>3, <2>4 DEF Others
  <2> QED BY <1>6, <2>4, <2>5 DEF Attempt, At, Holding, LockAsItIs
<1>7. CASE LaunchTailscaled(p)
  BY <1>2, <1>7 DEF LaunchTailscaled, At, Holding, LockAsItIs
<1>8. CASE StaysUp(p)
  BY <1>2, <1>8 DEF StaysUp, Staying, Holding, LockAsItIs
<1>9. CASE GoneAgain(p)
  BY <1>2, <1>9 DEF GoneAgain, At, Staying, Holding, LockAsItIs
<1>10. CASE LaunchFails(p)
  BY <1>2, <1>10 DEF LaunchFails, At, Staying, Holding, LockAsItIs
<1>11. CASE Leave(p)
  BY <1>2, <1>11 DEF Leave, At, Holding, LockAsItIs
<1>12. CASE Signal(p)
  BY <1>2, <1>12 DEF Signal, At, Holding, LockAsItIs
<1> QED
  BY <1>3, <1>4, <1>5, <1>6, <1>7, <1>8, <1>9, <1>10, <1>11, <1>12 DEF ServiceStep

-----------------------------------------------------------------------------
(* The types.                                                              *)

\* The types hold at boot.
LEMMA TypesInit == ServicesInit => Types
<1> SUFFICES ASSUME ServicesInit PROVE Types
  OBVIOUS
<1>1. Dead(0, "none") \in ProcState
  BY DeadState, ServicesAssumption DEF ServicesAssumption, Reasons
<1>2. proc = [p \in Procs |-> Dead(0, "none")] /\ owner \in Owners
  BY DEF ServicesInit, Owners
<1>3. dir \in BOOLEAN /\ raced \in BOOLEAN
  BY DEF ServicesInit
<1>4. tailscaled \in Nat
  BY DEF ServicesInit
<1> QED BY <1>1, <1>2, <1>3, <1>4 DEF Types

\* Every step keeps them.
LEMMA TypesStep == Types /\ [ServicesNext]_svars => Types'
<1> SUFFICES ASSUME Types, [ServicesNext]_svars PROVE Types'
  OBVIOUS
<1> USE DEF Types
<1>0. NoFile \in Owners /\ Blank \in Owners
  BY DEF Owners
<1>1. ASSUME NEW p \in Procs, NEW label \in Labels, Goto(p, label)
      PROVE proc' \in [Procs -> ProcState]
  BY <1>1, GotoEffect
<1>2. ASSUME NEW p \in Procs, NEW why \in Reasons, Exit(p, why)
      PROVE proc' \in [Procs -> ProcState]
  BY <1>2, ExitEffect
<1>3. ASSUME NEW p \in Procs, Begin(p) PROVE Types'
  BY <1>3, BeginEffect
<1>4. ASSUME NEW p \in Procs, MakeLock(p) PROVE Types'
  BY <1>4, <1>1 DEF MakeLock, Labels
<1>5. ASSUME NEW p \in Procs, CreateOwner(p) PROVE Types'
  <2>1. CASE dir
    <3>1. proc[p] \in ProcState
      OBVIOUS
    <3>2. proc' = [proc EXCEPT ![p] = [proc[p] EXCEPT !.pc = "write", !.linked = TRUE]]
      BY <1>5, <2>1 DEF CreateOwner
    <3>3. [proc[p] EXCEPT !.pc = "write", !.linked = TRUE] \in ProcState
      BY <3>1 DEF ProcState, Labels
    <3> QED BY <1>0, <1>5, <2>1, <3>2, <3>3 DEF CreateOwner
  <2>2. CASE ~dir
    BY <1>2, <1>5, <2>2 DEF CreateOwner, Reasons
  <2> QED BY <2>1, <2>2
<1>6. ASSUME NEW p \in Procs, WriteOwner(p) PROVE Types'
  <2>1. proc[p] \in ProcState
    OBVIOUS
  <2>2. proc[p].life \in 0..MaxLives
    BY <2>1 DEF ProcState
  <2> QED BY <1>1, <1>6, <2>2 DEF WriteOwner, Labels, Owners
<1>7. ASSUME NEW p \in Procs, RecordFails(p) PROVE Types'
  BY <1>2, <1>7 DEF RecordFails, Reasons
<1>8. ASSUME NEW p \in Procs, ReadOwner(p) PROVE Types'
  <2>1. proc[p] \in ProcState
    OBVIOUS
  <2>2. proc' = [proc EXCEPT ![p] = [proc[p] EXCEPT !.pc = "check", !.seen = owner]]
    BY <1>8 DEF ReadOwner
  <2>3. [proc[p] EXCEPT !.pc = "check", !.seen = owner] \in ProcState
    BY <2>1 DEF ProcState, Labels
  <2> QED BY <1>8, <2>2, <2>3 DEF ReadOwner
<1>9. ASSUME NEW p \in Procs, CheckOwner(p) PROVE Types'
  BY <1>1, <1>2, <1>9 DEF CheckOwner, Labels, Reasons
<1>10. ASSUME NEW p \in Procs, RemoveStaleOwner(p) \/ ReleaseOwner(p) PROVE Types'
  BY <1>0, <1>10, UnlinkEffect DEF RemoveStaleOwner, ReleaseOwner, Labels
<1>11. ASSUME NEW p \in Procs, RemoveFails(p) PROVE Types'
  BY <1>2, <1>11 DEF RemoveFails, Reasons
<1>12. ASSUME NEW p \in Procs, RemoveStaleLock(p) PROVE Types'
  BY <1>1, <1>2, <1>12 DEF RemoveStaleLock, Labels, Reasons
<1>13. ASSUME NEW p \in Procs, MakeLockAgain(p) PROVE Types'
  BY <1>1, <1>2, <1>13 DEF MakeLockAgain, Labels, Reasons
<1>14. ASSUME NEW p \in Procs, ServiceStep(p) PROVE Types'
  BY <1>14, ServiceEffect
<1>15. ASSUME NEW p \in Procs, ReleaseLock(p) PROVE Types'
  BY <1>2, <1>15 DEF ReleaseLock, Reasons
<1>16. ASSUME NEW p \in Procs, Kill(p) PROVE Types'
  BY <1>2, <1>16 DEF Kill, Reasons
<1>17. CASE TailscaledDies
  BY <1>17 DEF TailscaledDies, LockAsItIs
<1>18. CASE UNCHANGED svars
  BY <1>18 DEF svars
<1> QED
  BY <1>3, <1>4, <1>5, <1>6, <1>7, <1>8, <1>9, <1>10, <1>11, <1>12, <1>13, <1>14, <1>15,
     <1>16, <1>17, <1>18
  DEF ServicesNext, Run, ServiceStep

-----------------------------------------------------------------------------
(* One holder.                                                             *)

\* Every step keeps the lock's invariant, until two starts acquire at once.
LEMMA UnracedStep ==
  Types /\ Unraced /\ ~raced' /\ [ServicesNext]_svars => Unraced'
<1> SUFFICES ASSUME Types, Unraced, ~raced', [ServicesNext]_svars PROVE Unraced'
  OBVIOUS
<1> USE DEF Types, Unraced, OneAcquirer, Recorded, Writing, Stale, SeenHolder, Launching,
            OnRecord, FoundStale, Acquiring, Holding, Staying, At
<1>0. \A p, n : <<p, n>> # Blank /\ <<p, n>> # NoFile /\ Blank # NoFile
  BY DEF Blank, NoFile
<1>1. ASSUME NEW p \in Procs, NEW label \in Labels, Goto(p, label)
      PROVE proc'[p].pc = label /\ Kept(p) /\ Others(p)
  BY <1>1, GotoEffect
<1>2. ASSUME NEW p \in Procs, NEW why \in Reasons, Exit(p, why)
      PROVE proc'[p].pc = "dead" /\ Others(p)
  BY <1>2, ExitEffect
<1>3. ASSUME NEW p \in Procs, Begin(p) PROVE Unraced'
  <2>1. \A q \in Procs : ~Acquiring(q)
    BY <1>3 DEF Begin
  <2>2. /\ At(p, "dead") /\ proc'[p].pc = "mkdir"
        /\ \A q \in Procs \ {p} :
             /\ proc'[q].pc = proc[q].pc /\ proc'[q].life = proc[q].life
             /\ proc'[q].seen = proc[q].seen /\ proc'[q].linked = proc[q].linked
        /\ UNCHANGED <<dir, owner, tailscaled>>
    BY <1>3, BeginEffect
  <2> QED BY <2>1, <2>2
<1>4. ASSUME NEW p \in Procs, MakeLock(p) PROVE Unraced'
  BY <1>4, <1>1 DEF MakeLock, Labels, Kept, Others
<1>5. ASSUME NEW p \in Procs, CreateOwner(p) PROVE Unraced'
  <2>1. CASE dir
    <3>2. proc' = [proc EXCEPT ![p] = [proc[p] EXCEPT !.pc = "write", !.linked = TRUE]]
      BY <1>5, <2>1 DEF CreateOwner
    <3>3. proc[p] \in ProcState /\ proc'[p] = [proc[p] EXCEPT !.pc = "write", !.linked = TRUE]
      BY <3>2
    <3>4. proc'[p].pc = "write" /\ proc'[p].linked /\ Others(p)
      BY <3>2, <3>3 DEF ProcState, Others
    <3> QED BY <1>0, <1>5, <2>1, <3>4 DEF CreateOwner, Others
  <2>2. CASE ~dir
    BY <1>2, <1>5, <2>2 DEF CreateOwner, Reasons, Others
  <2> QED BY <2>1, <2>2
<1>6. ASSUME NEW p \in Procs, WriteOwner(p) PROVE Unraced'
  BY <1>1, <1>6 DEF WriteOwner, Labels, Kept, Others
<1>7. ASSUME NEW p \in Procs, RecordFails(p) PROVE Unraced'
  BY <1>2, <1>7 DEF RecordFails, Reasons, Others
<1>8. ASSUME NEW p \in Procs, ReadOwner(p) PROVE Unraced'
  <2>2. proc' = [proc EXCEPT ![p] = [proc[p] EXCEPT !.pc = "check", !.seen = owner]]
    BY <1>8 DEF ReadOwner
  <2>3. proc[p] \in ProcState /\ proc'[p] = [proc[p] EXCEPT !.pc = "check", !.seen = owner]
    BY <2>2
  <2>4. proc'[p].pc = "check" /\ proc'[p].seen = owner /\ Others(p)
    BY <2>2, <2>3 DEF ProcState, Others
  <2> QED BY <1>8, <2>4 DEF ReadOwner, Others
<1>9. ASSUME NEW p \in Procs, CheckOwner(p) PROVE Unraced'
  <2>1. CASE Live(proc[p].seen)
    BY <1>2, <1>9, <2>1 DEF CheckOwner, Reasons, Others
  <2>2. CASE ~Live(proc[p].seen)
    <3>1. \A h \in Procs : ~OnRecord(h)
      BY <1>9, <2>2 DEF CheckOwner, Live
    <3> QED BY <1>1, <1>9, <2>2, <3>1 DEF CheckOwner, Labels, Kept, Others
  <2> QED BY <2>1, <2>2
<1>10. ASSUME NEW p \in Procs, RemoveStaleOwner(p) PROVE Unraced'
  <2>1. Unlink(p, "rmdir") /\ At(p, "rm")
    BY <1>10 DEF RemoveStaleOwner
  <2> QED BY <2>1, UnlinkEffect DEF Labels
<1>11. ASSUME NEW p \in Procs, RemoveFails(p) PROVE Unraced'
  BY <1>2, <1>11 DEF RemoveFails, Reasons, Others
<1>12. ASSUME NEW p \in Procs, RemoveStaleLock(p) PROVE Unraced'
  BY <1>1, <1>2, <1>12 DEF RemoveStaleLock, Labels, Reasons, Kept, Others
<1>13. ASSUME NEW p \in Procs, MakeLockAgain(p) PROVE Unraced'
  BY <1>1, <1>2, <1>13 DEF MakeLockAgain, Labels, Reasons, Kept, Others
<1>14. ASSUME NEW p \in Procs, ServiceStep(p) PROVE Unraced'
  BY <1>14, ServiceEffect DEF Kept, Others
<1>15. ASSUME NEW p \in Procs, ReleaseOwner(p) PROVE Unraced'
  <2>1. Unlink(p, "unlock_dir") /\ At(p, "unlock")
    BY <1>15 DEF ReleaseOwner
  <2> QED BY <2>1, UnlinkEffect DEF Labels
<1>16. ASSUME NEW p \in Procs, ReleaseLock(p) PROVE Unraced'
  BY <1>0, <1>2, <1>16 DEF ReleaseLock, Reasons, Others
<1>17. ASSUME NEW p \in Procs, Kill(p) PROVE Unraced'
  BY <1>2, <1>17 DEF Kill, Reasons, Others
<1>18. CASE TailscaledDies
  BY <1>18 DEF TailscaledDies, LockAsItIs
<1>19. CASE UNCHANGED svars
  BY <1>19 DEF svars
<1> QED
  BY <1>3, <1>4, <1>5, <1>6, <1>7, <1>8, <1>9, <1>10, <1>11, <1>12, <1>13, <1>14, <1>15,
     <1>16, <1>17, <1>18, <1>19
  DEF ServicesNext, Run, ServiceStep

-----------------------------------------------------------------------------
SInv == Types /\ (~raced => Unraced)

\* At boot nobody runs.
LEMMA SInvInit == ServicesInit => SInv
<1> SUFFICES ASSUME ServicesInit PROVE SInv
  OBVIOUS
<1>1. \A p \in Procs : At(p, "dead")
  BY DEF ServicesInit, Dead, At
<1>2. Unraced
  BY <1>1 DEF ServicesInit, Unraced, OneAcquirer, Recorded, Writing, Stale, SeenHolder,
              Launching, OnRecord, FoundStale, Acquiring, Holding, Staying, At
<1> QED BY <1>2, TypesInit DEF SInv

\* A race is never forgotten, so a step without one had none before.
LEMMA SInvStep == SInv /\ [ServicesNext]_svars => SInv'
<1> SUFFICES ASSUME SInv, [ServicesNext]_svars, ~raced' PROVE ~raced
  BY TypesStep, UnracedStep DEF SInv
<1>1. CASE UNCHANGED svars
  BY <1>1 DEF svars
<1>2. CASE TailscaledDies
  BY <1>2 DEF TailscaledDies, LockAsItIs
<1>3. ASSUME NEW p \in Procs, Begin(p) PROVE ~raced
  BY <1>3 DEF Begin
<1>4. ASSUME NEW p \in Procs, Run(p) \/ Signal(p) \/ Kill(p) PROVE ~raced
  BY <1>4
  DEF Run, MakeLock, CreateOwner, WriteOwner, RecordFails, ReadOwner, CheckOwner,
      RemoveStaleOwner, RemoveFails, RemoveStaleLock, MakeLockAgain, StopTailscaled,
      LookForTailscaled, SwapMissing, Attempt, LaunchTailscaled, StaysUp, GoneAgain,
      LaunchFails, Leave, ReleaseOwner, ReleaseLock, Signal, Kill, Unlink, LockAsItIs
<1> QED BY <1>1, <1>2, <1>3, <1>4 DEF ServicesNext

\* The invariant of the lock holds for ever.
THEOREM ServicesInvariant == ServicesSpec => []SInv
BY SInvInit, SInvStep, PTL DEF ServicesSpec

\* While no two starts have been in acquire_services_lock at once, one start at
\* a time works under the lock, whoever is killed and whatever pid comes again.
THEOREM ServicesOneHolder == ServicesSpec => []OneHolderUnlessRaced
<1>1. SInv => OneHolderUnlessRaced
  BY DEF SInv, Unraced, Recorded, OnRecord, OneHolderUnlessRaced
<1> QED BY <1>1, ServicesInvariant, PTL

\* And then services-start never runs a second tailscaled beside the first.
THEOREM ServicesOneTailscaled == ServicesSpec => []OneTailscaled
<1>1. SInv => OneTailscaled
  BY DEF SInv, Unraced, Launching, OneTailscaled
<1> QED BY <1>1, ServicesInvariant, PTL

-----------------------------------------------------------------------------
(* A start on its own.                                                     *)

\* Nobody else runs.
Alone == \A p, q \in Procs : proc[p].alone /\ p # q => At(q, "dead")

\* What it found is there, and what it removed is not.
LockAsFound ==
  \A p \in Procs : proc[p].alone =>
    /\ proc[p].pc \in {"read", "check", "rm", "rmdir", "create"} => dir
    /\ At(p, "rmdir") => owner = NoFile
    /\ At(p, "mkdir_again") => ~dir

\* A record of a pid is of its present life or an earlier one, and of an
\* earlier one while it acquires.
RecordsAreEarlier ==
  \A p \in Procs :
    /\ \A n \in Nat : owner = <<p, n>> => n <= proc[p].life
    /\ Acquiring(p) => owner # <<p, proc[p].life>> /\ proc[p].seen # <<p, proc[p].life>>

AInv == Types /\ Alone /\ LockAsFound /\ RecordsAreEarlier

\* Nobody runs at boot, and nothing is on record.
LEMMA AInvInit == ServicesInit => AInv
<1> SUFFICES ASSUME ServicesInit PROVE AInv
  OBVIOUS
<1>1. \A p \in Procs : At(p, "dead") /\ ~proc[p].alone /\ owner = NoFile
  BY DEF ServicesInit, Dead, At
<1> QED BY <1>1, TypesInit DEF AInv, Alone, LockAsFound, RecordsAreEarlier, Acquiring, At, NoFile

\* Every step keeps what a start on its own relies on.
LEMMA AInvStep == AInv /\ [ServicesNext]_svars => AInv'
<1> SUFFICES ASSUME AInv, [ServicesNext]_svars PROVE Alone' /\ LockAsFound' /\ RecordsAreEarlier'
  BY TypesStep DEF AInv
<1> DEFINE Good == Alone /\ LockAsFound /\ RecordsAreEarlier
<1> USE DEF AInv, Types, Alone, LockAsFound, RecordsAreEarlier, Acquiring, Holding, Staying, At
<1>0. \A p, n : <<p, n>> # Blank /\ <<p, n>> # NoFile /\ Blank # NoFile
  BY DEF Blank, NoFile
<1>1. ASSUME NEW p \in Procs, NEW label \in Labels, Goto(p, label)
      PROVE proc'[p].pc = label /\ Kept(p) /\ Others(p)
  BY <1>1, GotoEffect
<1>2. ASSUME NEW p \in Procs, NEW why \in Reasons, Exit(p, why)
      PROVE /\ proc'[p].pc = "dead" /\ proc'[p].alone = FALSE
            /\ proc'[p].life = proc[p].life /\ Others(p)
  BY <1>2, ExitEffect
<1>20. \A p \in Procs : proc[p].life \in Nat
  <2> TAKE p \in Procs
  <2>1. proc[p] \in ProcState
    OBVIOUS
  <2> QED BY <2>1, ServicesAssumption DEF ProcState, ServicesAssumption
<1>3. ASSUME NEW p \in Procs, Begin(p) PROVE Good'
  <2>1. /\ At(p, "dead") /\ proc'[p].pc = "mkdir" /\ proc'[p].life = proc[p].life + 1
        /\ proc'[p].seen = NoFile
        /\ proc'[p].alone = (\A r \in Procs : At(r, "dead"))
        /\ \A q \in Procs \ {p} :
             /\ proc'[q].pc = proc[q].pc /\ proc'[q].life = proc[q].life
             /\ proc'[q].seen = proc[q].seen /\ proc'[q].alone = FALSE
        /\ UNCHANGED <<dir, owner, tailscaled>>
    BY <1>3, BeginEffect
  <2>2. Alone'
    BY <2>1
  <2>3. LockAsFound'
    BY <2>1
  <2>4. RecordsAreEarlier'
    <3>1. ASSUME NEW n \in Nat, owner = <<p, n>>
          PROVE  n <= proc'[p].life /\ n # proc'[p].life
      BY <1>20, <2>1, <3>1
    <3>2. proc'[p].life \in Nat
      BY <1>20, <2>1
    <3>3. owner # <<p, proc'[p].life>> /\ proc'[p].seen # <<p, proc'[p].life>>
      BY <1>0, <2>1, <3>1, <3>2
    <3>4. ASSUME NEW q \in Procs \ {p}
          PROVE  /\ \A n \in Nat : owner = <<q, n>> => n <= proc'[q].life
                 /\ proc'[q].pc = proc[q].pc
                 /\ Acquiring(q) => owner # <<q, proc'[q].life>>
                                   /\ proc'[q].seen # <<q, proc'[q].life>>
      BY <2>1
    <3> QED BY <2>1, <3>1, <3>3, <3>4
  <2> QED BY <2>2, <2>3, <2>4
<1>4. ASSUME NEW p \in Procs, MakeLock(p) PROVE Good'
  BY <1>4, <1>1 DEF MakeLock, Labels, Kept, Others
<1>5. ASSUME NEW p \in Procs, CreateOwner(p) PROVE Good'
  <2>1. CASE dir
    <3>2. proc' = [proc EXCEPT ![p] = [proc[p] EXCEPT !.pc = "write", !.linked = TRUE]]
      BY <1>5, <2>1 DEF CreateOwner
    <3>3. proc[p] \in ProcState /\ proc'[p] = [proc[p] EXCEPT !.pc = "write", !.linked = TRUE]
      BY <3>2
    <3>4. /\ proc'[p].pc = "write" /\ Others(p) /\ proc'[p].life = proc[p].life
          /\ proc'[p].seen = proc[p].seen /\ proc'[p].alone = proc[p].alone
      BY <3>2, <3>3 DEF ProcState, Others
    <3> QED BY <1>0, <1>5, <2>1, <3>4 DEF CreateOwner, Others
  <2>2. CASE ~dir
    BY <1>2, <1>5, <2>2 DEF CreateOwner, Reasons, Others
  <2> QED BY <2>1, <2>2
<1>6. ASSUME NEW p \in Procs, WriteOwner(p) PROVE Good'
  BY <1>1, <1>6, <1>20 DEF WriteOwner, Labels, Kept, Others
<1>7. ASSUME NEW p \in Procs, RecordFails(p) PROVE Good'
  BY <1>2, <1>7 DEF RecordFails, Reasons, Others
<1>8. ASSUME NEW p \in Procs, ReadOwner(p) PROVE Good'
  <2>2. proc' = [proc EXCEPT ![p] = [proc[p] EXCEPT !.pc = "check", !.seen = owner]]
    BY <1>8 DEF ReadOwner
  <2>3. proc[p] \in ProcState /\ proc'[p] = [proc[p] EXCEPT !.pc = "check", !.seen = owner]
    BY <2>2
  <2>4. /\ proc'[p].pc = "check" /\ proc'[p].seen = owner /\ Others(p)
        /\ proc'[p].life = proc[p].life /\ proc'[p].alone = proc[p].alone
    BY <2>2, <2>3 DEF ProcState, Others
  <2> QED BY <1>8, <2>4 DEF ReadOwner, Others
<1>9. ASSUME NEW p \in Procs, CheckOwner(p) PROVE Good'
  <2>1. CASE Live(proc[p].seen)
    BY <1>2, <1>9, <2>1 DEF CheckOwner, Labels, Reasons, Kept, Others
  <2>2. CASE ~(Live(proc[p].seen))
    BY <1>1, <1>9, <2>2 DEF CheckOwner, Labels, Reasons, Kept, Others
  <2> QED BY <2>1, <2>2
<1>10. ASSUME NEW p \in Procs, RemoveStaleOwner(p) PROVE Good'
  <2>1. Unlink(p, "rmdir") /\ At(p, "rm")
    BY <1>10 DEF RemoveStaleOwner
  <2> QED BY <1>0, <2>1, UnlinkEffect DEF Labels
<1>11. ASSUME NEW p \in Procs, RemoveFails(p) PROVE Good'
  BY <1>2, <1>11 DEF RemoveFails, Reasons, Others
<1>12. ASSUME NEW p \in Procs, RemoveStaleLock(p) PROVE Good'
  <2>1. CASE dir /\ owner = NoFile
    BY <1>1, <1>12, <2>1 DEF RemoveStaleLock, Labels, Reasons, Kept, Others
  <2>2. CASE ~(dir /\ owner = NoFile)
    BY <1>2, <1>12, <2>2 DEF RemoveStaleLock, Labels, Reasons, Kept, Others
  <2> QED BY <2>1, <2>2
<1>13. ASSUME NEW p \in Procs, MakeLockAgain(p) PROVE Good'
  <2>1. CASE dir
    BY <1>2, <1>13, <2>1 DEF MakeLockAgain, Labels, Reasons, Kept, Others
  <2>2. CASE ~(dir)
    BY <1>1, <1>13, <2>2 DEF MakeLockAgain, Labels, Reasons, Kept, Others
  <2> QED BY <2>1, <2>2
<1>14. ASSUME NEW p \in Procs, ServiceStep(p) PROVE Good'
  BY <1>14, ServiceEffect DEF Kept, Others
<1>15. ASSUME NEW p \in Procs, ReleaseOwner(p) PROVE Good'
  <2>1. Unlink(p, "unlock_dir") /\ At(p, "unlock")
    BY <1>15 DEF ReleaseOwner
  <2> QED BY <1>0, <2>1, UnlinkEffect DEF Labels
<1>16. ASSUME NEW p \in Procs, ReleaseLock(p) PROVE Good'
  BY <1>0, <1>2, <1>16 DEF ReleaseLock, Reasons, Others
<1>17. ASSUME NEW p \in Procs, Kill(p) PROVE Good'
  BY <1>2, <1>17 DEF Kill, Reasons, Others
<1>18. CASE TailscaledDies
  BY <1>18 DEF TailscaledDies, LockAsItIs
<1>19. CASE UNCHANGED svars
  BY <1>19 DEF svars
<1> QED
  BY <1>3, <1>4, <1>5, <1>6, <1>7, <1>8, <1>9, <1>10, <1>11, <1>12, <1>13, <1>14, <1>15,
     <1>16, <1>17, <1>18, <1>19
  DEF ServicesNext, Run, ServiceStep

\* A start on its own leaves acquire_services_lock only by a failing call of its
\* own or a kill: it never finds the lock taken or impossible to make.
LEMMA AloneStep ==
  ASSUME AInv, [ServicesNext]_svars, NEW p \in Procs,
         proc[p].alone, Acquiring(p), proc'[p].pc = "dead"
  PROVE  proc'[p].why \in {"failure", "killed"}
<1> USE DEF AInv, Types, At
<1>1. \A q \in Procs : q # p => At(q, "dead")
  BY DEF Alone
<1>2. ~At(p, "dead")
  BY DEF Acquiring
<1>3. ~(UNCHANGED proc)
  BY <1>2
<1>4. ASSUME NEW q \in Procs, Begin(q) PROVE FALSE
  BY <1>2, <1>4, BeginEffect
<1>5. ASSUME NEW q \in Procs, Run(q) \/ Signal(q) \/ Kill(q) PROVE q = p
  BY <1>1, <1>5
  DEF Run, MakeLock, CreateOwner, WriteOwner, RecordFails, ReadOwner, CheckOwner,
      RemoveStaleOwner, RemoveFails, RemoveStaleLock, MakeLockAgain, StopTailscaled,
      LookForTailscaled, SwapMissing, Attempt, LaunchTailscaled, StaysUp, GoneAgain,
      LaunchFails, Leave, ReleaseOwner, ReleaseLock, Signal, Kill, Holding, Staying
<1>6. ASSUME NEW label \in Labels \ {"dead"}, Goto(p, label) PROVE FALSE
  BY <1>6, GotoEffect
<1>7. ASSUME NEW why \in Reasons, Exit(p, why) PROVE proc'[p].why = why
  BY <1>7, ExitEffect
<1>8. CASE MakeLock(p)
  BY <1>6, <1>8 DEF MakeLock, Labels
<1>9. CASE CreateOwner(p)
  <2>1. dir
    BY <1>9 DEF CreateOwner, LockAsFound
  <2>2. proc' = [proc EXCEPT ![p] = [proc[p] EXCEPT !.pc = "write", !.linked = TRUE]]
    BY <1>9, <2>1 DEF CreateOwner
  <2>3. proc[p] \in ProcState /\ proc'[p] = [proc[p] EXCEPT !.pc = "write", !.linked = TRUE]
    BY <2>2
  <2> QED BY <2>3 DEF ProcState
<1>10. CASE WriteOwner(p)
  BY <1>6, <1>10 DEF WriteOwner, Labels
<1>11. CASE RecordFails(p) \/ RemoveFails(p)
  BY <1>7, <1>11 DEF RecordFails, RemoveFails, Reasons
<1>12. CASE ReadOwner(p)
  <2>1. proc' = [proc EXCEPT ![p] = [proc[p] EXCEPT !.pc = "check", !.seen = owner]]
    BY <1>12 DEF ReadOwner
  <2>2. proc[p] \in ProcState /\ proc'[p] = [proc[p] EXCEPT !.pc = "check", !.seen = owner]
    BY <2>1
  <2> QED BY <2>2 DEF ProcState
<1>13. CASE CheckOwner(p)
  <2>1. ~Live(proc[p].seen)
    BY <1>1 DEF Live, RecordsAreEarlier
  <2> QED BY <1>6, <1>13, <2>1 DEF CheckOwner, Labels
<1>14. CASE RemoveStaleOwner(p) \/ ReleaseOwner(p)
  BY <1>14, UnlinkEffect DEF RemoveStaleOwner, ReleaseOwner, Labels
<1>15. CASE RemoveStaleLock(p)
  <2>1. dir /\ owner = NoFile
    BY <1>15 DEF RemoveStaleLock, LockAsFound
  <2> QED BY <1>6, <1>15, <2>1 DEF RemoveStaleLock, Labels
<1>16. CASE MakeLockAgain(p)
  <2>1. ~dir
    BY <1>16 DEF MakeLockAgain, LockAsFound
  <2> QED BY <1>6, <1>16, <2>1 DEF MakeLockAgain, Labels
<1>17. CASE ServiceStep(p)
  BY <1>17, ServiceEffect
<1>18. CASE ReleaseLock(p)
  BY <1>18 DEF ReleaseLock, Acquiring
<1>19. CASE Kill(p)
  BY <1>7, <1>19 DEF Kill, Reasons
<1>20. ~TailscaledDies /\ ~(UNCHANGED svars)
  BY <1>3 DEF TailscaledDies, svars
<1> QED
  BY <1>4, <1>5, <1>8, <1>9, <1>10, <1>11, <1>12, <1>13, <1>14, <1>15, <1>16, <1>17, <1>18,
     <1>19, <1>20
  DEF ServicesNext, Run, ServiceStep

\* However many starts were killed or failed before, a start with no other
\* running gets the lock, unless a call of its own fails.
THEOREM ServicesAlone == ServicesSpec => AloneSucceeds
<1>1. AInv /\ [ServicesNext]_svars
        => [\A p \in Procs : proc[p].alone /\ Acquiring(p) /\ proc'[p].pc = "dead"
                             => proc'[p].why \in {"failure", "killed"}]_svars
  BY AloneStep
<1> QED BY <1>1, AInvInit, AInvStep, PTL DEF ServicesSpec, AloneSucceeds

=============================================================================
