----------------------------- MODULE Breakglass -----------------------------
(***************************************************************************)
(* router/scripts/edge-dns-breakglass.sh: the operator's emergency switch, *)
(* around dns-guard.  "on" saves the WAN DNS mode, sets the break-glass    *)
(* flag, forces the provider's DNS in NVRAM and restarts the WAN; "off"    *)
(* undoes all of it, checking DNS as it goes, and on any failure arms the  *)
(* switch again.  Each guard command is a dns-guard process under          *)
(* edge-dns-supervisor, which ends it when its time is up.                 *)
(*                                                                         *)
(* NVRAM is written in memory first and kept over a reboot only once it    *)
(* is committed.  The WAN restart is asynchronous: the script's request    *)
(* ends before the firmware acts on it.                                    *)
(***************************************************************************)
EXTENDS DnsGuard

CONSTANTS
  Desk,         \* the process that runs the operator's guard commands
  UserModes,    \* the WAN DNS modes the operator may have configured
  OldSnapshots, \* what WAN_STATE_FILE may hold at first: NoFile, Garbled
  IspDns,       \* WAN DNS candidates in the provider's mode ...
  ManualDns,    \* ... and in any other
  MaxTries      \* calls of dns-guard fallback in wait_for_bootstrap_dns: 4

Keys  == {"wan", "wan0"}       \* wan_dnsenable_x and wan0_dnsenable_x
Modes == [Keys -> {"0", "1", "empty"}]
Safe  == [k \in Keys |-> "1"] \* the provider's DNS on both

\* A snapshot that is not there, and one wan_dns_snapshot_valid refuses.
NoFile  == [k \in Keys |-> "none"]
Garbled == [k \in Keys |-> "invalid"]

ASSUME BreakglassAssumption ==
  /\ Desk \in Procs
  /\ UserModes \subseteq Modes
  /\ OldSnapshots \subseteq {NoFile, Garbled}
  /\ {IspDns, ManualDns} \subseteq WanChoices
  /\ MaxTries \in Nat \ {0}

VARIABLES
  nvram,      \* the WAN DNS mode in memory
  committed,  \* the WAN DNS mode in flash
  snapshot,   \* WAN_STATE_FILE
  desk,       \* the state of the script
  restarting, \* rc has a restart_wan request to act on
  intended    \* history: the mode the operator configured

rvars  == <<nvram, committed, snapshot, desk, restarting, intended>>
bgvars == <<vars, rvars>>

\* The guard command the script waits for at a label.
Called == [arm |-> "on", ready |-> "ready", boot |-> "fallback",
           reready |-> "ready", clear |-> "off", promote |-> "promote"]

AtRest(r) == [pc |-> "idle", phase |-> "none", dirty |-> FALSE, tries |-> 1,
              dispatched |-> FALSE, failed |-> FALSE, result |-> r]

On(label) == desk.pc = label

\* The script goes on as d, starting the guard command d waits for.
Proceed(d) ==
  /\ desk' = d
  /\ IF d.pc \in DOMAIN Called
       THEN proc' = [proc EXCEPT ![Desk] =
                       [Idle("ok") EXCEPT !.pc = "lock", !.cmd = Called[d.pc]]]
       ELSE UNCHANGED proc

End(r) == Proceed(AtRest(r))

To(label) == Proceed([desk EXCEPT !.pc = label])

Returned == At(Desk, "idle")

Works == proc[Desk].rc = "ok"

rest == <<resolv, flag, files, lock, env, hist>>

OnlyScriptMoves == UNCHANGED <<nvram, committed, snapshot, restarting, intended, rest>>

-----------------------------------------------------------------------------
(* The calls shared by on, off, and the two ways back.                     *)

\* rearm_safe_breakglass and what follows a failed NVRAM step of each phase.
Rearm == Proceed([desk EXCEPT !.pc = "arm", !.phase = "rearm", !.failed = FALSE,
                              !.dirty = FALSE])

Rollback == Proceed([desk EXCEPT !.pc = "set_wan", !.phase = "rollback",
                                 !.dirty = FALSE])

\* Mutant: a failed write of the way back is not counted.
NvramBroken_Uncounted ==
  \/ desk.phase = "on" /\ Rollback
  \/ desk.phase = "rollback" /\ End("fail")
  \/ desk.phase = "off" /\ Rearm
  \/ desk.phase = "rearm" /\ To("restart")

NvramBroken ==
  \/ desk.phase = "on" /\ Rollback
  \/ desk.phase = "rollback" /\ End("fail")
  \/ desk.phase = "off" /\ Rearm
  \/ desk.phase = "rearm" /\ Proceed([desk EXCEPT !.pc = "restart", !.failed = TRUE])

NvramDone == IF desk.phase = "rollback" THEN End("fail") ELSE To("restart")

Target == IF desk.phase \in {"on", "rearm"} THEN Safe ELSE snapshot

SetKey(label, key) ==
  /\ On(label)
  /\ nvram' = [nvram EXCEPT ![key] = Target[key]]
  /\ LET dirty == desk.dirty \/ nvram[key] # Target[key] IN
       IF label = "set_wan"
         THEN Proceed([desk EXCEPT !.pc = "set_wan0", !.dirty = dirty])
         ELSE IF dirty THEN To("commit") ELSE NvramDone
  /\ UNCHANGED <<committed, snapshot, restarting, intended, rest>>

\* apply_saved_value and force_safe_wan_dns_mode, one nvram call a step; what
\* has that value already is not written, and nothing written, not committed.
SetNvram == SetKey("set_wan", "wan") \/ SetKey("set_wan0", "wan0")

CommitNvram ==
  /\ On("commit")
  /\ committed' = nvram
  /\ NvramDone
  /\ UNCHANGED <<nvram, snapshot, restarting, intended, rest>>

\* An nvram call fails: where a saved value is put back, also the one that reads.
NvramFails ==
  /\ \/ On("commit")
     \/ On("set_wan") /\ (desk.phase \in {"off", "rollback"} \/ nvram["wan"] # Target["wan"])
     \/ On("set_wan0") /\ (desk.phase \in {"off", "rollback"} \/ nvram["wan0"] # Target["wan0"])
  /\ NvramBroken
  /\ OnlyScriptMoves

\* What follows a failed step of a phase after NVRAM: on only counts it.
Failed(next) ==
  IF desk.phase = "off"
    THEN Rearm
    ELSE Proceed([desk EXCEPT !.pc = next, !.failed = TRUE])

\* restart_wan_checked, once in a run of the script.  Only on and off wait for
\* the WAN to come back.
AfterRestart == IF desk.phase = "rearm" THEN "boot" ELSE "wait"

RestartSubmitted ==
  /\ On("restart") /\ ~desk.dispatched
  /\ restarting' = TRUE
  /\ Proceed([desk EXCEPT !.pc = AfterRestart, !.dispatched = TRUE, !.tries = 1])
  /\ UNCHANGED <<nvram, committed, snapshot, intended, rest>>

\* The request fails or runs out of time: rc may have got it or not.
RestartFails ==
  /\ On("restart") /\ ~desk.dispatched
  /\ restarting' \in {restarting, TRUE}
  /\ Proceed(IF desk.phase = "off"
               THEN [desk EXCEPT !.pc = "arm", !.phase = "rearm",
                                 !.dispatched = TRUE, !.dirty = FALSE]
               ELSE [desk EXCEPT !.pc = AfterRestart, !.dispatched = TRUE,
                                 !.failed = TRUE, !.tries = 1])
  /\ UNCHANGED <<nvram, committed, snapshot, intended, rest>>

RestartSkipped ==
  /\ On("restart") /\ desk.dispatched
  /\ Proceed([desk EXCEPT !.pc = "boot", !.failed = TRUE, !.tries = 1])
  /\ OnlyScriptMoves

wait_for_wan_ip ==
  /\ On("wait")
  /\ Proceed([desk EXCEPT !.pc = "boot", !.tries = 1])
  /\ OnlyScriptMoves

WanIpTimesOut ==
  /\ On("wait")
  /\ Failed("boot")
  /\ OnlyScriptMoves

EndOfRearm(failed) == End(IF failed THEN "partial" ELSE "rearmed")

\* wait_for_bootstrap_dns: an answer, another try, or none left; a call that
\* the supervisor had to end is the last.
BootstrapWorks ==
  /\ On("boot") /\ Returned /\ Works
  /\ IF desk.phase = "rearm" THEN EndOfRearm(desk.failed) ELSE To("validate")
  /\ OnlyScriptMoves

\* Mutant: the tries are not counted.
BootstrapRetried_Uncounted ==
  /\ On("boot") /\ Returned /\ proc[Desk].rc = "fail" /\ desk.tries < MaxTries
  /\ Proceed(desk)
  /\ OnlyScriptMoves

BootstrapRetried ==
  /\ On("boot") /\ Returned /\ proc[Desk].rc = "fail" /\ desk.tries < MaxTries
  /\ Proceed([desk EXCEPT !.tries = @ + 1])
  /\ OnlyScriptMoves

BootstrapGivenUp ==
  /\ On("boot") /\ Returned /\ ~Works
  /\ IF desk.phase = "rearm" THEN EndOfRearm(TRUE) ELSE Failed("validate")
  /\ OnlyScriptMoves

\* Some server of resolv.conf answers.
DnsWorks == resolv \cap (answering \cup (IF down = {} THEN {LocalIP} ELSE {})) # {}

\* validate_dns, and after on validate_internet_ip before it.
validate_dns ==
  /\ On("validate")
  /\ IF desk.phase = "off"
       THEN IF DnsWorks THEN To("reready") ELSE Rearm
       ELSE End(IF DnsWorks /\ ~desk.failed THEN "pass" ELSE "fail")
  /\ OnlyScriptMoves

InternetIpFails ==
  /\ On("validate") /\ desk.phase = "on"
  /\ End("fail")
  /\ OnlyScriptMoves

-----------------------------------------------------------------------------
(* activate_breakglass.                                                    *)

BreakglassInit ==
  /\ Init
  /\ intended \in UserModes
  /\ nvram = intended /\ committed = intended
  /\ wan = IF intended = Safe THEN IspDns ELSE ManualDns
  /\ snapshot \in OldSnapshots
  /\ desk = AtRest("none")
  /\ restarting = FALSE

\* The operation lock admits one script at a time.
BeginOn ==
  /\ On("idle") /\ Returned
  /\ Proceed([AtRest("none") EXCEPT !.pc = "save", !.phase = "on"])
  /\ OnlyScriptMoves

save_wan_dns_state ==
  /\ On("save")
  /\ IF snapshot = Garbled THEN End("fail") ELSE To("arm")
  /\ snapshot' = IF snapshot = NoFile THEN nvram ELSE snapshot
  /\ UNCHANGED <<nvram, committed, restarting, intended, rest>>

SaveFails ==
  /\ On("save")
  /\ End("fail")
  /\ OnlyScriptMoves

\* breakglass-on has come back, in on itself or in rearm_safe_breakglass.
Armed ==
  /\ On("arm") /\ Returned
  /\ IF desk.phase = "on" /\ ~Works
       THEN End("fail")
       ELSE Proceed([desk EXCEPT !.pc = "set_wan", !.failed = ~Works])
  /\ OnlyScriptMoves

-----------------------------------------------------------------------------
(* deactivate_breakglass.                                                  *)

BeginOff ==
  /\ On("idle") /\ Returned
  /\ Proceed([AtRest("none") EXCEPT !.pc = "ready", !.phase = "off"])
  /\ OnlyScriptMoves

\* Mutant: the first of the two keys is not put back.
ReadyChecked_OneKey ==
  /\ On("ready") /\ Returned
  /\ CASE ~Works -> End("blocked")
       [] Works /\ snapshot = NoFile -> To("restart")
       [] Works /\ snapshot = Garbled -> Rearm
       [] OTHER -> To("set_wan0")
  /\ OnlyScriptMoves

\* Mutant: the flag is cleared before the saved mode is back.
ReadyChecked_ClearsFirst ==
  /\ On("ready") /\ Returned
  /\ IF Works THEN To("clear") ELSE End("blocked")
  /\ OnlyScriptMoves

\* Local DNS is checked before anything is touched; then restore_wan_dns_state
\* has nothing to do without a snapshot and fails on one it cannot read, after
\* it may have applied what the first line says.
ReadyChecked ==
  /\ On("ready") /\ Returned
  /\ CASE ~Works -> End("blocked")
       [] Works /\ snapshot = NoFile -> To("restart")
       [] Works /\ snapshot = Garbled -> Rearm
       [] OTHER -> To("set_wan")
  /\ \/ UNCHANGED nvram
     \/ /\ Works /\ snapshot = Garbled
        /\ \E v \in {"0", "1", "empty"} : nvram' = [nvram EXCEPT !["wan"] = v]
  /\ UNCHANGED <<committed, snapshot, restarting, intended, rest>>

\* The second check, breakglass-off and promote: on to the next, or back.
Checked(label, next) ==
  /\ On(label) /\ Returned
  /\ IF Works THEN To(next) ELSE Rearm
  /\ OnlyScriptMoves

ClearSteps ==
  Checked("reready", "clear") \/ Checked("clear", "promote") \/ Checked("promote", "drop")

DropSnapshot ==
  /\ On("drop")
  /\ snapshot' = NoFile
  /\ End("cleared")
  /\ UNCHANGED <<nvram, committed, restarting, intended, rest>>

DropFails ==
  /\ On("drop")
  /\ Rearm
  /\ OnlyScriptMoves

-----------------------------------------------------------------------------
(* What can happen around the script.                                      *)

Script ==
  \/ save_wan_dns_state \/ Armed \/ SetNvram \/ CommitNvram
  \/ RestartSubmitted \/ RestartSkipped \/ wait_for_wan_ip
  \/ BootstrapWorks \/ BootstrapRetried \/ BootstrapGivenUp \/ validate_dns
  \/ ReadyChecked \/ ClearSteps \/ DropSnapshot

ScriptFailure ==
  \/ SaveFails \/ NvramFails \/ RestartFails \/ WanIpTimesOut
  \/ InternetIpFails \/ DropFails

\* edge-dns-supervisor ends a guard command whose time is up, and everything
\* it left behind.
SupervisorTimeout ==
  /\ ~Returned
  /\ proc' = [proc EXCEPT ![Desk] = Idle("killed")]
  /\ lock' = IF lock = Desk THEN "free" ELSE lock
  /\ disturbed' = (disturbed \/ lock = Desk)
  /\ UNCHANGED <<resolv, flag, files, env, healthyRuns, foreign, rvars>>

\* The operator's session ends, and with it the script and, through the
\* supervisor, its guard command.
Interrupted ==
  /\ ~On("idle")
  /\ desk' = AtRest("none")
  /\ proc' = [proc EXCEPT ![Desk] = Idle("killed")]
  /\ lock' = IF lock = Desk THEN "free" ELSE lock
  /\ disturbed' = (disturbed \/ lock = Desk)
  /\ UNCHANGED <<resolv, flag, files, env, healthyRuns, foreign, nvram, committed,
                 snapshot, restarting, intended>>

DnsOf(m) == IF m = Safe THEN IspDns ELSE ManualDns

\* The firmware restarts the WAN in the mode NVRAM has by now.
WanRestarts ==
  /\ restarting
  /\ restarting' = FALSE
  /\ wan' = DnsOf(nvram)
  /\ resolv' \in FirmwareConfs
  /\ foreign' = TRUE
  /\ UNCHANGED <<flag, files, lock, proc, answering, down, cfgValid, healthyRuns,
                 disturbed, nvram, committed, snapshot, desk, intended>>

\* NVRAM comes back from flash; the snapshot and the flag are on /jffs.
PowerLoss ==
  /\ Reboot
  /\ nvram' = committed
  /\ desk' = AtRest("none")
  /\ restarting' = FALSE
  /\ UNCHANGED <<committed, snapshot, intended>>

Guard(p) == (Run(p) \/ IoFailure(p)) /\ UNCHANGED rvars

BreakglassNext ==
  \/ Script \/ ScriptFailure \/ BeginOn \/ BeginOff
  \/ SupervisorTimeout \/ Interrupted \/ WanRestarts \/ PowerLoss
  \/ \E p \in Procs : Guard(p)
  \/ \E p \in Procs \ {Desk} : (Start(p, "auto") \/ Kill(p)) /\ UNCHANGED rvars
  \/ (OrphanExits \/ FirmwareWrites \/ HealthChanges) /\ UNCHANGED rvars

BreakglassSpec == BreakglassInit /\ [][BreakglassNext]_bgvars

-----------------------------------------------------------------------------
(* Properties.                                                             *)

ScriptState == [pc : {"idle", "save", "set_wan", "set_wan0", "commit", "restart",
                      "wait", "validate", "drop"} \cup DOMAIN Called,
                phase : {"none", "on", "off", "rollback", "rearm"},
                dirty : BOOLEAN, tries : 1..MaxTries,
                dispatched : BOOLEAN, failed : BOOLEAN,
                result : {"none", "pass", "fail", "blocked", "cleared",
                          "rearmed", "partial"}]

BreakglassTypeOK ==
  /\ TypeOK
  /\ nvram \in Modes /\ committed \in Modes /\ intended \in UserModes
  /\ snapshot \in Modes \cup {NoFile, Garbled}
  /\ desk \in ScriptState
  /\ restarting \in BOOLEAN

Reports(r) == desk.result # r /\ desk'.result = r

\* BREAKGLASS_REARMED=YES, and the PASS of on, are only ever printed with the
\* flag in place and the provider's DNS forced on both keys, whatever went
\* wrong and was retried before (rearm_safe_breakglass, activate_breakglass).
ArmedMeansArmed ==
  [][Reports("rearmed") \/ Reports("pass") => flag' /\ nvram' = Safe]_bgvars

\* BREAKGLASS_CLEAR_RESULT=PASS: the flag is gone and the mode in NVRAM is the
\* one of the snapshot that is removed with it (deactivate_breakglass).
ClearedMeansRestored ==
  [][Reports("cleared") => ~flag' /\ snapshot' = NoFile
                           /\ (snapshot # NoFile => nvram' = snapshot)]_bgvars

\* The flag is cleared only by an off that has put the saved mode back and has
\* asked for the WAN restart with it (the order of deactivate_breakglass).
FlagOutlivesRestore ==
  [][flag /\ ~flag' => desk.dispatched /\ (snapshot # NoFile => nvram = snapshot)]_bgvars

\* A forced WAN mode always has the operator's own on record: the mode in flash
\* is the operator's, or the snapshot holds it (docs/dns-guard-v3.2-recovery-
\* audit-live-validation.md:351, "WAN DNS mode snapshot exists and is valid before
\* emergency WAN-DNS mutation").
ForcedModeHasSnapshot == committed = intended \/ snapshot = intended

\* An off that removes the snapshot of the operator's mode has that mode in
\* flash, not only in memory: a reboot would bring the forced one back, with the
\* flag and the snapshot gone (tests/test-dns-breakglass.sh:398, "interrupted
\* clear state converges on retry").
ClearIsDurable ==
  [][snapshot = intended /\ snapshot' = NoFile => committed' = intended]_bgvars
=============================================================================
