---------------------------- MODULE MCBreakglass ----------------------------
(***************************************************************************)
(* Breakglass for TLC: cron runs auto beside the operator's on and off.    *)
(***************************************************************************)
EXTENDS Breakglass

CONSTANT MaxTrouble \* interferences in one behaviour: kills, interruptions,
                    \* power losses, failures, firmware and health changes

VARIABLE trouble

MCServers == {"local", "isp"}
MCIndependent == {"isp"}
MCIspDns == <<"isp">>
MCManualDns == <<"local", "isp">>
MCWanChoices == {MCIspDns, MCManualDns}
MCFirmwareConfs == {{"isp"}}
MCUserModes == {[wan |-> "0", wan0 |-> "empty"]}
MCOldSnapshots == {NoFile, Garbled}
MCChecks == <<"query">>

Trouble ==
  \/ ScriptFailure \/ Interrupted \/ PowerLoss
  \/ IoFailure(Desk) /\ UNCHANGED rvars
  \/ \E p \in Procs \ {Desk} : Kill(p) /\ UNCHANGED rvars
  \/ SupervisorTimeout
  \/ (FirmwareWrites \/ HealthChanges) /\ UNCHANGED rvars

Usual ==
  \/ Script \/ BeginOn \/ BeginOff \/ WanRestarts
  \/ \E p \in Procs : Run(p) /\ UNCHANGED rvars
  \/ \E p \in Procs \ {Desk} : Start(p, "auto") /\ UNCHANGED rvars
  \/ OrphanExits /\ UNCHANGED rvars

\* A router that is set up for local DNS: otherwise off is blocked at once.  A
\* snapshot that is garbled from the start is a trouble too.
MCInit ==
  /\ BreakglassInit /\ cfgValid
  /\ trouble = IF snapshot = Garbled THEN 1 ELSE 0

MCNext ==
  \/ Usual /\ UNCHANGED trouble
  \/ trouble < MaxTrouble /\ Trouble /\ trouble' = trouble + 1

\* Left out is what no guard of an action reads: some records and the history of
\* DnsGuard, the exit status of cron's command, and the script's last result.
MCView ==
  <<resolv, flag, streak, mode, lock, [proc EXCEPT !["cron"].rc = "ok"], env,
    nvram, committed, snapshot, [desk EXCEPT !.result = "none"], restarting,
    intended, trouble>>

mcvars == <<bgvars, trouble>>

MCSpec == MCInit /\ [][MCNext]_mcvars

\* The script goes on, and the guard command it waits for goes on or is ended by
\* the supervisor.  Nothing is assumed of cron's guard, which may hang with the
\* lock in its hands.
MCFairSpec ==
  /\ MCSpec
  /\ WF_mcvars(Script /\ UNCHANGED trouble)
  /\ WF_mcvars(Run(Desk) /\ UNCHANGED <<rvars, trouble>>)

\* Every run of the script ends, within its bounded number of calls.
ScriptEnds == (desk.pc # "idle") ~> (desk.pc = "idle")
=============================================================================
