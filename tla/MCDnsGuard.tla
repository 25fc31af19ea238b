----------------------------- MODULE MCDnsGuard -----------------------------
(***************************************************************************)
(* DnsGuard for TLC: cron runs auto, the operator runs every command, and  *)
(* a budget bounds how often the surroundings interfere.                   *)
(***************************************************************************)
EXTENDS DnsGuard

CONSTANT MaxTrouble \* interferences (commands of the operator, kills, failed
                    \* writes, firmware and health changes) in one behaviour

VARIABLE trouble

MCServers == {"local", "u1", "u2"}
MCIndependent == {"u1", "u2"}
MCChecks == <<"ntp", "query">>
\* No usable candidate; one beside the router itself; more than MaxServers.
MCWanChoices == {<<>>, <<"local", "u1">>, <<"u2", "u2", "u1">>}
\* Missing, local, bootstrap and mixed files.
MCFirmwareConfs == {{}, {"local"}, {"u1"}, {"local", "u1"}}

Interference ==
  \/ \E p \in Procs : IoFailure(p) \/ Kill(p)
  \/ \E p \in Procs \ {"cron"}, c \in Commands : Start(p, c)
  \/ Surroundings

MCInit == Init /\ trouble = 0

MCNext ==
  \/ /\ \/ \E p \in Procs : Run(p)
        \/ Start("cron", "auto")
        \/ OrphanExits
     /\ UNCHANGED trouble
  \/ /\ trouble < MaxTrouble
     /\ Interference
     /\ trouble' = trouble + 1

mcvars == <<vars, trouble>>

MCSpec == MCInit /\ [][MCNext]_mcvars

\* cron keeps starting auto, and a command that runs goes on running.
MCFairSpec ==
  /\ MCSpec
  /\ WF_mcvars(Start("cron", "auto") /\ UNCHANGED trouble)
  /\ \A p \in Procs : WF_mcvars(Run(p) /\ UNCHANGED trouble)
  /\ WF_mcvars(OrphanExits /\ UNCHANGED trouble)

NeedsBootstrap == flag \/ ~cfgValid \/ down # {}

\* Fail-open: once the surroundings settle with the local path unusable and an
\* upstream server configured, the router ends up on bootstrap DNS and stays
\* there (the header of dns-guard: "Fail-open runtime resolver controller").
FailsOpen ==
  <>[](NeedsBootstrap /\ Fresh(wan) # {})
    => <>[](resolv # {} /\ resolv = bootstrap_dns(wan))

\* Failback: once they settle with the local path healthy and no break-glass,
\* the router ends up on the local resolver, whether bootstrap answers or not.
Recovers ==
  <>[](~NeedsBootstrap) => <>[](resolv = {LocalIP})
=============================================================================
