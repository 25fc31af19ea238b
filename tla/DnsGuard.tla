------------------------------ MODULE DnsGuard ------------------------------
(***************************************************************************)
(* router/scripts/dns-guard: the fail-open controller of the router's own  *)
(* resolver, /tmp/resolv.conf.  Every command runs as a process of its own *)
(* (cron runs "auto" each minute, the WAN event handler and the operator   *)
(* run the others), takes one flock and then works in small steps, between *)
(* which the firmware may rewrite resolv.conf or the WAN DNS settings, a   *)
(* service may come up or go down, and the process itself may be killed.   *)
(*                                                                         *)
(* A resolver configuration is the set of its nameservers; the WAN DNS     *)
(* keys in NVRAM are one sequence of candidates, in the order the script   *)
(* reads them.  Epoch stamps are left out: a time file is either present   *)
(* or absent.                                                              *)
(***************************************************************************)
EXTENDS Integers, FiniteSets, Sequences

CONSTANTS
  Procs,        \* the processes that may run a dns-guard command
  Servers,      \* the addresses a candidate or a nameserver line can hold
  Independent,  \* the candidates bootstrap_dns_candidate_valid accepts
  LocalIP,      \* EDGE_DNS_LOCAL_RESOLVER_IP
  Checks,       \* the readiness probes in order: ntp, unbound, listener, query
  Threshold,    \* EDGE_DNS_FAILBACK_SUCCESS_THRESHOLD
  MaxServers,   \* nameservers kept from the WAN keys: 3
  CountLimit,   \* largest fallback counter that reads back: 999999999
  QueryTimeout, \* EDGE_DNS_QUERY_TIMEOUT_SECONDS
  WanChoices,   \* the WAN DNS settings the firmware may hold
  FirmwareConfs \* the nameserver sets the firmware may write by itself

ASSUME GuardAssumption ==
  /\ IsFiniteSet(Servers)
  /\ {"free", "orphan"} \cap Procs = {}
  /\ LocalIP \in Servers
  /\ Independent \subseteq Servers \ {LocalIP}
  /\ Checks \in Seq(STRING) /\ Len(Checks) > 0
  /\ Threshold \in Nat \ {0}
  /\ MaxServers \in Nat \ {0}
  /\ CountLimit \in Nat
  /\ QueryTimeout \in Nat \ {0}
  /\ WanChoices \subseteq Seq(Servers)
  /\ FirmwareConfs \subseteq SUBSET Servers

VARIABLES
  resolv,      \* nameservers in RESOLV_CONF, {} when missing or empty
  flag,        \* BREAKGLASS_FLAG exists; on /jffs, it survives a reboot
  streak,      \* RECOVERY_STREAK_FILE, 0 when absent
  mode,        \* MODE_FILE
  since,       \* FALLBACK_SINCE_FILE exists
  count,       \* FALLBACK_COUNT_FILE
  bootHealth,  \* BOOTSTRAP_HEALTH_FILE
  lock,        \* who holds the flock on LOCK_FILE
  proc,        \* the state of each process
  wan,         \* WAN DNS candidates in NVRAM
  answering,   \* upstream servers that answer a query
  down,        \* readiness checks that would fail now
  cfgValid,    \* local_resolver_config_valid
  healthyRuns, \* history: latest auto runs in a row that found all checks up
  foreign,     \* history: resolv was last written by the firmware
  disturbed    \* history: a record was cut short and not yet made up for

files == <<streak, mode, since, count, bootHealth>>
env   == <<wan, answering, down, cfgValid>>
hist  == <<healthyRuns, foreign, disturbed>>
vars  == <<resolv, flag, files, lock, proc, env, hist>>

Commands == {"auto", "promote", "fallback", "on", "off", "ready", "metrics"}

Labels == {"idle", "lock", "dispatch", "probe", "look", "list", "ask", "gate",
           "put_local", "pick", "put_boot", "arm", "increment",
           "record", "count", "since", "clear"}

Goals == {"none", "fallback", "decide", "operator", "reassert", "escape",
          "streak", "saw_local", "saw_bootstrap"}

ProcState == [pc : Labels, cmd : Commands \cup {"none"}, goal : Goals,
              idx : 1..Len(Checks), list : SUBSET Servers,
              rc : {"ok", "fail", "killed"}]

Idle(r) == [pc |-> "idle", cmd |-> "none", goal |-> "none", idx |-> 1,
            list |-> {}, rc |-> r]

-----------------------------------------------------------------------------
(* What the script reads and computes.                                     *)

\* native_bounded_exec refuses a duration above 120: every nvram read and
\* every probe then comes back failed.
Bounded == QueryTimeout <= 120

Fresh(w) == {i \in DOMAIN w : /\ w[i] \in Independent
                              /\ \A j \in 1..(i - 1) : w[j] # w[i]}

\* Mutant: one candidate too many is kept.
bootstrap_dns_OneMore(w) ==
  {w[i] : i \in {k \in Fresh(w) :
                   Cardinality({j \in Fresh(w) : j < k}) <= MaxServers}}

\* The first MaxServers distinct candidates that do not depend on the router.
bootstrap_dns(w) ==
  IF Bounded
    THEN {w[i] : i \in {k \in Fresh(w) :
                          Cardinality({j \in Fresh(w) : j < k}) < MaxServers}}
    ELSE {}

resolver_is_local == resolv = {LocalIP}

resolver_is_bootstrap == resolv # {} /\ resolv = bootstrap_dns(wan)

CheckUp(i) == Bounded /\ Checks[i] \notin down

Answers(list) == Bounded /\ list \cap answering # {}

\* Mutant: the cap lets one run too many through.
Capped_OffByOne(n) == IF n > Threshold + 1 THEN Threshold ELSE n

Capped(n) == IF n > Threshold THEN Threshold ELSE n

At(p, label) == proc[p].pc = label

Goto(p, label, goal) ==
  proc' = [proc EXCEPT ![p].pc = label, ![p].goal = goal]

\* As Goto, with the candidates read from the WAN keys kept in a variable.
Carry(p, label, list) ==
  proc' = [proc EXCEPT ![p].pc = label, ![p].list = list]

NextCheck(p) == proc' = [proc EXCEPT ![p].idx = @ + 1]

\* The command ends with exit status r and its descriptor's lock goes.
Finish(p, r) ==
  /\ proc' = [proc EXCEPT ![p] = Idle(r)]
  /\ lock' = "free"

Init ==
  /\ resolv \in FirmwareConfs
  /\ flag = FALSE
  /\ streak = 0
  /\ mode = "none"
  /\ since = FALSE
  /\ count = 0
  /\ bootHealth = "none"
  /\ lock = "free"
  /\ proc = [p \in Procs |-> Idle("ok")]
  /\ wan \in WanChoices
  /\ answering = Independent
  /\ down = {}
  /\ cfgValid \in BOOLEAN
  /\ healthyRuns = 0
  /\ foreign = TRUE
  /\ disturbed = FALSE

-----------------------------------------------------------------------------
(* Taking the lock and dispatching the command.                            *)

Start(p, c) ==
  /\ At(p, "idle")
  /\ proc' = [proc EXCEPT ![p] = [Idle("ok") EXCEPT !.pc = "lock", !.cmd = c]]
  /\ UNCHANGED <<resolv, flag, files, lock, env, hist>>

\* Mutant: the exit status of flock is ignored.
Acquire_Unchecked(p) ==
  /\ At(p, "lock")
  /\ lock' = p
  /\ Goto(p, "dispatch", "none")
  /\ UNCHANGED <<resolv, flag, files, env, hist>>

Acquire(p) ==
  /\ At(p, "lock")
  /\ lock = "free"
  /\ lock' = p
  /\ Goto(p, "dispatch", "none")
  /\ UNCHANGED <<resolv, flag, files, env, hist>>

\* EDGE_DNS_LOCK_WAIT_SECONDS pass while another process holds the lock.
LockTimeout(p) ==
  /\ At(p, "lock")
  /\ lock # "free"
  /\ proc' = [proc EXCEPT ![p] = Idle("fail")]
  /\ UNCHANGED <<resolv, flag, files, lock, env, hist>>

\* auto_policy up to its readiness check.
AutoDispatch(p) ==
  /\ At(p, "dispatch") /\ proc[p].cmd = "auto"
  /\ IF flag \/ ~cfgValid
       THEN /\ streak' = 0
            /\ healthyRuns' = 0
            /\ Goto(p, "pick", "fallback")
       ELSE /\ UNCHANGED <<streak, healthyRuns>>
            /\ Goto(p, "probe", "none")
  /\ UNCHANGED <<resolv, flag, mode, since, count, bootHealth, lock, env,
                 foreign, disturbed>>

\* promote_local and local_dns_ready up to their readiness check.
ReadyDispatch(p) ==
  /\ At(p, "dispatch") /\ proc[p].cmd \in {"promote", "ready"}
  /\ IF ~cfgValid \/ (flag /\ proc[p].cmd = "promote")
       THEN Finish(p, "fail")
       ELSE Goto(p, "probe", "none") /\ UNCHANGED lock
  /\ UNCHANGED <<resolv, flag, files, env, hist>>

\* The fallback command and the head of breakglass_on reset the streak.
ResetDispatch(p) ==
  /\ At(p, "dispatch") /\ proc[p].cmd \in {"fallback", "on"}
  /\ streak' = 0
  /\ IF proc[p].cmd = "on" THEN Goto(p, "arm", "none")
                           ELSE Goto(p, "pick", "fallback")
  /\ UNCHANGED <<resolv, flag, mode, since, count, bootHealth, lock, env, hist>>

breakglass_off(p) ==
  /\ At(p, "dispatch") /\ proc[p].cmd = "off"
  /\ flag' = FALSE
  /\ Finish(p, "ok")
  /\ UNCHANGED <<resolv, files, env, hist>>

\* show_metrics: record the mode it observes, unless it observes none.
show_metrics(p) ==
  /\ At(p, "dispatch") /\ proc[p].cmd = "metrics"
  /\ \/ cfgValid /\ resolver_is_local /\ Goto(p, "record", "saw_local")
        /\ UNCHANGED lock
     \/ ~(cfgValid /\ resolver_is_local) /\ resolver_is_bootstrap
        /\ Goto(p, "record", "saw_bootstrap") /\ UNCHANGED lock
     \/ ~(cfgValid /\ resolver_is_local) /\ ~resolver_is_bootstrap
        /\ Finish(p, "ok")
  /\ UNCHANGED <<resolv, flag, files, env, hist>>

-----------------------------------------------------------------------------
(* full_local_dns_ready, one check a step, and what its caller does next.  *)

ProbePass(p) ==
  /\ At(p, "probe")
  /\ CheckUp(proc[p].idx)
  /\ IF proc[p].idx < Len(Checks)
       THEN NextCheck(p) /\ UNCHANGED <<lock, healthyRuns>>
       ELSE CASE proc[p].cmd = "auto" ->
                   /\ Goto(p, "look", "none")
                   /\ healthyRuns' = Capped(healthyRuns + 1)
                   /\ UNCHANGED lock
              [] proc[p].cmd = "promote" ->
                   /\ Goto(p, "gate", "operator")
                   /\ UNCHANGED <<lock, healthyRuns>>
              [] OTHER -> Finish(p, "ok") /\ UNCHANGED healthyRuns
  /\ UNCHANGED <<resolv, flag, files, env, foreign, disturbed>>

\* Mutant: a failed check does not reset the streak.
ProbeFail_KeepsStreak(p) ==
  /\ At(p, "probe")
  /\ ~CheckUp(proc[p].idx)
  /\ IF proc[p].cmd = "auto"
       THEN healthyRuns' = 0 /\ Goto(p, "pick", "fallback") /\ UNCHANGED lock
       ELSE Finish(p, "fail") /\ UNCHANGED healthyRuns
  /\ UNCHANGED <<resolv, flag, files, env, foreign, disturbed>>

\* Mutant: auto ends on a failed check without falling back.
ProbeFail_NoFallback(p) ==
  /\ At(p, "probe")
  /\ ~CheckUp(proc[p].idx)
  /\ streak' = 0 /\ healthyRuns' = 0
  /\ Finish(p, "fail")
  /\ UNCHANGED <<resolv, flag, mode, since, count, bootHealth, env,
                 foreign, disturbed>>

ProbeFail(p) ==
  /\ At(p, "probe")
  /\ ~CheckUp(proc[p].idx)
  /\ IF proc[p].cmd = "auto"
       THEN /\ streak' = 0
            /\ healthyRuns' = 0
            /\ Goto(p, "pick", "fallback")
            /\ UNCHANGED lock
       ELSE Finish(p, "fail") /\ UNCHANGED <<streak, healthyRuns>>
  /\ UNCHANGED <<resolv, flag, mode, since, count, bootHealth, env,
                 foreign, disturbed>>

\* auto_policy after a healthy check: reassert a resolver that is local
\* already, else ask first whether bootstrap DNS is of any use.
LookAtResolver(p) ==
  /\ At(p, "look")
  /\ IF resolver_is_local
       THEN streak' = 0 /\ Goto(p, "gate", "reassert")
       ELSE UNCHANGED streak /\ Goto(p, "list", "decide")
  /\ UNCHANGED <<resolv, flag, mode, since, count, bootHealth, lock, env, hist>>

\* Mutant: the threshold has to be exceeded, which the cap rules out.
IncrementStreak_Beyond(p) ==
  /\ At(p, "increment")
  /\ streak' = Capped(streak + 1)
  /\ IF streak' <= Threshold THEN Goto(p, "pick", "fallback")
                             ELSE Goto(p, "gate", "streak")
  /\ UNCHANGED <<resolv, flag, mode, since, count, bootHealth, lock, env, hist>>

\* recovery_streak_increment and the comparison with the threshold.
IncrementStreak(p) ==
  /\ At(p, "increment")
  /\ streak' = Capped(streak + 1)
  /\ IF streak' < Threshold THEN Goto(p, "pick", "fallback")
                            ELSE Goto(p, "gate", "streak")
  /\ UNCHANGED <<resolv, flag, mode, since, count, bootHealth, lock, env, hist>>

\* The streak file cannot be written: stay on bootstrap.
IncrementFails(p) ==
  /\ At(p, "increment")
  /\ Goto(p, "pick", "fallback")
  /\ UNCHANGED <<resolv, flag, files, lock, env, hist>>

-----------------------------------------------------------------------------
(* bootstrap_dns_ready: read the candidates, query them, note the health.  *)

\* What follows the answer: the end of fallback_bootstrap, or auto_policy's
\* choice between hysteresis and leaving a dead bootstrap at once.
AfterAsk(p, healthy) ==
  IF proc[p].goal = "decide"
    THEN /\ IF healthy THEN Goto(p, "increment", "none") /\ UNCHANGED streak
                       ELSE Goto(p, "gate", "escape") /\ streak' = 0
         /\ UNCHANGED lock
    ELSE /\ Finish(p, IF healthy \/ proc[p].cmd = "on" THEN "ok" ELSE "fail")
         /\ UNCHANGED streak

ListBootstrap(p) ==
  /\ At(p, "list")
  /\ IF bootstrap_dns(wan) = {}
       THEN bootHealth' = "bad" /\ AfterAsk(p, FALSE)
       ELSE /\ Carry(p, "ask", bootstrap_dns(wan))
            /\ UNCHANGED <<bootHealth, lock, streak>>
  /\ UNCHANGED <<resolv, flag, mode, since, count, env, hist>>

AskBootstrap(p) ==
  /\ At(p, "ask")
  /\ LET healthy == Answers(proc[p].list) IN
       /\ bootHealth' = IF healthy THEN "good" ELSE "bad"
       /\ AfterAsk(p, healthy)
  /\ UNCHANGED <<resolv, flag, mode, since, count, env, hist>>

\* record_bootstrap_health fails: only a warning.
AskRecordFails(p) ==
  /\ At(p, "ask")
  /\ AfterAsk(p, Answers(proc[p].list))
  /\ UNCHANGED <<resolv, flag, mode, since, count, bootHealth, env, hist>>

-----------------------------------------------------------------------------
(* promote_local_ready.                                                    *)

\* The promotion is off: the operator's ends, auto's falls back.
NoPromotion(p) ==
  IF proc[p].cmd = "auto"
    THEN streak' = 0 /\ Goto(p, "pick", "fallback") /\ UNCHANGED lock
    ELSE UNCHANGED streak /\ Finish(p, "fail")

PromoteGate(p) ==
  /\ At(p, "gate")
  /\ IF flag THEN NoPromotion(p)
             ELSE Goto(p, "put_local", proc[p].goal) /\ UNCHANGED <<streak, lock>>
  /\ UNCHANGED <<resolv, flag, mode, since, count, bootHealth, env, hist>>

\* write_resolver local renames the new file over resolv.conf.
PutLocal(p) ==
  /\ At(p, "put_local")
  /\ resolv' = {LocalIP}
  /\ foreign' = FALSE
  /\ Goto(p, "record", proc[p].goal)
  /\ UNCHANGED <<flag, files, lock, env, healthyRuns, disturbed>>

PutLocalFails(p) ==
  /\ At(p, "put_local")
  /\ NoPromotion(p)
  /\ UNCHANGED <<resolv, flag, mode, since, count, bootHealth, env, hist>>

-----------------------------------------------------------------------------
(* fallback_bootstrap and breakglass_on.                                   *)

breakglass_on(p) ==
  /\ At(p, "arm")
  /\ flag' = TRUE
  /\ Goto(p, "pick", "fallback")
  /\ UNCHANGED <<resolv, files, lock, env, hist>>

\* The flag cannot be created, or not removed.
FlagFails(p) ==
  /\ \/ At(p, "arm")
     \/ At(p, "dispatch") /\ proc[p].cmd = "off" /\ flag
  /\ Finish(p, "fail")
  /\ UNCHANGED <<resolv, flag, files, env, hist>>

\* write_resolver bootstrap cannot produce a file: health is noted as bad.
FallbackFails(p) ==
  /\ bootHealth' = "bad"
  /\ Finish(p, IF proc[p].cmd = "on" THEN "ok" ELSE "fail")

PickBootstrap(p) ==
  /\ At(p, "pick")
  /\ IF bootstrap_dns(wan) = {}
       THEN FallbackFails(p)
       ELSE /\ Carry(p, "put_boot", bootstrap_dns(wan))
            /\ UNCHANGED <<bootHealth, lock>>
  /\ UNCHANGED <<resolv, flag, streak, mode, since, count, env, hist>>

PutBootstrap(p) ==
  /\ At(p, "put_boot")
  /\ resolv' = proc[p].list
  /\ foreign' = FALSE
  /\ Goto(p, "record", "fallback")
  /\ UNCHANGED <<flag, files, lock, env, healthyRuns, disturbed>>

PutBootstrapFails(p) ==
  /\ At(p, "put_boot")
  /\ FallbackFails(p)
  /\ UNCHANGED <<resolv, flag, streak, mode, since, count, env, hist>>

-----------------------------------------------------------------------------
(* record_resolver_mode: the mode, then the counter, then the time file.   *)

NewMode(p) ==
  IF proc[p].goal \in {"fallback", "saw_bootstrap"} THEN "bootstrap" ELSE "local"

\* fallback_bootstrap goes on to probe; the last step of a promotion earned
\* by the streak clears it.
AfterRecord(p) ==
  /\ IF proc[p].goal = "fallback" THEN Goto(p, "list", "fallback") /\ UNCHANGED lock
                                  ELSE Finish(p, "ok")
  /\ streak' = IF proc[p].goal = "streak" THEN 0 ELSE streak

RecordMode(p) ==
  /\ At(p, "record")
  /\ IF mode # NewMode(p)
       THEN /\ mode' = NewMode(p)
            /\ Goto(p, IF NewMode(p) = "bootstrap" THEN "count" ELSE "clear",
                    proc[p].goal)
            /\ UNCHANGED <<since, lock, streak>>
       ELSE /\ since' = (since \/ mode = "bootstrap")
            /\ AfterRecord(p)
            /\ UNCHANGED mode
  /\ UNCHANGED <<resolv, flag, count, bootHealth, env, hist>>

\* A counter of more than nine digits reads back as 0.
RecordCount(p) ==
  /\ At(p, "count")
  /\ count' = (IF count > CountLimit THEN 0 ELSE count) + 1
  /\ Goto(p, "since", proc[p].goal)
  /\ UNCHANGED <<resolv, flag, streak, mode, since, bootHealth, lock, env, hist>>

RecordSince(p) ==
  /\ At(p, "since")
  /\ since' = TRUE
  /\ disturbed' = FALSE
  /\ AfterRecord(p)
  /\ UNCHANGED <<resolv, flag, mode, count, bootHealth, env, healthyRuns, foreign>>

\* Mutant: the time file survives the promotion.
ClearSince_Keeps(p) ==
  /\ At(p, "clear")
  /\ disturbed' = FALSE
  /\ AfterRecord(p)
  /\ UNCHANGED <<resolv, flag, mode, since, count, bootHealth, env, healthyRuns,
                 foreign>>

ClearSince(p) ==
  /\ At(p, "clear")
  /\ since' = FALSE
  /\ disturbed' = FALSE
  /\ AfterRecord(p)
  /\ UNCHANGED <<resolv, flag, mode, count, bootHealth, env, healthyRuns, foreign>>

\* A state file cannot be written, or the time stamp after the mode cannot:
\* the rest of the record is skipped with a warning.
RecordFails(p) ==
  /\ \/ At(p, "record") /\ mode' \in {mode, NewMode(p)}
     \/ \/ At(p, "count")
        \/ At(p, "since")
        /\ UNCHANGED mode
  /\ disturbed' = TRUE
  /\ AfterRecord(p)
  /\ UNCHANGED <<resolv, flag, since, count, bootHealth, env, healthyRuns, foreign>>

-----------------------------------------------------------------------------
(* The steps a running command takes, its failures, and its surroundings.  *)

Run(p) ==
  \/ Acquire(p) \/ LockTimeout(p)
  \/ AutoDispatch(p) \/ ReadyDispatch(p) \/ ResetDispatch(p)
  \/ breakglass_off(p) \/ show_metrics(p)
  \/ ProbePass(p) \/ ProbeFail(p) \/ LookAtResolver(p) \/ IncrementStreak(p)
  \/ ListBootstrap(p) \/ AskBootstrap(p)
  \/ PromoteGate(p) \/ PutLocal(p)
  \/ breakglass_on(p) \/ PickBootstrap(p) \/ PutBootstrap(p)
  \/ RecordMode(p) \/ RecordCount(p) \/ RecordSince(p) \/ ClearSince(p)

IoFailure(p) ==
  \/ IncrementFails(p) \/ AskRecordFails(p) \/ PutLocalFails(p)
  \/ FlagFails(p) \/ PutBootstrapFails(p) \/ RecordFails(p)

\* SIGKILL.  A subshell that waits for a helper keeps the lock's descriptor
\* open and with it the lock, until the helper's own timer ends it.
Kill(p) ==
  /\ ~At(p, "idle")
  /\ proc' = [proc EXCEPT ![p] = Idle("killed")]
  /\ lock' \in (IF lock = p THEN {"free", "orphan"} ELSE {lock})
  /\ disturbed' = (disturbed \/ lock = p)
  /\ UNCHANGED <<resolv, flag, files, env, healthyRuns, foreign>>

OrphanExits ==
  /\ lock = "orphan"
  /\ lock' = "free"
  /\ UNCHANGED <<resolv, flag, files, proc, env, hist>>

\* Power is lost: /tmp goes, /jffs and NVRAM stay.
Reboot ==
  /\ resolv' \in FirmwareConfs
  /\ streak' = 0 /\ mode' = "none" /\ since' = FALSE /\ count' = 0
  /\ bootHealth' = "none"
  /\ lock' = "free"
  /\ proc' = [p \in Procs |-> Idle("killed")]
  /\ healthyRuns' = 0 /\ foreign' = TRUE /\ disturbed' = FALSE
  /\ UNCHANGED <<flag, env>>

\* The firmware rewrites resolv.conf, as it does on WAN and DHCP events.
FirmwareWrites ==
  /\ resolv' \in FirmwareConfs
  /\ foreign' = TRUE
  /\ UNCHANGED <<flag, files, lock, proc, env, healthyRuns, disturbed>>

WanChanges ==
  /\ wan' \in WanChoices
  /\ UNCHANGED <<resolv, flag, files, lock, proc, answering, down, cfgValid, hist>>

HealthChanges ==
  /\ \/ down' \in SUBSET {Checks[i] : i \in DOMAIN Checks} /\ UNCHANGED answering
     \/ answering' \in SUBSET Independent /\ UNCHANGED down
  /\ UNCHANGED <<resolv, flag, files, lock, proc, wan, cfgValid, hist>>

Surroundings ==
  \/ Reboot \/ FirmwareWrites \/ WanChanges \/ HealthChanges

Next ==
  \/ \E p \in Procs : Run(p) \/ IoFailure(p) \/ Kill(p)
                      \/ \E c \in Commands : Start(p, c)
  \/ OrphanExits
  \/ Surroundings

Spec == Init /\ [][Next]_vars

-----------------------------------------------------------------------------
(* Properties.                                                             *)

TypeOK ==
  /\ resolv \in SUBSET Servers
  /\ flag \in BOOLEAN
  /\ streak \in 0..Threshold
  /\ mode \in {"none", "local", "bootstrap"}
  /\ since \in BOOLEAN
  /\ count \in 0..(CountLimit + 1)
  /\ bootHealth \in {"none", "good", "bad"}
  /\ lock \in Procs \cup {"free", "orphan"}
  /\ proc \in [Procs -> ProcState]
  /\ wan \in WanChoices
  /\ answering \in SUBSET Independent
  /\ down \in SUBSET {Checks[i] : i \in DOMAIN Checks}
  /\ cfgValid \in BOOLEAN
  /\ healthyRuns \in 0..Threshold
  /\ foreign \in BOOLEAN
  /\ disturbed \in BOOLEAN

\* While the break-glass flag exists no dns-guard step puts the local resolver
\* into resolv.conf: only the firmware can (auto_policy, promote_local and
\* promote_local_ready look at the flag before a write that comes later).
BreakglassBlocksPromotion ==
  [][flag /\ resolv # {LocalIP} /\ resolv' = {LocalIP} => foreign']_vars

\* auto leaves a working bootstrap resolver for the local one only when the
\* last Threshold auto runs in a row found the whole local path ready, however
\* commands, kills, failed writes and reboots came between them (auto_policy's
\* hysteresis).  The two exceptions are its own: a resolver that was local
\* already, and a bootstrap that did not answer.
PromotionIsEarned ==
  [][\A p \in Procs :
       /\ At(p, "put_local") /\ proc[p].cmd = "auto"
       /\ proc[p].goal \notin {"reassert", "escape"}
       /\ ~foreign' /\ resolv' = {LocalIP}
       => healthyRuns = Threshold]_vars

\* What dns-guard leaves in resolv.conf is the local resolver alone or one to
\* MaxServers upstream servers that do not lead back to the router
\* (bootstrap_dns and write_resolver).
GuardWritesAreUsable ==
  ~foreign => \/ resolv = {LocalIP}
              \/ /\ resolv # {} /\ resolv \subseteq Independent
                 /\ Cardinality(resolv) <= MaxServers

\* When no command runs, the recorded mode names the resolver dns-guard put in
\* place and the fallback time exists exactly in bootstrap mode, unless a record
\* was cut short by a kill or a failed write and no later transition was recorded
\* in full (record_resolver_mode, written after the resolver itself).
RecordsMatchResolver ==
  lock = "free" /\ ~foreign /\ ~disturbed =>
    /\ (mode = "local") <=> resolver_is_local
    /\ since <=> (mode = "bootstrap")

-----------------------------------------------------------------------------
(* What the proofs need besides: why the properties above are inductive.   *)

Working(p) == proc[p].pc \notin {"idle", "lock"}

\* A command works only with the lock in its hands.
LockHeld == \A p \in Procs : Working(p) => lock = p

\* promote_local_ready's look at the flag still holds when it writes: whoever
\* creates the flag needs the lock.
FlagClearAtPut == \A p \in Procs : At(p, "put_local") => ~flag

Usable(list) == /\ list # {} /\ list \subseteq Independent
                /\ Cardinality(list) <= MaxServers

ListUsableAtPut == \A p \in Procs : At(p, "put_boot") => Usable(proc[p].list)

\* Between the readiness check and the streak file auto is one run ahead of it.
Ahead(p) == \/ At(p, "look") \/ At(p, "increment")
            \/ proc[p].pc \in {"list", "ask"} /\ proc[p].goal = "decide"

Promoting(p) == At(p, "gate") \/ At(p, "put_local")

StreakEarned ==
  /\ streak <= healthyRuns
  /\ \A p \in Procs :
       /\ Ahead(p) => proc[p].cmd = "auto" /\ Capped(streak + 1) <= healthyRuns
       /\ Promoting(p) /\ proc[p].cmd = "auto"
            => proc[p].goal \in {"reassert", "escape", "streak"}
       /\ Promoting(p) /\ proc[p].goal = "streak" => streak = Threshold

\* The record lags behind the resolver, and the time file behind the mode.
Lagging(p) == proc[p].pc \in {"count", "since", "clear"}
Unrecorded(p) ==
  /\ At(p, "record")
  /\ proc[p].goal \notin {"saw_local", "saw_bootstrap"}

RecordsFollow ==
  /\ ~disturbed /\ (\A p \in Procs : ~Lagging(p)) => (since <=> mode = "bootstrap")
  /\ ~disturbed /\ ~foreign /\ (\A p \in Procs : ~Lagging(p) /\ ~Unrecorded(p))
       => (mode = "local" <=> resolver_is_local)
  /\ \A p \in Procs :
       /\ Promoting(p)
            => proc[p].goal \in {"operator", "reassert", "escape", "streak"}
       /\ At(p, "record") /\ ~foreign => (NewMode(p) = "local" <=> resolver_is_local)
       /\ proc[p].pc \in {"count", "since"}
            => mode = "bootstrap" /\ (~foreign => ~resolver_is_local)
       /\ At(p, "clear") => mode = "local" /\ (~foreign => resolver_is_local)
=============================================================================
