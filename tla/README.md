# TLA+ models of the ASUS Edge Gateway

Specifications of two things in this repository. One is where a router or its data
can be left in a bad state: the fail-open DNS controller, the emergency switch
around it, the DNS log collector, backup and restore, the start of services. The
other is where something is said about the router that may not be so: the HomeLab
Control Center, which answers questions on its past and present from samples, and
the local agent C.63, which weighs such samples before a language model may be
asked. Every definition is translated from the code; `PROJECT.json` names the lines
behind each one. All line numbers below
refer to the files under `src/`.

- [The system](#the-system)
- [Modules](#modules)
- [Runs, bounds and fairness](#runs-bounds-and-fairness)
- [Where the code and its documents disagree](#where-the-code-and-its-documents-disagree)
- [What is proved](#what-is-proved)
- [What is not modelled](#what-is-not-modelled)
- [Plan](#plan)

## The system

| Component | State it keeps | Operations | Talks to | Hard because |
|---|---|---|---|---|
| **DNS Guard** `router/scripts/dns-guard` | `/tmp/resolv.conf`, the break-glass flag on `/jffs`, streak, mode, counter, time and health files in `/tmp`, a lock file | `auto`, `promote`, `fallback`, `breakglass-on`, `breakglass-off`, `ready`, `metrics`, `status` | NVRAM, Unbound, Pi-hole, upstream DNS | many processes, a firmware that writes the same file, kills between two writes |
| **Break-glass orchestrator** `router/scripts/edge-dns-breakglass.sh` | WAN DNS keys in NVRAM (memory and flash), snapshot file, operation lock | `on`, `off` and the two ways back | DNS Guard through the supervisor, `service restart_wan` | a transaction over NVRAM, files and an asynchronous restart; retries; interruption |
| **Supervisor** `router/src/edge-dns-supervisor.c` | one child and its descendants | run a command with a deadline | the two above | ends a command in the middle |
| **WAN hook** `router/scripts/wan-event`, `wan-event-handler` | none | runs `dns-guard auto` before and after the WAN's DNS is up, restarts tailscaled | DNS Guard | runs beside cron |
| **services-start**, **firewall-start** `router/scripts/` | a directory lock; iptables chains | bring services and the firewall up at boot and on events; schedule cron's `dns-guard auto` | Entware, iptables, cron | started twice, fail closed |
| **Collector** `monitoring/pihole-dns-collector.py` | SQLite database with checkpoint, journal and pending rows; prepared file; `queries.ndjson` | one run a minute | Pi-hole's API, read by Alloy and Loki | stops anywhere, must neither lose nor repeat a line |
| **restore.sh**, **backup.sh** `scripts/` | live files under `/jffs` and `/opt`; a temporary workspace | verify, snapshot, copy, roll back | the file system | one of many copies fails; signals |
| **backup-pihole-dr.py** `scripts/` | an archive in memory, its encrypted form as `.partial` and under its name | hash, tar, hash again, compare, encrypt, decrypt, rename | Pi-hole over SSH, age | the router changes while it is read |
| **install.sh**, **uninstall.sh**, **update-tailscale.sh** `scripts/` | installed files, a rollback snapshot | install, remove, update | the file system, init scripts | partial failure |
| **RouterCloud** `scripts/routercloud-*` | live and staged web index, restic repository | stage, activate, roll back, back up | the file system, restic, rsync | a crash between the swap and its note |
| **Web UI**, **monitoring scripts** | bind mounts, status files | mount, render, measure | httpd, Prometheus | presentation and I/O |
| **Control Center, history server** `experiments/fedora/homelab-control-center-v0.1/` | slots, a lock, threads, one child process | listen, admit, read through a child, answer | browser, source child | clients that go or are silent; children that hang |
| **Control Center, evidence** same place | none: exported series in, a report out | join, find gaps and segments, check, check again; find transitions, bound them, archive them | VictoriaMetrics, the child's JSON | samples lost, late, repeated, contradictory |
| **Control Center, live status** same place | none | a few queries and a projection of their answers | VictoriaMetrics | the answers are of different moments |
| **Agent C.63, observations** `experiments/fedora/local-ai-agent-v0.21/c63/` | a report, carried from script to script | observe twice; read a past incident, classify, compare, join with the journal, validate | VictoriaMetrics, journals | eight range queries that make one grid |
| **Agent C.63, evidence gate** same place | none | weigh evidence, read a report back, ask a model, check its reply | Ollama | a reply that is cut short or wrong in one field |

How they meet: cron starts `dns-guard auto` every minute (scheduled by
`services-start:286-316`), the WAN hook starts it on a WAN event, the operator
starts any command, and the break-glass orchestrator starts `breakglass-on`,
`ready`, `fallback`, `breakglass-off` and `promote` under the supervisor. They
share `resolv.conf`, the flag and one flock. The firmware shares `resolv.conf`
and NVRAM with all of them and takes no lock. The collector, the backup and the
restore script share nothing with these at run time. `dns-guard metrics` prints mode,
counter and times; a collector outside this repository's `src/` scripts stores them in
VictoriaMetrics as the series that the Control Center and C.63 read. What these
read may thus be late, lost or cut short by DNS Guard's own failures (a counter that
was not written), and nothing of it flows back: a wrong claim misleads a person, it
does not switch anything.

What makes each correct:

- DNS Guard: it fails open (unusable local path, usable upstream: bootstrap DNS);
  it comes back, but not before the local path was healthy often enough; it never
  overrides break-glass; what it records is what it did.
- Break-glass: what it reports holds; the operator's own DNS mode is never lost;
  the switch is off only when all is back; every run ends.
- Collector: each query once, in order, none left out, whatever stops it.
- Restore: nothing changes before all is saved; the report at the end is true.
- Backup: what has the archive's name is one moment of the router.
- services-start: one start works at a time, and a dead one blocks nobody.
- History server: every slot comes back, one child at a time, evidence only from a
  child that ended well, and every request ends.
- Evidence and live status: nothing is claimed that did not happen or is not recent;
  a report that passes the checks is one that samples can have, and a true one
  passes.
- C.63: a claim of distinct or resumed observations, of a correlation or of a pass
  rests on samples, journal rows or replies that bear it out.

## Modules

| Module | Of | Shape |
|---|---|---|
| `DnsGuard` | dns-guard | a record per process (`pc`, command, goal, probe index, candidate list, exit status) and the shared files |
| `Breakglass` | edge-dns-breakglass.sh, supervisor as seen from it | EXTENDS `DnsGuard`: the script is one more state machine, and the guard commands it runs are real `DnsGuard` processes on behalf of the process `Desk` |
| `QueryLog` | what the readers of `queries.ndjson` rely on | abstract specification: a growing log |
| `Collector` | pihole-dns-collector.py | one process, its files and database, Pi-hole's memory and disk; refines `QueryLog` |
| `Restore` | restore.sh `--apply` | one process over a map of files |
| `DrBackup` | backup-pihole-dr.py | one process that reads a changing disk of versions, three times |
| `ServicesStart` | services-start: its lock, and tailscaled under it | a record per pid over the lock directory, the owner file and the number of tailscaled processes |
| `HistoryServer` | v06_b3b_mock_http.py, v06_b3b2b_manual_http.py, the supervised read with its cancellation | a thread (`pc`), a client, a child and its pipe for each request; slots and the lock |
| `Coverage` | v06_history_source.py, v06_coverage_model.py, the two checks of a report | functions from streams to a report, its loops as recursive functions over the samples, and the three hands it goes through |
| `DnsEvents` | dns_guard_event_model_v01.py, dns_guard_history_join_v01.py, v05_history_archive.py | a router that switches, a collector of rows, and the functions that read its past off the rows |
| `Observation` | assess of C.63.8.1 | constants only: the classification of one observation |
| `LiveReads` | V0.2, V0.3, V0.4, C.63.8.1 and C.63.9 | one reader's queries, sample by sample and step by step of the clock; EXTENDS `Observation` |
| `Incident` | C.63.10 to C.63.14 | a grid of slots over the queries of a past window, and what five scripts make of it; EXTENDS `Observation` |
| `CliReport` | the report C.63.1 reads back | constants only: counts, windows, chronology, overlap |
| `Advisor` | C.63, C.63.1 to C.63.7 | one command: evidence weighed, requests made, replies checked; EXTENDS `CliReport` |
| `MC*` | | instances for TLC; `MCRestore`, `MCEvidence` and `MCAgent` hold several modules whose components never meet, a behaviour being one of one of them |
| `*_proofs` | | proofs about the module of that name; `Recovery_proofs` about `Restore` and `DrBackup`, `Agent_proofs` about `Incident` and `Advisor`, `Evidence_proofs` about `LiveReads` and `DnsEvents`, `History_proofs` about `HistoryServer` and the `Coverage` it answers with |

Each action has the name of the function or step it stands for; operators with a
suffix such as `Acquire_Unchecked` are plausible bugs, used to see that the
properties notice them and never part of a specification.

**DnsGuard.** A step of a process is one access to something others can change:
taking the lock, one readiness probe, reading the WAN keys, one query to the
candidates, the rename over `resolv.conf`, one state file. Nothing else of the
script is visible to anybody. `goal` says why a step was reached, standing for
the place in the script it returns to: `fallback`, `decide` (the bootstrap
check of `auto_policy:915`), and the four ways into `promote_local_ready`
(`operator`, `reassert`, `escape`, `streak`). Abstracted: a resolver file is the
set of its nameservers, times are only present or absent, the NVRAM keys are one
sequence of candidates. Three history variables serve the properties:
`healthyRuns`, `foreign` (the firmware wrote `resolv.conf` last) and `disturbed`
(a record was cut short). A killed process may leave a helper behind which holds
the flock's descriptor until its timer ends it: lock value `"orphan"`.

**Breakglass.** `desk.pc` walks through the functions of the script, `desk.phase`
tells the four callers of the shared calls apart (`on`, `off`, the rollback of a
failed `on`, `rearm_safe_breakglass`). NVRAM is two keys in memory and two in
flash; a reboot brings back the latter. `restart_wan` is a message: the firmware
acts on it at any later time, in the mode NVRAM has by then, and a request that
failed may have been delivered. The supervisor may end a guard command at any
step.

**Collector.** The line of query *i* is two bytes, so that a file can end in half
a line. SQLite transactions are atomic steps at each `commit`; a directory that is
not synced may lose a rename when power fails.

**Restore.** Each file is `old`, `new`, `torn` or `absent`. The signal handler
only removes the workspace, as the trap does, and the script goes on.

**ServicesStart.** The lock is what it is in the script, a directory and a file in
it: `mkdir`, the opening and the writing of the record, the reading, the two
removals and the second `mkdir` are steps of their own. A file that is removed
while another start has it open is no longer the file of that name (`linked`).
A pid is used again, with another start time (`life`). The work of a holder
(`stop` to `rest`) is the restart and start of tailscaled with its retries; what
follows is one step. An attempt may fail although its child comes up later,
because the first `pidof` may be too early; a retry some seconds later is taken to
see it. Two history variables: `raced` (a start began while another was acquiring)
and, for each process, `alone` (nobody else ran since it began).

**DrBackup.** The content of a file is the number of its version and a hash is the
content it is of, so that equal hashes mean equal files. A version never comes back.
Owners and modes of the directories are read once, and nothing compares them. Each
file read, `die`, the damage of an encryption and a kill are steps; `instants` is the
history of what the router has been since the script began.

**HistoryServer.** A thread's steps are the calls at which others may go on: taking
the lock without waiting, starting the child, `select`, the read of one block, the
wait for the exit, the kill of its group, the answer. A child may print, close its
output and stay, ignore its end or be killed from outside; a deadline may pass
wherever the code waits with one. `Interrupt` is Ctrl+C, which leaves the daemon threads
and what they watched. A connection is forgotten when it ends (`Forget`): nothing
of it is left that the code could read.

**Coverage.** `Exports` is everything VictoriaMetrics may answer, `Forgeries`
everything a child of another making may print; both go the way of `Accept` (the
parent's `_project`) and `sanitize_result` (the answering process, the same function once
more). A malformed line ends in the same `UNKNOWN` as a bad sample, and so do the router's own
times when they are ahead of the row's collection (`NoneAhead`, v06_coverage_model.py:108-112;
the rows that are valid, 113-118). `GapLoop`,
`SegmentLoop` and `valid_sum` give what the loops of the code hold after each of their
steps. A sample carries its collection (`batch`), which the code cannot see.

**DnsEvents.** The router is history: its switches are what the claims are about and
the code never sees them. A reboot empties `/tmp`, so that `record_resolver_mode` finds
no mode and records whichever it is told as a new one: the counter starts again at 0 or
1, the last transition is the reboot, and the fallback has lasted since then. A row is what `dns-guard metrics` said at a moment, and
`BadRow` one that contradicts itself or comes twice.

**LiveReads.** A sample has the time it was stored, the time it was collected and what
it shows. An instant query finds the newest one that is not older than the lookback.
Between any two queries of a reader samples may be stored; the clock moves at most
one step during them, as every query has a timeout.

**Incident.** A slot's sample is seen from the slot: its age, how much later than its
collection it is, and the mode. The scripts after the queries are functions, each a step;
the validation is all that C.63.14 asks of a report, the total of the slots, the count of
Wi-Fi markers, both overlaps and the other counts among it. This public copy reads nothing
live: `fetch` of C.63.11 raises (57-59) and its `main` stops before the read (406-409),
C.63.13 neither reads journals nor the store (70-72, 401-405), C.63.14 takes no operator's
report (332-334), and every getter in the repository is a fixture. What the model runs is
`observe_historical` as written, with its parameter `getter` and its own words
`non_atomic_gets`; `Arrive`, one sample that is stored between two of the eight range
queries, is thus more than happens at this commit. The properties hold with it and
without it.

**Advisor** and **CliReport.** Digests stand for what they are of. The whitelisted cases
of C.63.6 and the fixed report are data of the code and are spelled out; a reply is the
right one with any of its fields wrong (`Lies`). Minutes and slots are seconds and
`\div`, because the code compares texts `HH:MM`.

## Runs, bounds and fairness

| Run | Instance | Question |
|---|---|---|
| `dns_guard` | cron, operator; 2 probes; threshold 2; 3 troubles | type, usable writes, records, break-glass, hysteresis |
| `dns_guard_live` | the same with 2 troubles | fails open, recovers |
| `breakglass` | cron, operator; 2 troubles | reports are true, the flag goes last |
| `breakglass_live` | 1 trouble | the script ends |
| `breakglass_durable` | 1 trouble | an `off` that gives up the snapshot has its mode in flash: violated |
| `collector` | 4 queries, pages of 2, 2 pages, 3 troubles | order, refinement, catches up |
| `restore` | 2 files each below `jffs` and `opt`, and the hook; a backup of 3 files and a directory with 2 changes | reports are true, snapshot first, a backup is one instant |
| `restore_signal` | the same | the rollback's report is true: violated |
| `services_start` | 2 pids with 3 lives each, 2 attempts, forced restart | one holder unless two starts race, one tailscaled, a dead lock blocks nobody |
| `history` | 3 requests, 2 of which send; 2 slots; 2 blocks | slots, the lock, whole evidence, losses noticed, every request ends |
| `evidence` | a window of 6, 5 moments, 3 samples of 2 targets | coverage, transitions, live claims are borne out |
| `agent` | 4 slots of 7; evidence of at most 5 rows, reports of 3 slots, every wrong reply | the incident's and the agent's claims are borne out |

*Properties, in words.* `BreakglassBlocksPromotion`: with the flag there, only the
firmware puts the local resolver back. `PromotionIsEarned`: `auto` leaves a working
bootstrap only after `Threshold` healthy runs in a row. `GuardWritesAreUsable`:
what dns-guard writes never leads back to the router's own resolver by mistake
and is never empty or too long. `RecordsMatchResolver`: mode and time file agree
with the resolver at rest. `FailsOpen`, `Recovers`: where it all settles.
`ArmedMeansArmed`, `ClearedMeansRestored`: the words the script prints.
`FlagOutlivesRestore`: the flag is removed last. `ScriptEnds`. `OutputInOrder`:
the output is a prefix of the true log at every moment. `ImplementsLog`: the
checkpoint moves as `QueryLog` says. `CatchesUp`: after the last failure
everything is collected, also what Pi-hole has only in memory. `ReportsAreTrue`,
`SnapshotComesFirst`: the restore. `OneHolderUnlessRaced`, `OneTailscaled`: one start
works at a time, and never a second tailscaled, however earlier starts ended and
whichever pid is used again, as long as no two starts are acquiring the lock at
once; without that condition it is `OneHolder`, which does not hold.
`AloneSucceeds`: a start with nobody else around gets past whatever is left of the
lock, unless a call of its own fails. `PublishedIsOneInstant`: the archive under its
name has for every file what the router had at one moment, never a mixture and
never a damaged encryption.

`SlotsAccounted`: free slots and threads add up, on each of the ways a thread can end.
`OnlyTheHolderReads`: a child that runs is that of the lock's holder, and its thread
watches it. `EvidenceIsWhole`: an answer with evidence comes from output that was read
to its end, within the cap, of a child that exited with 0. `LossEndsTheRead`: after its
client went, a thread reads at most the block it had turned to. `EveryRequestEnds`.

`ReportIsSound`: a report's rows, gaps and segments are those of the samples, one
collection a row. `ReportsAreAnswered`: both checks let a true report through.
`AnsweredIsPossible`: what they let through, if it has no invalid rows, is the report of
some samples.
`ClaimsHappened`: no transition is invented. `DurationsAreBounds`: the bounds given for a
fallback hold for the one that ended there. `VerifiedIsComplete`: a verified archive
has every switch in its span. The last two exclude spans in which the counter was reset
or missed a switch: one unnoticed reset and one equal count look like neither.
`ClaimIsFresh`: somebody collected what a status says, and not long before, though
flags and times were read one after the other. `DistinctMeansNewer`: the second of two
distinct observations shows a mode collected after all that the first saw.

`SlotsAreTrue`: a qualified slot has a young sample in its mode, although each metric was
read on its own; an unqualified one, if nothing arrived meanwhile, has none.
`PostWindowAdvances`: the two statuses of C.63.10 for samples that do not advance
after a window cannot come up. `CorrelationIsReportable`: what C.63.13 calls a correlation
none of C.63.14's checks refuses, and C.63.12 never meets a contradiction. `DecisionsAreWitnessed`:
evidence called ready has its gap, its SSH timeout near it and two later samples, and what
is read back from a report is what its grid and times say in seconds. `PassIsComplete`: a
pass means every request was made, answered whole and with its own packet's codes, and
in the gated command that every other case was weighed and refused.

*Bounds and why they are enough.*

- Two processes: the lock is the only thing they wait for and a holder excludes
  all others alike; a third waits as the second does. The proofs below are for
  any number.
- `Threshold = 2` is the least with a streak that is neither empty nor earned;
  `MaxServers = 1` with three settings of the WAN keys (none usable, one beside
  the router itself, a duplicate and one too many) reaches every cut;
  `CountLimit = 1` makes the counter wrap; two probes let the second fail after
  the first passed. In `Breakglass` the policy inside the guard is not the
  question, so that there `Threshold` and the probes are 1 and both WAN modes
  lead to the same independent server, in the manual mode after the router itself.
- `MaxTrouble` bounds how often, in one behaviour, something happens that need not:
  an operator's command, a kill, a failed write, a reboot, a change of health
  or of the firmware's files. The usual steps are not bounded. Two or three are
  enough for one failure during the recovery from another.
- `MaxTries = 2` for the four calls in `wait_for_bootstrap_dns`: a first, a last.
- Pages of 2 with at most 2 pages and 4 queries: full, half-full and exactly
  full batches, and one query too many for a run that fails closed.
- `MaxLives = 3` for two pids: a start, one that finds what it left and is killed
  or fails over it, and one that finds what that one left, also under a pid that
  is on record. Symmetry over the pids: nothing tells them apart. `Attempts = 2`: a
  retry and a last one. With `ForceRestart` tailscaled is stopped as well as started.
- `history`: the lock and the slots are each wanted by more than can have them (two
  slots for three requests, one lock for two threads); one request never sends, the
  client that keeps a slot; two blocks are one within the cap, one that fills it, and
  more is the child that prints over it. A connection that ended is queued again, so that
  there is no end to the requests.
- `evidence`: constants scaled so that every comparison has both outcomes. Coverage:
  a window of 6 with a gap above 2, skew, delay and lead 1, at most 2 gaps and segments
  in a report; six series, those the report depends on; every pattern of collections and
  validity (see `Value` of `MCEvidence`), and losses in a flag of the mode, in the
  collections or in the other series together, where samples are further apart than the
  skew (the code's 5 s against 60 s).
  Events: 5 moments, 4 rows, 3 switches (there, back and there again), one reset,
  gaps of at most 2, at most 3 events. Live: lookback 5 above the limits 2 and 3,
  3 samples, 2 targets, the second observation 1 or 2 after the first.
- `agent`: slots of 7 with TTL 2, spread and lead 1 keep the code's order (300 against
  120, 15 and 5: `SlotsAreLong`); 4 slots are one before a window, a window, and two
  after; five kinds of sample: fresh, late, invalid, ahead, and stale beside a newer
  collection. Journals of two or three events around the slots, of one boot or two.
  Evidence and reports are in the code's own seconds, on, before and after each limit.
- `restore`: three files so that one can change before, while and after the others are
  read; two changes make a mixture and hide it again if anything could.
- `BreakglassNext` leaves out `WanChanges` alone: there the WAN keys change by
  `WanRestarts`.

*View.* `breakglass` and `breakglass_live` use `VIEW MCView`, which leaves out
variables that no guard of `Breakglass` reads (counter, time and health files, the
history of `DnsGuard`, the exit status of cron's command, the last report).
States that agree on the rest have the same successors up to the same variables.
The properties of these runs compare a step's report with the rest of the state
and need nothing that is left out. The type of those variables is checked in
`dns_guard`.

*Fairness.* `dns_guard_live`: cron starts `auto` again and again
(`services-start:311`), a command that runs goes on (every helper it waits for has
a timer, `dns-guard:51-86`), and a left-over helper ends by the same timer. Nothing
is assumed of the firmware or of services. `breakglass_live`: the script goes on
and so does its own guard command; of cron's guard nothing is assumed, it may hang
with the lock, and the script must end nonetheless (the lock wait and the
supervisor see to it). `collector`: the timer starts the collector again and a
run goes on. `history`: a
thread that can go on does and deadlines pass, for the requests of clients that send
(`WF` of `ServerStep`); nothing is assumed of clients, of children, or of a connection on
which nothing is ever sent. Only weak fairness is used. Restore, backup, the bounded
starts of services-start, the readers and the agent's commands end by themselves, so that
deadlock is checked everywhere but there, and not in `history`, where Ctrl+C ends it.

`CatchesUp` excludes two states in which the collector stops on purpose: a
journal whose prepared file is lost, and more queries than a run may read.
`RecordsMatchResolver` excludes records cut short (`disturbed`) and a resolver
the firmware wrote: the code writes the record after the resolver, and only the
next full transition makes up for a lost one.

## Where the code and its documents disagree

Two are runs that end in a counterexample.

1. `breakglass_durable`, violates `ClearIsDurable`: who removes the snapshot of the
   operator's mode has that mode in flash. After an `on` that passed, an `off` sets
   both keys and is ended before its `nvram commit`. Its retry finds nothing to
   change, does not commit, reports the switch as cleared and removes the snapshot
   (`edge-dns-breakglass.sh:264-288`, against the intent of
   `tests/test-dns-breakglass.sh:398`, "interrupted clear state converges on
   retry", which looks at NVRAM in memory only). Flash has the forced mode still, and
   no record of the operator's: the next reboot brings the forced mode back for good.
   The property is only about a snapshot that is the operator's mode, as one may be
   saved of a forced mode too (4.).
2. `restore_signal`. The trap of HUP, INT and TERM (`restore.sh:77`) removes the
   workspace and does not exit. A copy that fails afterwards is "rolled back"
   without manifest or snapshot, and the script says "pre-restore state recovered"
   (against `docs/operations.md:124`).

The modules state the following too; each can be seen with TLC by naming the
definition in a configuration.

3. `dns-guard` accepts any positive query timeout (132-139)
   and then refuses every duration above 120 in the helper that runs all probes
   and NVRAM reads (59-60). With 121 the local path always counts as unhealthy,
   the WAN keys as empty, and nothing is ever restored, against "Timeout intervals
   are capped at 120 seconds." (`docs/dns-guard-v3.2-recovery-audit.md:229`):
   `FailsOpen` with `QueryTimeout = 121`.
4. `off` without a snapshot whose later step fails arms the
   switch again: it forces and commits the provider's DNS with no record of the
   operator's mode (`edge-dns-breakglass.sh:255`, against
   `docs/dns-guard-v3.2-recovery-audit-live-validation.md:351`):
   `ForcedModeHasSnapshot` of `Breakglass`.
5. `services-start` makes its lock directory (184) and records the
   owner in it later (190). A start in between reads no owner, takes the lock for
   stale and removes record and directory of the one that has it (215-219); both
   go on. The same happens when two starts read the same stale record and one has
   replaced it before the other removes it. Against
   `docs/worklog/2026-09-23.md:14`, "while preserving the live lock owner": `OneHolder`.
   `OneHolderUnlessRaced`, which is proved, says that this is the only way to two holders.
6. Ctrl+C ends the history server without waiting for its threads
   (`v06_b3b2b_manual_http.py:132-137`), and the child, in a session of its own, has nobody
   that ends it. Against `V0.6-B3B2B-MANUAL-LOCAL-HISTORY-HTTP-PREFLIGHT.md:13`, "The
   supervisor independently bounds child lifetime": `ChildIsBounded` of `HistoryServer`.

Smaller things that modelling showed, and that no property here contradicts:

- V0.4 and V0.2 ask for the age of a probe last. The answer may be of a newer sample
  than the one that was healthy, so that "OK" is bounded by the lookback and not by
  the limit on the age; `v04_router_dns_model.py:32` calls it "one fresh
  successful DNS probe". `FreshLimit` states the bound that holds.
- `_project` compares gaps with segments only in a report without invalid rows. With
  some, a report with impossible segments is answered; `AnsweredIsPossible` is therefore
  about reports without them.
- C.63.8.1 lets a collection be 5 s ahead of the clock, and the check of its report
  (C.63.11) refuses one that is ahead at all: it ends in HOLD.
- C.63.14 refuses a report without a correlation too when one of its three markers was
  not observed, although C.63.13 writes such reports.

## What is proved

All of the following is checked by TLAPS for every value of the constants that
satisfies the assumptions of the module, on the specification itself, without the budgets
of the runs.

**DnsGuard** (`Spec`; any set of processes, servers, probes, any threshold, any WAN
settings, any firmware).

| Theorem | Statement | Argument |
|---|---|---|
| `TypeCorrect` | `Spec => []TypeOK` | inductive by itself, an action at a time |
| `MutualExclusion` | `Spec => []LockHeld` | with `TypeOK`. A kill frees the lock of the one it kills, or leaves it to an orphan |
| `PutsSafe`, `BreakglassSafe` | `Spec => BreakglassBlocksPromotion` | `FlagClearAtPut`: whoever is about to write the local resolver has seen no flag, and whoever creates one needs the lock that `LockHeld` gives to the writer |
| `WritesUsable` | `Spec => []GuardWritesAreUsable` | `ListUsableAtPut`: the list carried from the WAN keys is usable, from the cardinality of an initial segment of candidates |
| `StreakNeverAhead`, `Hysteresis` | `Spec => PromotionIsEarned` | `StreakEarned`: the streak file never exceeds the true number of healthy runs, one run being counted between its last probe and the write of the file |
| `RecordsKeepUp`, `RecordsMatch` | `Spec => []RecordsMatchResolver` | `RecordsFollow`: at each label of `record_resolver_mode`, what is already written and what is not |

None of these invariants is inductive as the property states it: each speaks of
the state at rest or of one step, and its proof needs what holds at the labels in
between. The strengthened ones stand at the end of `DnsGuard.tla`. The assumption
names: `LocalIP` is a server and never an independent candidate
(`bootstrap_dns_candidate_valid`), the threshold is positive (checked at startup),
no process is called `free` or `orphan`.

**The others.** The invariant of each stands at the head of its proof module.

| Theorem | Statement | Argument |
|---|---|---|
| `HistoryTypeCorrect`, `HistorySlots`, `HistoryReads`, `HistoryEvidence`, `HistoryLoss` | the type and the four safety properties of `HistoryServer`, for any number of connections, slots and blocks | one invariant: the account of slots by the cardinality of the live threads (one thread more or fewer per step), the lock with exactly those that hold it, and for each request what its `pc` says of its child, its pipe and what it has read |
| `ArmedIsArmed`, `ClearedIsRestored`, `FlagGoesLast` | `BreakglassSpec => ArmedMeansArmed`, `ClearedMeansRestored` and `FlagOutlivesRestore`, for any processes beside the script, any WAN settings and tries | two layers. `Commanded`: what the guard command the script waits for has done so far, from the fact that a `dns-guard` step changes the flag only in `breakglass-on` at its own label or in `breakglass-off`, and that only the script gives those commands. `Sequence`: at each `desk.pc` what the flag, the two keys and the snapshot are, if the phase has counted no failure |
| `BackupIsOneInstant` | `BackupSpec => []PublishedIsOneInstant`, for any files and directories | versions only grow. At the end of the first round of hashes the disk is remembered as the instant; a file whose version is the same in the first and in the last round had it there. So hashes, tar and rehash that agree are that instant |
| `ServicesOneHolder`, `ServicesOneTailscaled` | `OneHolderUnlessRaced`, `OneTailscaled`, for any pids, lives and attempts | while nothing raced, at most one start is acquiring; the live holder is on record, so that whoever reads the record finds it alive and gives up; and a launch follows a look that found no tailscaled |
| `ServicesAlone` | `ServicesSpec => AloneSucceeds` | a start that was alone finds directory and record as it left them itself, at each of its steps |
| `RestoreReports`, `RestoreSnapshot` | `ReportsAreTrue`, `SnapshotComesFirst`, for any finite archive | for each of the loops: a path that is no longer in what the loop still has to do is done (saved, copied, put back) |
| `IncidentAdvances` | `IncidentSpec => []PostWindowAdvances`, for any slots, samples and limits | a qualified slot's times lie within the limits of the slot, so that with `SlotsAreLong` those of a later one are greater; first and last slot of a window by well-founded induction, and the samples that were read before and after one arrived |
| `OutputIsInOrder`, `CollectorTypes` | `CollectorSpec => []OutputInOrder`, for any number of queries, any page size and limit of pages | one invariant, a conjunct for each label of a run: what `pending` holds of the queries after the checkpoint while a source is read from its newest query down (`PageInv`: the gap lies between what is known and the current page), that the journal is the lines after the checkpoint, and that the output ends somewhere in them. The lines of a batch are those of an interval of ids (`BytesOfInterval`) |
| `CollectorImplementsLog` | `CollectorSpec => ImplementsLog`: every step of the collector is one of `QueryLog` or none | what is collected is the initial segment up to `last_id`, from `OutputInOrder`; `Checkpoint` and the recovery extend it, every other step leaves it alone |
| `ReportedSlotsAreTrue` | `IncidentSpec => []SlotsAreTrue`, for any reference grid, samples and limits | each answer is of the store as it was before or after the one sample that arrived, and which of the two is the same from some query on; a slot of the report is then one of the two, from its `assess` |
| `CorrelationsAreReportable` | `IncidentSpec => []CorrelationIsReportable` | a timeline that matches the reference is one that resumed and advances (`MatchResumes`): the reference has one window, and by `PostWindowAdvances` the samples after it are newer; what the join then finds satisfies each check of the report: a time that overlaps or follows is one at least, so that counts and buckets are there (`SomeTimes`, `CompareCounts` for the total of the slots, `JoinIsReportable` for the report as a whole) |
| `DecisionsHaveWitnesses`, `PassesAreComplete` | `AdvisorSpec => []DecisionsAreWitnessed`, `[]PassIsComplete`, for any evidence, reports and replies of the model | decisions: from the definitions, with two facts on finite sets of events. Passes: an invariant of the requests made so far, their answers and verdicts, and for the gated command the cases weighed so far, counted by cardinality |
| `ClaimsAreFresh` | `LiveSpec => []ClaimIsFresh`, for any targets, samples and limits | a read ends within a step of the clock, and each of its answers is of a sample: `Answered(d)` says of which, the later query never of an older one. A claim rests on the flags and on the collection they belong to; with `Apart` the eight answers of an observation whose times are within the spread are of one sample |
| `DistinctObservationsAreNewer` | `LiveSpec => []DistinctMeansNewer` | the first answer of the second observation is a later sample than all that the first one has seen |
| `ClaimedHappened` | `EventsSpec => []ClaimsHappened`, for any rows of any history | `EventsInv`: every row has its place among the switches of the router, the one after which it was taken, and the counters of two rows differ by the switches between them unless a reset came in between. What the loop holds after each row (`StateHolds`: the previous row and the rows of the fallback window) by a least counterexample. A claimed window then has a switch of the right direction, by the parity of the places |
| `DurationsBounded` | `EventsSpec => []DurationsAreBounds` | the loop's window is that of rows with one counter (`Opened`), so that without a reset its rows have one place, and the switch back is the next. The upper bound needs no counter: the row before the window said LOCAL |
| `VerifiedComplete` | `EventsSpec => []VerifiedIsComplete` | without an unsure event every row follows the one before (`Follows`), so that their places differ by none or one, and by one only where the mode changes. This gives an injection of the switches between the first and the last row into the changes of mode, which are the windows |
| `ReportSound` | `CoverageSpec => []ReportIsSound`, for any window, limits and series | what a loop leaves is a list in order of what it should find (`Lists`): the gaps of the places before which there is one (`Silent`), the segments of the `Starts` and `Ends` of the runs, with counts that add up to the valid samples (`FoundHolds`). Each loop is followed sample by sample. A place in `Silent` is a stretch over the threshold without a sample, a start with the end that follows it a longest run. Rows are of one collection by `CollectionsAreApart` |
| `SourceAnswered` | `CoverageSpec => []ReportsAreAnswered` | for each check of `_project` that what `analyze` prints passes it. The hard one is `Joined`: without invalid rows every internal gap ends one segment and starts the next, so that the two lists of starts, that of the loop and that read off the gaps, are lists of one set and the same (`ListsAgree`) |
| `AnswerPossible` | `CoverageSpec => []AnsweredIsPossible`, whoever printed the report | the samples are laid out (`Layout`): as many in each segment as it counts rows, a threshold apart from its start on and a millisecond apart before its end (`RowTime`); `Joined` and `Possible` are what makes them fit, and the loops find the report's own gaps and segments in them |

Their assumptions are those of the modules: finite sets of requests
(`HistoryAssumption`), of files (`RestoreAssumption`), of targets (`LiveAssumption`) and of
events (`AdvisorAssumption`), of journal rows (`JournalsAreFinite`), which the code has; names kept apart; and five that
say what the code's constants and the period of the collections are:

- `SlotsAreLong` of `Incident`: 300 > 2 * 120 + 15 + 5 (C.63.11, `STEP`, :30; C.63.8.1,
  :25). With shorter slots the two statuses of `PostWindowAdvances` can come up.
- `SamplesOutlive`: `TTL_RAW >= 2 * TTL_COLLECTION`, 300 >= 2 * 120 (C.63.8.1, :25). With
  a shorter one a correlation could rest on a slot whose sample the report refuses.
- `ReferenceHasOneWindow`: the grid C.63.12 compares with (`REF_GRID`, :22) has one window
  of slots that do not qualify, a slot before it and two after.
- `Apart`, a guard of `LiveReads`: two collections of DNS Guard are further apart than
  the spread of an observation (60 s, dns-guard-monitoring.timer, against 15 s). The
  proof of `ClaimsAreFresh` showed the need: with two samples within the spread the flags of
  an observation may be of both.
- `CollectionsAreApart` of `Coverage`: samples of two series within the skew are of one
  collection (60 s against `MAX_SKEW_MS`, 5 s), or no series has lost a sample. It is
  needed: with collections closer than the skew and a loss, rows can pair two of them.

Only model-checked: the two properties that are violated, and all
liveness. Liveness under fairness and `ENABLED` are out of the prover's reach, and so is
induction over data in general. Where a property needs it all the same, the model says
the loop as a recursive function (`Loop` of `DnsEvents`, `GapLoop` and `SegmentLoop` of
`Coverage`) or a list by the rank of its members (`NthId`, `TransitionWindows`), and the
proof takes the least element for which the statement fails. No module
uses a `RECURSIVE` operator of its own.

## What is not modelled

- `dns-guard status`, logging and every printed word but the results of break-glass
  and restore; epoch values; the order of nameservers in `resolv.conf`; the
  `.last-transition` and health-check time files, which nothing reads back for a
  decision.
- The supervisor's scan for descendants: it is taken to end all of them, within
  its own deadline.
- The WAN hook beyond its two calls of `auto`.
- In the collector: validation of fields (it only ends a run), the HTTP session,
  and Pi-hole starting its ids again. Two collectors at once do not happen: systemd
  runs one instance of the service.
- In `dns-guard`: an `rm -f` of a state file in `/tmp` that fails (the streak, 315-317; the
  fallback's time, 488). The code ignores it; `/tmp` is a file system in memory, and the
  model takes these removals to succeed.
- In `restore.sh`: the verification of the archive, which changes nothing live,
  `--dry-run`, and a live path that is a symbolic link (179). A path is one file here. Of
  a link the snapshot keeps the link (`cp -Rp`), not the file behind it, so that the
  reports are shown true for paths that are files; every way in which the taking of the
  snapshot fails is `SnapshotFails`.
- In `backup-pihole-dr.py`: what its checks of the database, the account and the archive
  look at (each is a way to `Die`), and a second backup under the same name.
- In the history server: parsing and the pages; the laboratory's mock worker, which runs
  the same code with other children. In the live status: the servers around the readers,
  which answer one request at a time and keep nothing.
- In C.63: rendering and writing the report, the embedded self-tests, and the first
  C.63.3 and C.63.8, which C.63.3.1 and C.63.8.1 replace. Hashes are identities: that a
  digest is of another text is that it is another. Checks of schemas, strings, caps and
  ranges that only refuse and that no report of these scripts can fail (C.63.14's 5000:
  a code comes from one journal, which C.63.13 refuses above 5000 rows); three of the 14 synthetic cases of C.63.5, which repeat a way of refusing that
  another one has.
- In `LiveReads`: the queries of V0.3 for break-glass and watchdog, which can only
  refuse a status or turn it to DEGRADED and decide nothing of the mode it claims; the
  5 s by which a time may be ahead are 0.
- In the archive of events: the comparison of the window's collections with its samples,
  with a tolerance of 2 s (v05_history_archive.py:114-119). One time is both here; the check
  only refuses.
- In `services-start`: the waits for Entware, swap and time, Unbound, syslog-ng, cron's
  jobs and the web UI, which happen once per start and under the lock; a reboot,
  which clears `/var/run` and with it all that the module has.
- Whole components listed as `not_modelled` in `PROJECT.json`, with the reason.

## Plan

Done: `DnsGuard` with its proofs, `Breakglass` on top of it, the collector, restore and
backup, the lock of `services-start`; then the experiments, where most of the
repository's own program logic is: the history server, the evidence and the live status of
the Control Center, and the agent C.63. Each has its proofs.

What remains, in this order:

1. `Firewall` (firewall-start:233-317): chains, jumps and temporary drop rules
   under a failing `iptables`, two runs at once. The tunnel interface is never
   accepted without the policy.
2. `Install` and `UpdateTailscale`: snapshot, change, verification, rollback;
   composed with `Restore` where they share the shape.
3. `RouterCloudHome`: stage, activate, roll back, with a crash between the swap and
   its note.
4. The supervisor's scan of the process tree.
5. The WAN hook as a process of `DnsGuard`, and `webui-pl-mount`'s mount transaction.

Proofs that remain: an abstract resolver specification that `DnsGuard` implements.
