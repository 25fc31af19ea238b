----------------------------- MODULE CliReport -----------------------------
(***************************************************************************)
(* The text report of an incident (C.62.9.3) as C.63.1 reads it back: the  *)
(* slots of the metrics, the journal's events and what the report claims   *)
(* of them, checked against each other.  Times are seconds from the start  *)
(* of the window, a whole minute.  Constants only.                         *)
(***************************************************************************)
EXTENDS Integers, Sequences, FiniteSets

MINUTE == 60
GRID_SECONDS == 300
MAX_GRID == 12

Slot(i) == GRID_SECONDS * (i - 1)
Kinds(r, kind) == {i \in DOMAIN r.grid : r.grid[i] = kind}

\* Mutant: a slot of the minute of the reconnection counts as after it.
AfterWifi_SameMinute(r) ==
  {i \in Kinds(r, "FRESH") : Slot(i) \div MINUTE >= r.wifi \div MINUTE}

\* Compared as the texts HH:MM.
AfterWifi(r) == {i \in Kinds(r, "FRESH") : Slot(i) \div MINUTE > r.wifi \div MINUTE}

\* Mutant: a gap counts from its slot only.
Overlap_AtSlot(r) == \E i \in Kinds(r, "GAP") : Slot(i) \in r.ssh..r.wifi

Overlap(r) == \E i \in Kinds(r, "GAP") : Slot(i) \in (r.ssh - GRID_SECONDS)..r.wifi

CountsAgree(r) ==
  /\ r.slots = Len(r.grid) /\ r.slots \in 1..MAX_GRID
  /\ r.fresh = Cardinality(Kinds(r, "FRESH")) /\ r.gaps = Cardinality(Kinds(r, "GAP"))
  /\ r.post = Cardinality(AfterWifi(r)) /\ r.overlap = Overlap(r)

\* One reconnection; the events in their order, in the windows and of the day.
ChronologyAgrees(r) ==
  /\ r.ssh_count >= 1 /\ r.wifi_count = 1 /\ r.success_count >= 1
  /\ r.ssh <= r.wifi /\ r.wifi < r.success
  /\ {r.ssh, r.wifi} \subseteq 0..r.journal_end
  /\ r.success \in 0..r.vm_end

\* Both windows start together, and the slots fill the longer one.
WindowsAgree(r) ==
  /\ r.journal_end \in 1..r.vm_end /\ r.vm_end = GRID_SECONDS * (r.slots - 1)
  /\ r.policy_day < 0

parse_cli(r) ==
  /\ r.recovered = (r.result = "PASS")
  /\ CountsAgree(r) /\ WindowsAgree(r) /\ ChronologyAgrees(r)

CROSS == "CROSS_SOURCE_TEMPORAL_CORRELATION_ONLY"
GAP_ONLY == "SAMPLED_OBSERVATION_GAP_ONLY"
UNRELATED == "INSUFFICIENT_EVIDENCE"

\* Not what the report says it is.
assessment_status(r) ==
  IF Overlap(r) THEN CROSS ELSE IF r.gaps > 0 THEN GAP_ONLY ELSE UNRELATED

\* The report C.63.1 was written for, its times moved to another day.
fixture_cli ==
  [grid |-> <<"FRESH", "GAP", "GAP", "GAP", "GAP", "GAP", "FRESH", "FRESH">>,
   slots |-> 8, fresh |-> 3, gaps |-> 5, post |-> 2, overlap |-> TRUE,
   ssh |-> 311, wifi |-> 1542, success |-> 1582, ssh_count |-> 4, wifi_count |-> 1,
   success_count |-> 2,
   journal_end |-> 1800, vm_end |-> 2100, policy_day |-> -43,
   recovered |-> TRUE, result |-> "PASS"]

=============================================================================
