------------------------------ MODULE MCAgent ------------------------------
(***************************************************************************)
(* Incident and Advisor for TLC: a behaviour is one of the one or one of   *)
(* the other.                                                              *)
(***************************************************************************)
EXTENDS Incident, Advisor

VARIABLE part \* which of the two runs

\* Samples seen from their slot: just taken, older, of an invalid mode, with a
\* collection ahead of the sample, and old with a collection newer than it.
K(age, late, mode) == [age |-> age, late |-> late, mode |-> mode]
MCKinds ==
  {K(0, 0, "LOCAL"), K(1, 3, "LOCAL"), K(0, 0, "INVALID"), K(0, -1, "LOCAL"), K(7, -6, "LOCAL")}

MCReference == <<TRUE, FALSE, TRUE, TRUE>>

\* Two or three rows of one boot, and perhaps one of the next boot.
MCRows == [at : {108, 115, 117, 121}, code : Codes, boot : {1}]
MCJournals ==
  {rows \cup more : rows \in kSubset(3, MCRows) \cup kSubset(2, MCRows),
     more \in {{}, {[at |-> 115, code |-> "OTHER", boot |-> 2]},
               {[at |-> 115, code |-> "SSH", boot |-> 2]}}}

\* At most five rows: two gaps, one SSH timeout and two samples among them.
MCEvents ==
  {Event(c, t) : c \in {"GAP", "SSH"}, t \in {300, 601, 900}}
    \cup {Row("FRESH", t, s) : t \in {600, 901}, s \in {599, 900, 901}}
MCEvidence == UNION {kSubset(k, MCEvents) : k \in 0..5}

\* Times before, on and after a slot, within its minute and outside it.
MCTimes == {0, 299, 300, 330, 600, 630}
MCGrids == [1..3 -> {"GAP", "FRESH"}]
CliOf(g, post, overlap, ssh, wifi, success, end, res) ==
  [grid |-> g, slots |-> 3, fresh |-> Cardinality({i \in 1..3 : g[i] = "FRESH"}),
   gaps |-> Cardinality({i \in 1..3 : g[i] = "GAP"}), post |-> post, overlap |-> overlap,
   ssh |-> ssh, wifi |-> wifi, success |-> success, ssh_count |-> 1, wifi_count |-> 1,
   success_count |-> 1,
   journal_end |-> end, vm_end |-> 600, policy_day |-> -1,
   recovered |-> overlap, result |-> res]
MCCliReports ==
  {CliOf(g, p, o, s, w, f, e, r) :
     g \in MCGrids, p \in 0..2, o \in BOOLEAN, s \in {0, 299, 330}, w \in MCTimes,
     f \in {300, 600}, e \in {330, 600}, r \in {"PASS", "HOLD"}}
  \cup {fixture_cli, [fixture_cli EXCEPT !.gaps = 4], [fixture_cli EXCEPT !.policy_day = 0],
        [fixture_cli EXCEPT !.wifi_count = 2], [fixture_cli EXCEPT !.success_count = 0]}

\* A reply is right, or wrong in one member, or cut short as well.
MCLies == {{}} \cup {{f} : f \in FIELDS} \cup {{"done", "next"}}

NoIncident ==
  /\ stage = "idle" /\ stored = Nothing /\ before = stored /\ matrices = <<>>
  /\ slots = <<>> /\ boundary = "NONE" /\ parity = None /\ joined = None /\ accepted = FALSE

AgentInit ==
  /\ AdvisorInit
  /\ \/ part = "incident" /\ IncidentInit
     \/ part = "advisor" /\ NoIncident

AgentNext ==
  \/ part = "incident" /\ IncidentNext /\ UNCHANGED <<part, avars>>
  \/ part = "advisor" /\ AdvisorNext /\ UNCHANGED <<part, ivars>>

AgentSpec == AgentInit /\ [][AgentNext]_<<part, ivars, avars>>
=============================================================================
