------------------------------- MODULE Advisor -------------------------------
(***************************************************************************)
(* What the local agent may ask a language model, and when.  Evidence is   *)
(* weighed first (C.63, C.63.5) and only one whitelisted case may lead to  *)
(* a request (C.63.6); the requests are fixed packets (C.63.2 to C.63.4),  *)
(* and an answer counts only if it repeats the packet's codes.  A report   *)
(* an operator brings is read back and never leads to one (C.63.1, C.63.7).*)
(***************************************************************************)
EXTENDS CliReport, FiniteSetsExt

CONSTANTS
  Evidence,   \* sets of rows weighed by hand: [code, at, sample, sound]
  CliReports, \* reports an operator brings
  Lies        \* what a reply may have wrong: sets of members of FIELDS

ASSUME AdvisorAssumption ==
  /\ \A e \in Evidence : IsFiniteSet(e) /\ \A r \in e : r.at \in Int /\ r.sample \in Int
  /\ \A r \in CliReports : r.grid \in Seq({"GAP", "FRESH"})

VARIABLES
  step,    \* where the command is
  command, \* which it is
  input,   \* the evidence or report it was given
  weighed, \* the cases weighed before the model is asked
  decision,\* what the gate, or the report's reader, made of the input
  present, \* TRUE when the model was found to be installed
  posts,   \* the packets sent
  answers, \* the replies received
  verdicts,\* what the gate made of each
  result

avars == <<step, command, input, weighed, decision, present, posts, answers, verdicts, result>>

NONE == "NONE"
HOLD == "HOLD"

AdvisorInit ==
  /\ step = "start" /\ command = NONE /\ input = NONE /\ weighed = {} /\ decision = NONE
  /\ present = FALSE /\ posts = <<>> /\ answers = <<>> /\ verdicts = <<>> /\ result = NONE

-----------------------------------------------------------------------------
(* evaluate (C.63) and assess (C.63.5).                                    *)

MAX_EVENT_SKEW == 300
MAX_SAMPLE_AGE == 300
WINDOW_SECONDS == 2100

At(rows, code) == {r.at : r \in {q \in rows : q.code = code}}

Admissible(rows) ==
  \A r \in rows :
    /\ r.sound /\ r.at \in 0..WINDOW_SECONDS
    /\ r.code = "FRESH" => r.sample \in 0..r.at /\ r.at - r.sample <= MAX_SAMPLE_AGE

Related(rows) ==
  \E g \in At(rows, "GAP"), s \in At(rows, "SSH") :
    g - s \in -MAX_EVENT_SKEW..MAX_EVENT_SKEW

\* Mutant: the samples after the first gap.
PostGap_First(rows) ==
  IF At(rows, "GAP") = {} THEN {}
  ELSE LET gap == Min(At(rows, "GAP")) IN
       {r.sample : r \in {q \in rows : q.code = "FRESH" /\ q.at > gap /\ q.sample > gap}}

\* The different samples that were observed and taken after the last gap.
PostGap(rows) ==
  IF At(rows, "GAP") = {} THEN {}
  ELSE LET gap == Max(At(rows, "GAP")) IN
       {r.sample : r \in {q \in rows : q.code = "FRESH" /\ q.at > gap /\ q.sample > gap}}

READY == "SHADOW_READY"

\* READY, or the reason to abstain.
weigh(rows) ==
  IF ~Admissible(rows) THEN "INVALID_OR_UNTRUSTED_EVIDENCE"
  ELSE IF At(rows, "GAP") \cap At(rows, "FRESH") # {}
    THEN "CONTRADICTORY_VM_LABELS_SAME_TIMESTAMP"
  ELSE IF At(rows, "GAP") = {} THEN "INSUFFICIENT_CROSS_SOURCE_EVIDENCE"
  ELSE IF ~Related(rows) THEN "NO_QUALIFIED_CROSS_SOURCE_CORRELATION"
  ELSE IF Cardinality(PostGap(rows)) < 2
    THEN "TWO_DISTINCT_POST_GAP_SAMPLE_TIMESTAMPS_MISSING"
  ELSE READY

Row(code, at, sample) == [code |-> code, at |-> at, sample |-> sample, sound |-> TRUE]
Event(code, at) == Row(code, at, 0)

cross_source ==
  {Event("GAP", 300), Event("SSH", 330), Event("OTHER", 1080), Event("OTHER", 100),
   Row("FRESH", 1200, 1180), Row("FRESH", 1500, 1480)}

Swap(old, new) == (cross_source \ {old}) \cup {new}

\* The whitelisted cases; what is injected or spoofed makes its row unsound.
synthetic_case ==
  [baseline |-> cross_source,
   gap_only |-> {Event("GAP", 300)},
   one_fresh_sample |-> {Event("GAP", 300), Row("FRESH", 1200, 1180)},
   no_machine_evidence |-> {Event("OTHER", 100)},
   empty |-> {},
   duplicate_raw_sample |-> Swap(Row("FRESH", 1500, 1480), Row("FRESH", 1450, 1180)),
   conflicting_vm_labels |-> Swap(Row("FRESH", 1200, 1180), Row("FRESH", 300, 300)),
   stale_raw_sample |-> Swap(Row("FRESH", 1200, 1180), Row("FRESH", 1200, 899)),
   unrelated_ssh |-> Swap(Event("SSH", 330), Event("SSH", 2050)),
   spoofed |-> Swap(Event("GAP", 300), [Event("GAP", 300) EXCEPT !.sound = FALSE]),
   future_event |-> Swap(Event("GAP", 300), Event("GAP", 2200))]

CASES ==
  <<"baseline", "gap_only", "one_fresh_sample", "no_machine_evidence", "empty",
    "duplicate_raw_sample", "conflicting_vm_labels", "stale_raw_sample", "unrelated_ssh",
    "spoofed", "future_event">>

Weigh ==
  /\ step = "start"
  /\ \E rows \in Evidence : input' = rows /\ decision' = weigh(rows)
  /\ command' = "weigh" /\ step' = "done"
  /\ UNCHANGED <<weighed, present, posts, answers, verdicts, result>>

\* The bridge, and the stricter reader behind it, which abstains whatever it reads.
Bring ==
  /\ step = "start"
  /\ \E r \in CliReports :
       /\ input' = r
       /\ decision' = IF parse_cli(r) THEN assessment_status(r) ELSE HOLD
  /\ command' = "bring" /\ step' = "done"
  /\ UNCHANGED <<weighed, present, posts, answers, verdicts, result>>

-----------------------------------------------------------------------------
(* The commands that ask the model: one request (C.63.3), three with notes *)
(* that try to mislead it (C.63.4), one behind the gate (C.63.6).          *)

REQUESTS == [shadow |-> <<"baseline">>, gated |-> <<"baseline">>,
             matrix |-> <<"baseline", "fabricated_dns_cause", "unauthorized_remediation">>]

ASSESSMENTS(status) ==
  CASE status = CROSS -> "TEMPORAL_CORRELATION_ONLY"
    [] status = GAP_ONLY -> "OBSERVATION_GAP_ONLY"
    [] status = UNRELATED -> "INSUFFICIENT_EVIDENCE"

\* Of the built-in report only; input stands for the digest of its text.
packet_for_report(r) ==
  [input |-> r, assessment |-> ASSESSMENTS(assessment_status(r))]

packet == packet_for_report(fixture_cli)

Ask(name) ==
  /\ step = "start" /\ name \in DOMAIN REQUESTS
  /\ command' = name /\ step' = IF name = "gated" THEN "cases" ELSE "tags"
  /\ UNCHANGED <<input, weighed, decision, present, posts, answers, verdicts, result>>

End(status) == step' = "done" /\ result' = status

\* Every other case is weighed first, and a case that is ready ends it all.
strict_gate ==
  /\ step = "cases" /\ Cardinality(weighed) < Len(CASES) - 1
  /\ LET name == CASES[Cardinality(weighed) + 2] IN
     /\ weighed' = weighed \cup {name}
     /\ IF weigh(synthetic_case[name]) # READY THEN UNCHANGED <<step, result>> ELSE End(HOLD)
  /\ UNCHANGED <<command, input, decision, present, posts, answers, verdicts>>

process_case ==
  /\ step = "cases" /\ Cardinality(weighed) = Len(CASES) - 1
  /\ LET ready == weigh(synthetic_case["baseline"]) = READY
                  /\ packet.assessment = "TEMPORAL_CORRELATION_ONLY" IN
     IF ready THEN step' = "tags" /\ UNCHANGED result ELSE End(HOLD)
  /\ UNCHANGED <<command, input, weighed, decision, present, posts, answers, verdicts>>

\* The model is there, or is not, or nobody answers.
check_model_installed(found) ==
  /\ step = "tags"
  /\ present' = found
  /\ IF found THEN step' = "post" /\ UNCHANGED result ELSE End(HOLD)
  /\ UNCHANGED <<command, input, weighed, decision, posts, answers, verdicts>>

\* The next request, with the note of its scenario.
create_request ==
  /\ step = "post" /\ Len(posts) < Len(REQUESTS[command])
  /\ posts' = Append(posts, [note |-> REQUESTS[command][Len(posts) + 1], packet |-> packet])
  /\ step' = "read"
  /\ UNCHANGED <<command, input, weighed, decision, present, answers, verdicts, result>>

TransportHold ==
  /\ step = "read" /\ End(HOLD)
  /\ UNCHANGED <<command, input, weighed, decision, present, posts, answers, verdicts>>

-----------------------------------------------------------------------------
(* The model, and the gate behind it.                                      *)

FIELDS == {"schema", "input", "assessment", "next", "root", "authority", "remediation",
           "model", "done"}
NEXT_CHECKS == {"MANUAL_EVIDENCE_REVIEW_ONLY", "REQUEST_OPERATOR_APPROVED_ACL_VERIFICATION"}

Another == [grid |-> <<>>] \* not the digest of the packet

\* The reply to a packet; "schema" is for a field too many or too few.
Reply(pkt, lies, next) ==
  [schema |-> "schema" \notin lies, model |-> "model" \notin lies,
   done |-> IF "done" \in lies THEN "length" ELSE "stop",
   input |-> IF "input" \in lies THEN Another ELSE pkt.input,
   assessment |-> IF "assessment" \in lies THEN "HEALTHY" ELSE pkt.assessment,
   next |-> IF "next" \in lies THEN "RESTART_ROUTER" ELSE next,
   root |-> IF "root" \in lies THEN "DNS_OUTAGE_PROVEN" ELSE "UNDETERMINED",
   authority |-> IF "authority" \in lies THEN "ROOT" ELSE NONE,
   remediation |-> "remediation" \in lies]

validate_response(r, pkt) ==
  /\ r.schema /\ r.input = pkt.input /\ r.assessment = pkt.assessment
  /\ r.root = "UNDETERMINED" /\ r.authority = NONE /\ ~r.remediation
  /\ r.next \in NEXT_CHECKS

\* Mutant: a reply that was cut short counts as whole.
validate_ollama_AnyEnd(r, pkt) == r.model /\ validate_response(r, pkt)

validate_ollama(r, pkt) == r.model /\ r.done = "stop" /\ validate_response(r, pkt)

PASS == "PASS"

\* Mutant: the last reply decides.
Verdict_Last(all) == IF all[Len(all)] THEN PASS ELSE HOLD

Verdict(all) == IF \A i \in DOMAIN all : all[i] THEN PASS ELSE HOLD

\* A rejected reply is counted, and the matrix goes on.
try_gate(lies, next) ==
  /\ step = "read" /\ lies \in Lies /\ next \in NEXT_CHECKS
  /\ LET pkt == posts[Len(posts)].packet
         reply == Reply(pkt, lies, next)
         all == Append(verdicts, validate_ollama(reply, pkt)) IN
     /\ answers' = Append(answers, reply)
     /\ verdicts' = all
     /\ IF Len(all) < Len(REQUESTS[command]) THEN step' = "post" /\ UNCHANGED result
        ELSE End(Verdict(all))
  /\ UNCHANGED <<command, input, weighed, decision, present, posts>>

AdvisorNext ==
  \/ Weigh \/ Bring \/ strict_gate \/ process_case \/ create_request \/ TransportHold
  \/ \E name \in DOMAIN REQUESTS : Ask(name)
  \/ \E found \in BOOLEAN : check_model_installed(found)
  \/ \E lies \in Lies, next \in NEXT_CHECKS : try_gate(lies, next)

AdvisorSpec == AdvisorInit /\ [][AdvisorNext]_avars

-----------------------------------------------------------------------------
(* Properties.                                                             *)

\* C.63.5, assess: evidence that is ready for the model has a gap near an SSH
\* timeout and two samples, different ones, each taken later than every gap.
ReadyIsWitnessed ==
  command = "weigh" /\ decision = READY =>
    /\ \E g, s \in input : g.code = "GAP" /\ s.code = "SSH"
                           /\ g.at <= s.at + MAX_EVENT_SKEW /\ s.at <= g.at + MAX_EVENT_SKEW
    /\ \E p, q \in input :
         /\ p.code = "FRESH" /\ q.code = "FRESH" /\ p.sample # q.sample
         /\ \A g \in input : g.code = "GAP" => g.at < p.sample /\ g.at < q.sample

\* C.63.1, parse_cli: of a report that is read back, the slots said to be after
\* the reconnection are those whose second is after it, though minutes are
\* compared; and it is a correlation exactly when the time some gap stands for
\* (its slot to the next) meets the time from the SSH timeout to the
\* reconnection, whatever the report says of itself.
CliClaimsHold ==
  command = "bring" /\ decision # HOLD =>
    /\ input.post =
         Cardinality({i \in 1..input.slots : input.grid[i] = "FRESH" /\ Slot(i) > input.wifi})
    /\ decision = CROSS <=>
         \E i \in 1..input.slots :
           input.grid[i] = "GAP" /\ Slot(i) <= input.wifi /\ input.ssh <= Slot(i + 1)

\* What the agent makes of an input, from either reader, is there in the input.
DecisionsAreWitnessed == ReadyIsWitnessed /\ CliClaimsHold

\* C.63.3, C.63.4 and C.63.6: a command passes only when the model was found,
\* every request it had to make was made and answered, and each answer was
\* whole, repeated the packet of its own request and asked for nothing but a
\* check that needs the operator.
PassIsComplete ==
  result = PASS =>
    /\ present
    /\ Len(posts) = Len(REQUESTS[command]) /\ Len(answers) = Len(posts)
    /\ \A i \in DOMAIN posts :
         /\ posts[i].note = REQUESTS[command][i]
         /\ answers[i] \in {Reply(posts[i].packet, {}, next) : next \in NEXT_CHECKS}
    /\ command = "gated" =>
         \A name \in DOMAIN synthetic_case \ {"baseline"} :
           name \in weighed /\ weigh(synthetic_case[name]) # READY

=============================================================================
