------------------------------ MODULE Incident ------------------------------
(***************************************************************************)
(* The local agent's report of a past incident: eight range queries, one   *)
(* after the other (C.63.11), a classification of the slots they cover     *)
(* (C.63.10), the comparison with a reference (C.63.12), the join with the *)
(* journal (C.63.13) and the validation before it is written (C.63.14).    *)
(***************************************************************************)
EXTENDS Observation, Sequences, FiniteSets, FiniteSetsExt

CONSTANTS
  Reference,   \* REF_GRID: TRUE where a slot is qualified
  STEP,        \* between slots
  WITHIN,      \* how soon after the Wi-Fi marker a success counts
  SampleKinds, \* samples: [age, late, mode], seen from their slot
  Journals     \* journals: sets of [at, code, boot]

ASSUME IncidentAssumption ==
  /\ Reference \in Seq(BOOLEAN) /\ Len(Reference) >= 4
  /\ STEP \in Nat \ {0} /\ WITHIN \in Nat
  /\ \A s \in SampleKinds : s.age \in Nat /\ s.late \in Int

\* The code's constants: 300 > 2 * 120 + 15 + 5.
ASSUME SlotsAreLong == STEP > 2 * TTL_COLLECTION + MAX_SPREAD + FUTURE_SECONDS

\* And 300 >= 2 * 120: a sample may be older than the collection it carries.
ASSUME SamplesOutlive == TTL_RAW >= 2 * TTL_COLLECTION

\* parse_journal refuses a journal of more than MAX_EVENTS events.
ASSUME JournalsAreFinite == \A rows \in Journals : IsFiniteSet(rows)

\* REF_GRID has one window of slots that are not qualified, one slot at least
\* before it and two after it.
ASSUME ReferenceHasOneWindow ==
  \E first \in 2..(Len(Reference) - 2), last \in 2..(Len(Reference) - 2) :
    first <= last /\ \A i \in 1..Len(Reference) : Reference[i] <=> i \notin first..last

VARIABLES
  stage,    \* what has been done
  before,   \* history: the stored samples when the queries began
  stored,   \* the samples, at most one for each slot
  matrices, \* the answers so far: a row of slots for each query
  slots,    \* the observation of each slot
  boundary, \* assess_timeline's status
  parity,   \* compare_report's result
  joined,   \* join's result
  accepted  \* validate's

ivars == <<stage, before, stored, matrices, slots, boundary, parity, joined, accepted>>

Slots == 1..Len(Reference)
Epoch(i) == 100 + STEP * i
Nothing == [i \in Slots |-> {}]
None == [classification |-> "NONE"]

IncidentInit ==
  /\ stage = "reads"
  /\ stored \in [Slots -> {{}} \cup {{s} : s \in SampleKinds}]
  /\ before = stored
  /\ matrices = <<>>
  /\ slots = <<>> /\ boundary = "NONE" /\ parity = None /\ joined = None
  /\ accepted = FALSE

-----------------------------------------------------------------------------
(* observe_historical: the queries, while one late sample may be stored.   *)

\* Mutant: the flags are read before the collection they are dated by.
QUERIES_CollectionLast ==
  <<"valid", "valid_time", "local", "local_time",
    "bootstrap", "bootstrap_time", "collection", "collection_time">>

QUERIES ==
  <<"collection", "collection_time", "valid", "valid_time",
    "local", "local_time", "bootstrap", "bootstrap_time">>

\* Newer than what the slot showed.
Arrive(i) ==
  /\ stage = "reads" /\ stored = before
  /\ Cardinality(DOMAIN matrices) \in 1..(Len(QUERIES) - 1)
  /\ \E new \in SampleKinds :
       /\ \A old \in stored[i] : new.age < old.age /\ new.age + new.late < old.age + old.late
       /\ stored' = [stored EXCEPT ![i] = {new}]
  /\ UNCHANGED <<stage, before, matrices, slots, boundary, parity, joined, accepted>>

Shown(query, i, s) ==
  CASE query = "collection" -> Epoch(i) - s.age - s.late
    [] query = "valid" -> IF s.mode = "INVALID" THEN 0 ELSE 1
    [] query = "local" -> IF s.mode = "LOCAL" THEN 1 ELSE 0
    [] query = "bootstrap" -> IF s.mode = "BOOTSTRAP" THEN 1 ELSE 0
    [] OTHER -> Epoch(i) - s.age

Cell(query, i) ==
  IF stored[i] = {} THEN Missing ELSE Shown(query, i, CHOOSE s \in stored[i] : TRUE)

Get ==
  /\ stage = "reads" /\ Cardinality(DOMAIN matrices) < Len(QUERIES)
  /\ LET query == QUERIES[Cardinality(DOMAIN matrices) + 1] IN
     matrices' = [q \in DOMAIN matrices \cup {query} |->
                     IF q = query THEN [i \in Slots |-> Cell(query, i)] ELSE matrices[q]]
  /\ UNCHANGED <<stage, before, stored, slots, boundary, parity, joined, accepted>>

TimeOf ==
  [collection |-> "collection_time", valid |-> "valid_time",
   local |-> "local_time", bootstrap |-> "bootstrap_time"]

\* A value without its time, or a time without its value, is neither.
Paired(k, i) == matrices[k][i] # Missing /\ matrices[TimeOf[k]][i] # Missing
Values(i) == [k \in METRICS |-> IF Paired(k, i) THEN matrices[k][i] ELSE Missing]
RawTimes(i) == [k \in METRICS |-> IF Paired(k, i) THEN matrices[TimeOf[k]][i] ELSE Missing]

-----------------------------------------------------------------------------
(* checked_report and assess_timeline.                                     *)

\* A report whose gaps cannot be told from its times is refused (Hold), and
\* so is a collection ahead of the slot, which assess lets pass.
checked_report(values, times, now) ==
  /\ \A k \in METRICS : times[k] <= now + FUTURE_SECONDS
  /\ values["collection"] = Missing \/ values["collection"] \in 1..now
  /\ Contradictory(values) => ~Fresh(values, times, now)

Qualified(reports, i) == reports[i].classification = QUALIFIED
Below(reports, i, j) == \A k \in METRICS : reports[i].times[k] < reports[j].times[k]

RESUMED == "SAMPLED_OBSERVATION_RESUMPTION_BOUNDARY_UNATTESTED"

assess_timeline(reports) ==
  LET n == Len(reports)
      windows == {i \in 1..n : ~Qualified(reports, i)}
      first == Min(windows)
      last == Max(windows)
      regressed(i, j) == \E k \in METRICS : reports[j].times[k] < reports[i].times[k] IN
  IF windows = {} THEN "NO_OBSERVED_UNQUALIFIED_WINDOW"
  ELSE IF first = 1 THEN "NO_QUALIFIED_PRE_GAP_OBSERVATION"
  ELSE IF \E i \in first..last : Qualified(reports, i)
    THEN "MULTIPLE_SEPARATE_UNQUALIFIED_WINDOWS"
  ELSE IF \E i \in windows : reports[i].classification = INVALID_STATE
    THEN "INVALID_GUARD_STATE_NOT_A_TELEMETRY_GAP"
  ELSE IF n - last < 2 THEN "POST_WINDOW_QUALIFIED_OBSERVATIONS_INCOMPLETE"
  ELSE IF \E k \in METRICS : Missing \in {reports[last + 1].times[k], reports[last + 2].times[k]}
    THEN "POST_WINDOW_RAW_TIMESTAMPS_MISSING"
  ELSE IF regressed(last + 1, last + 2) \/ regressed(first - 1, last + 1)
    THEN "POST_WINDOW_RAW_TIMESTAMP_REGRESSION"
  ELSE IF Below(reports, first - 1, last + 1) /\ Below(reports, last + 1, last + 2)
    THEN RESUMED
  ELSE "POST_WINDOW_RAW_SAMPLES_NOT_DISTINCT"

observe_historical ==
  /\ stage = "reads" /\ Cardinality(DOMAIN matrices) = Len(QUERIES)
  /\ LET values == [i \in Slots |-> Values(i)]
         times == [i \in Slots |-> RawTimes(i)]
         reports == [i \in Slots |-> assess(values[i], times[i], Epoch(i))] IN
     IF \A i \in Slots : checked_report(values[i], times[i], Epoch(i))
       THEN slots' = reports /\ boundary' = assess_timeline(reports) /\ stage' = "observed"
       ELSE stage' = "hold" /\ UNCHANGED <<slots, boundary>>
  /\ UNCHANGED <<before, stored, matrices, parity, joined, accepted>>

-----------------------------------------------------------------------------
(* validate_report and compare_report; what was read is not needed then.   *)

\* A slot is qualified in one of the two modes and with all its times, none of
\* which is in the future.
validate_slot(i) ==
  /\ slots[i].classification = QUALIFIED <=> slots[i].mode \in {"LOCAL", "BOOTSTRAP"}
  /\ \A k \in METRICS :
       /\ slots[i].times[k] <= Epoch(i) + FUTURE_SECONDS
       /\ slots[i].classification = QUALIFIED => slots[i].times[k] # Missing

Matched ==
  \A i \in Slots :
    IF Reference[i] THEN slots[i].classification = QUALIFIED /\ slots[i].mode = "LOCAL"
                    ELSE slots[i].classification = INSUFFICIENT

Advance == Below(slots, Len(Reference) - 1, Len(Reference))

compare_report ==
  /\ stage = "observed"
  /\ IF (\A i \in Slots : validate_slot(i)) /\ (Matched => (Advance = (boundary = RESUMED)))
       THEN /\ parity' = [classification |-> IF Matched THEN "MATCH" ELSE "DIFFERS",
                          unqualified |-> {i \in Slots : slots[i].classification = INSUFFICIENT},
                          qualified_slots |-> Cardinality({i \in Slots : Qualified(slots, i)}),
                          unqualified_slots |-> Cardinality({i \in Slots : ~Qualified(slots, i)})]
            /\ stage' = "compared"
       ELSE stage' = "contradicted" /\ UNCHANGED parity
  /\ before' = Nothing /\ stored' = Nothing /\ matrices' = <<>> /\ slots' = <<>>
  /\ UNCHANGED <<boundary, joined, accepted>>

-----------------------------------------------------------------------------
(* join, of the report and the rows of two journals.                       *)

Codes == {"SSH", "WIFI", "SUCCESS"}

\* parse_journal: rows that mean nothing count for nothing, not even a boot.
Events(rows) == {row \in rows : row.code \in Codes}
Times(rows, code) == {row.at : row \in {r \in Events(rows) : r.code = code}}
Boots(rows) == {row.boot : row \in Events(rows)}
Bucket(at) == (at - 100) \div STEP

PostSuccess(rows) ==
  {s \in Times(rows, "SUCCESS") :
     \E w \in Times(rows, "WIFI") : Times(rows, "WIFI") = {w} /\ s - w \in 1..WITHIN}

FirstBucket(times) == IF times = {} THEN {} ELSE {Bucket(Min(times))}

\* In a slot without evidence.
Overlaps(times) == \E at \in times : Bucket(at) \in parity.unqualified

\* Mutant: any Wi-Fi marker will do, however many there are.
Correlated_AnyWifi(rows) ==
  /\ Cardinality(Boots(rows)) = 1
  /\ parity.classification = "MATCH"
  /\ Overlaps(Times(rows, "SSH")) /\ Overlaps(Times(rows, "WIFI"))

\* Mutant: the SSH timeouts may be anywhere.
Correlated_AnySsh(rows) ==
  /\ Cardinality(Boots(rows)) = 1
  /\ parity.classification = "MATCH"
  /\ Overlaps(Times(rows, "WIFI"))
  /\ Cardinality(Times(rows, "WIFI")) = 1
  /\ PostSuccess(rows) # {}

Correlated(rows) ==
  /\ Cardinality(Boots(rows)) = 1
  /\ parity.classification = "MATCH"
  /\ Overlaps(Times(rows, "SSH")) /\ Overlaps(Times(rows, "WIFI"))
  /\ Cardinality(Times(rows, "WIFI")) = 1
  /\ PostSuccess(rows) # {}

\* The report of the join, which has no rows.
ReportOf(rows) ==
  [classification |-> IF Correlated(rows) THEN "CORRELATION" ELSE "INSUFFICIENT",
   single_boot |-> Cardinality(Boots(rows)) = 1,
   counts |-> [code \in Codes |-> Cardinality(Times(rows, code))],
   ssh_overlaps |-> Overlaps(Times(rows, "SSH")),
   wifi_overlaps |-> Overlaps(Times(rows, "WIFI")),
   wifi_count |-> Cardinality(Times(rows, "WIFI")),
   post_success |-> PostSuccess(rows) # {},
   buckets |-> <<FirstBucket(Times(rows, "SSH")),
                 IF Cardinality(Times(rows, "WIFI")) = 1
                   THEN FirstBucket(Times(rows, "WIFI")) ELSE {},
                 FirstBucket(PostSuccess(rows))>>]

join ==
  /\ stage = "compared"
  /\ \E rows \in Journals : joined' = ReportOf(rows)
  /\ stage' = "joined"
  /\ UNCHANGED <<before, stored, matrices, slots, boundary, parity, accepted>>

\* What the validation asks of a report that says CORRELATION.
Consistent(r) ==
  /\ r.single_boot /\ r.ssh_overlaps /\ r.wifi_overlaps /\ r.post_success
  /\ r.wifi_count = 1
  /\ r.counts["SSH"] > 0 /\ r.counts["SUCCESS"] > 0
  /\ parity.unqualified_slots > 0

\* Every bucket must be one, in a report of no correlation as well.
validate ==
  /\ stage = "joined"
  /\ accepted' = (/\ boundary = RESUMED
                  /\ parity.classification = "MATCH"
                  /\ \A j \in 1..3 : joined.buckets[j] # {}
                  /\ parity.qualified_slots + parity.unqualified_slots = Len(Reference)
                  /\ joined.wifi_count = joined.counts["WIFI"]
                  /\ joined.classification = "CORRELATION" => Consistent(joined))
  /\ stage' = "validated"
  /\ UNCHANGED <<before, stored, matrices, slots, boundary, parity, joined>>

IncidentNext ==
  \/ \E i \in Slots : Arrive(i)
  \/ Get \/ observe_historical \/ compare_report
  \/ join \/ validate

IncidentSpec == IncidentInit /\ [][IncidentNext]_ivars

-----------------------------------------------------------------------------
Young(s) == s.age + s.late <= TTL_COLLECTION
Aligned(s) == s.late \in -TTL_COLLECTION..TTL_COLLECTION

\* The slots are what the store held: a qualified one has a sample in that
\* mode, collected shortly before, though each metric was read on its own
\* while a sample came in; one without evidence had no young sample with its
\* own time, unless it came during the reads.
SlotsAreTrue ==
  stage = "observed" => \A i \in Slots :
    /\ slots[i].classification = QUALIFIED =>
         \E s \in before[i] \cup stored[i] : s.mode = slots[i].mode /\ Young(s)
    /\ slots[i].classification = INSUFFICIENT /\ stored[i] = before[i] =>
         \A s \in stored[i] : ~(Young(s) /\ Aligned(s))

\* Samples of qualified slots on both sides of a window always advance: the
\* two statuses for those that do not are never reached, because a slot is
\* longer than the ages that the assessment lets pass.
PostWindowAdvances ==
  boundary \notin {"POST_WINDOW_RAW_TIMESTAMPS_MISSING", "POST_WINDOW_RAW_TIMESTAMP_REGRESSION",
                   "POST_WINDOW_RAW_SAMPLES_NOT_DISTINCT"}

\* What the join calls a correlation is refused by no later check, and no
\* observed timeline by the checks of the comparison: its slots are consistent,
\* and what it claims of the times after a window is what they show.
CorrelationIsReportable ==
  /\ stage # "contradicted"
  /\ stage = "validated" /\ joined.classification = "CORRELATION" => accepted

=============================================================================
