---------------------------- MODULE Agent_proofs ----------------------------
(***************************************************************************)
(* What C.63 and its advisor report, for any slots, samples, limits and    *)
(* evidence.  Incidents: a slot is longer than twice the age of a          *)
(* collection, the spread of an observation and the lead of the router's   *)
(* clock together, so samples after a window always advance; and every     *)
(* offset a report prints is one of the journal's.  The advisor: what it   *)
(* decided has a witness in the evidence it was shown, however the model   *)
(* answers.                                                                *)
(***************************************************************************)
EXTENDS Incident, Advisor, FiniteSetTheorems, TLAPS

-----------------------------------------------------------------------------
(* The smallest and the largest slot of a window.                          *)

\* The order of the natural numbers as a relation.
LEMMA Order == \A i, m \in Nat : <<i, m>> \in OpToRel(<, Nat) <=> i < m
<1>1. OpToRel(<, Nat) = {ss \in Nat \X Nat : ss[1] < ss[2]}
  BY DEF OpToRel
<1>2. ASSUME NEW i \in Nat, NEW m \in Nat
      PROVE  <<i, m>> \in {ss \in Nat \X Nat : ss[1] < ss[2]} <=> i < m
  OBVIOUS
<1> QED BY <1>1, <1>2

\* A set of numbers that is not empty has a least one.
LEMMA LeastNumber ==
  ASSUME NEW S, S \subseteq Nat, S # {}
  PROVE  \E m \in S : \A i \in S : m <= i
<1>1. PICK m \in S : \A i \in S : ~(<<i, m>> \in OpToRel(<, Nat))
  BY WFMin, NatLessThanWellFounded
<1>2. \A i \in S : ~(i < m) /\ i \in Nat
  BY <1>1, Order
<1> QED BY <1>2

\* A set of slots has a smallest one.
LEMMA SmallestSlot ==
  ASSUME NEW n \in Nat, NEW S, S \subseteq 1..n, S # {}
  PROVE  Min(S) \in S /\ \A i \in S : Min(S) <= i
<1>1. S \subseteq Nat
  OBVIOUS
<1> QED BY <1>1, LeastNumber DEF Min

\* And a largest one.
LEMMA LargestNumber ==
  ASSUME NEW n \in Nat, NEW S, S \subseteq 0..n, S # {}
  PROVE  Max(S) \in S /\ \A i \in S : i <= Max(S)
<1> DEFINE T == {n - i : i \in S}
<1>1. \A i \in S : i \in Nat /\ n - i \in Nat
  OBVIOUS
<1>2. T \subseteq Nat /\ T # {}
  BY <1>1
<1> HIDE DEF T
<1>3. PICK m \in T : \A i \in T : m <= i
  BY <1>2, LeastNumber
<1>4. PICK k \in S : m = n - k
  BY <1>3 DEF T
<1>5. ASSUME NEW i \in S PROVE k >= i
  <2>1. n - i \in T
    BY DEF T
  <2>2. n - k <= n - i
    BY <1>3, <1>4, <2>1
  <2> QED BY <1>1, <2>2
<1>6. Max(S) \in S /\ \A i \in S : Max(S) >= i
  BY <1>5 DEF Max
<1> QED BY <1>1, <1>6

LEMMA LargestSlot ==
  ASSUME NEW n \in Nat, NEW S, S \subseteq 1..n, S # {}
  PROVE  Max(S) \in S /\ \A i \in S : i <= Max(S)
<1>1. S \subseteq 0..n
  OBVIOUS
<1> QED BY <1>1, LargestNumber

-----------------------------------------------------------------------------
(* The times of a qualified slot.                                          *)

\* Whole numbers, or nothing.
IntMetrics(f) == \A k \in METRICS : f[k] \in Int

\* The samples of a qualified slot are near it.
LEMMA QualifiedTimes ==
  ASSUME NEW values, NEW times, NEW now \in Int, IntMetrics(values), IntMetrics(times),
         assess(values, times, now).classification = QUALIFIED, NEW k \in METRICS
  PROVE  /\ times[k] # Missing
         /\ now - 2 * TTL_COLLECTION - MAX_SPREAD <= times[k]
         /\ times[k] <= now + FUTURE_SECONDS
<1> USE ObservationAssumption DEF ObservationAssumption, IntMetrics
<1>1. Fresh(values, times, now)
  BY DEF assess, QUALIFIED, INSUFFICIENT, INVALID_STATE
<1>2. "collection" \in METRICS
  BY DEF METRICS
<1>3. times[k] # Missing /\ now - times[k] \in -FUTURE_SECONDS..TTL_RAW
  BY <1>1 DEF Fresh
<1>4. now - values["collection"] <= TTL_COLLECTION
  BY <1>1, <1>2 DEF Fresh
<1>5. values["collection"] - times["collection"] <= TTL_COLLECTION
  BY <1>1, <1>2 DEF Fresh
<1>6. times["collection"] - times[k] <= MAX_SPREAD
  BY <1>1, <1>2 DEF Fresh
<1> QED BY <1>2, <1>3, <1>4, <1>5, <1>6

\* Slots are STEP apart at least.
LEMMA EpochsApart ==
  ASSUME NEW i \in Nat, NEW j \in Nat, i < j
  PROVE  Epoch(i) \in Int /\ Epoch(j) \in Int /\ Epoch(i) + STEP <= Epoch(j)
<1>1. STEP \in Nat
  BY IncidentAssumption DEF IncidentAssumption
<1>2. STEP * (j - i) >= STEP
  BY <1>1
<1>3. STEP * j = STEP * i + STEP * (j - i)
  BY <1>1
<1>4. STEP * i \in Nat /\ STEP * j \in Nat
  BY <1>1
<1> QED BY <1>1, <1>2, <1>3, <1>4 DEF Epoch

-----------------------------------------------------------------------------
(* The timeline.                                                           *)

Rejected == {"POST_WINDOW_RAW_TIMESTAMPS_MISSING", "POST_WINDOW_RAW_TIMESTAMP_REGRESSION",
             "POST_WINDOW_RAW_SAMPLES_NOT_DISTINCT"}

\* The samples of a later qualified slot are later, in every metric.
LEMMA QualifiedOrder ==
  ASSUME NEW values, NEW times,
         \A i \in Slots : IntMetrics(values[i]) /\ IntMetrics(times[i]),
         NEW reports, reports = [i \in Slots |-> assess(values[i], times[i], Epoch(i))],
         NEW i \in Slots, NEW j \in Slots, i < j,
         Qualified(reports, i), Qualified(reports, j), NEW k \in METRICS
  PROVE  /\ reports[i].times[k] \in Int /\ reports[j].times[k] \in Int
         /\ reports[i].times[k] # Missing /\ reports[j].times[k] # Missing
         /\ reports[i].times[k] < reports[j].times[k]
<1>1. Slots \subseteq Nat /\ \A h \in Slots : Epoch(h) \in Int
  BY IncidentAssumption DEF IncidentAssumption, Slots, Epoch
<1>2. ASSUME NEW h \in Slots, Qualified(reports, h)
      PROVE  /\ reports[h].times[k] # Missing /\ reports[h].times[k] \in Int
             /\ Epoch(h) - 2 * TTL_COLLECTION - MAX_SPREAD <= reports[h].times[k]
             /\ reports[h].times[k] <= Epoch(h) + FUTURE_SECONDS
  <2>1. reports[h] = assess(values[h], times[h], Epoch(h))
    OBVIOUS
  <2>2. reports[h].times = times[h]
    BY <2>1 DEF assess
  <2>3. assess(values[h], times[h], Epoch(h)).classification = QUALIFIED
    BY <1>2, <2>1 DEF Qualified
  <2> DEFINE e == Epoch(h)
             v == values[h]
             w == times[h]
  <2>4. e \in Int /\ IntMetrics(v) /\ IntMetrics(w) /\ assess(v, w, e).classification = QUALIFIED
    BY <1>1, <2>3
  <2> HIDE DEF e, v, w
  <2>5. /\ w[k] # Missing /\ e - 2 * TTL_COLLECTION - MAX_SPREAD <= w[k]
        /\ w[k] <= e + FUTURE_SECONDS
    BY <2>4, QualifiedTimes
  <2>6. w[k] \in Int
    BY <2>4 DEF IntMetrics
  <2> QED BY <2>2, <2>5, <2>6 DEF e, w
<1>3. Epoch(i) + STEP <= Epoch(j)
  BY <1>1, EpochsApart
<1>4. STEP \in Nat /\ TTL_COLLECTION \in Nat /\ MAX_SPREAD \in Nat /\ FUTURE_SECONDS \in Nat
  BY IncidentAssumption, ObservationAssumption
  DEF IncidentAssumption, ObservationAssumption
<1>5. reports[i].times[k] \in Int /\ reports[i].times[k] <= Epoch(i) + FUTURE_SECONDS
  BY <1>2
<1>6. /\ reports[j].times[k] \in Int
      /\ Epoch(j) - 2 * TTL_COLLECTION - MAX_SPREAD <= reports[j].times[k]
  BY <1>2
<1> QED BY <1>1, <1>2, <1>3, <1>4, <1>5, <1>6, SlotsAreLong

\* Whatever the metrics are, an assessed timeline is not rejected for the times
\* of its qualified slots.
LEMMA Timeline ==
  ASSUME NEW values, NEW times,
         \A i \in Slots : IntMetrics(values[i]) /\ IntMetrics(times[i]),
         NEW reports, reports = [i \in Slots |-> assess(values[i], times[i], Epoch(i))]
  PROVE  assess_timeline(reports) \notin Rejected
<1> DEFINE n == Len(reports)
           windows == {i \in 1..n : ~Qualified(reports, i)}
           first == Min(windows)
           last == Max(windows)
           regressed(i, j) == \E k \in METRICS : reports[j].times[k] < reports[i].times[k]
<1>1. n = Len(Reference) /\ n \in Nat /\ Slots = 1..n
  BY IncidentAssumption DEF IncidentAssumption, Slots
<1>2. ASSUME NEW i \in 1..n, NEW j \in 1..n, i < j,
             Qualified(reports, i), Qualified(reports, j), NEW k \in METRICS
      PROVE  /\ reports[i].times[k] \in Int /\ reports[j].times[k] \in Int
             /\ reports[i].times[k] # Missing /\ reports[j].times[k] # Missing
             /\ reports[i].times[k] < reports[j].times[k]
  BY <1>1, <1>2, QualifiedOrder
<1>3. CASE windows = {}
  BY <1>3 DEF assess_timeline, Rejected
<1>4. ASSUME windows # {}, first # 1, ~(n - last < 2)
      PROVE  /\ ~(\E k \in METRICS : Missing \in {reports[last + 1].times[k],
                                                  reports[last + 2].times[k]})
             /\ ~regressed(last + 1, last + 2) /\ ~regressed(first - 1, last + 1)
             /\ Below(reports, first - 1, last + 1) /\ Below(reports, last + 1, last + 2)
  <2>1. first \in windows /\ \A i \in windows : first <= i
    BY <1>1, <1>4, SmallestSlot
  <2>2. last \in windows /\ \A i \in windows : i <= last
    BY <1>1, <1>4, LargestSlot
  <2> HIDE DEF first, last
  <2>3. first \in 1..n /\ last \in 1..n /\ first <= last
    BY <2>1, <2>2
  <2>4. first - 1 \in 1..n /\ last + 1 \in 1..n /\ last + 2 \in 1..n
    BY <1>1, <1>4, <2>3
  <2>5. first - 1 \notin windows /\ last + 1 \notin windows /\ last + 2 \notin windows
    BY <2>1, <2>2, <2>3
  <2>6. /\ Qualified(reports, first - 1) /\ Qualified(reports, last + 1)
        /\ Qualified(reports, last + 2)
    BY <2>4, <2>5
  <2>7. ASSUME NEW k \in METRICS
        PROVE  /\ reports[last + 1].times[k] # Missing
               /\ reports[last + 2].times[k] # Missing
               /\ reports[first - 1].times[k] \in Int /\ reports[last + 1].times[k] \in Int
               /\ reports[last + 2].times[k] \in Int
               /\ reports[first - 1].times[k] < reports[last + 1].times[k]
               /\ reports[last + 1].times[k] < reports[last + 2].times[k]
    <3>1. first - 1 < last + 1 /\ last + 1 < last + 2
      BY <2>3
    <3> QED BY <1>2, <2>4, <2>6, <3>1
  <2>8. Below(reports, first - 1, last + 1) /\ Below(reports, last + 1, last + 2)
    BY <2>7 DEF Below
  <2>9. ~(\E k \in METRICS : Missing \in {reports[last + 1].times[k], reports[last + 2].times[k]})
    BY <2>7
  <2>10. ASSUME NEW k \in METRICS
         PROVE  /\ ~(reports[last + 2].times[k] < reports[last + 1].times[k])
                /\ ~(reports[last + 1].times[k] < reports[first - 1].times[k])
    BY <2>7
  <2>11. ~regressed(last + 1, last + 2) /\ ~regressed(first - 1, last + 1)
    BY <2>10
  <2> QED BY <2>8, <2>9, <2>11
<1>5. CASE windows # {}
  BY <1>4, <1>5 DEF assess_timeline, Rejected, RESUMED
<1> QED BY <1>3, <1>5

-----------------------------------------------------------------------------
(* The queries.                                                            *)

Asked(c) == {QUERIES[j] : j \in 1..c}

\* The answers so far are those of the first queries, whole numbers all.
ReadState ==
  stage = "reads" =>
    /\ stored \in [Slots -> SUBSET SampleKinds]
    /\ IsFiniteSet(DOMAIN matrices) /\ Cardinality(DOMAIN matrices) \in 0..Len(QUERIES)
    /\ DOMAIN matrices = Asked(Cardinality(DOMAIN matrices))
    /\ \A q \in DOMAIN matrices, i \in Slots : matrices[q][i] \in Int

NInv == ReadState /\ PostWindowAdvances

\* The eight queries differ.
LEMMA QueriesDiffer ==
  /\ Len(QUERIES) = 8
  /\ \A i, j \in 1..8 : QUERIES[i] = QUERIES[j] => i = j
  /\ \A k \in METRICS : k \in Asked(8) /\ TimeOf[k] \in Asked(8)
<1>1. Len(QUERIES) = 8 /\ \A i, j \in 1..8 : QUERIES[i] = QUERIES[j] => i = j
  BY DEF QUERIES
<1>2. \A j \in 1..8 : QUERIES[j] \in Asked(8)
  BY DEF Asked
<1>3. /\ "collection" \in Asked(8) /\ "collection_time" \in Asked(8)
      /\ "valid" \in Asked(8) /\ "valid_time" \in Asked(8)
      /\ "local" \in Asked(8) /\ "local_time" \in Asked(8)
      /\ "bootstrap" \in Asked(8) /\ "bootstrap_time" \in Asked(8)
  BY <1>2 DEF QUERIES
<1> QED BY <1>1, <1>3 DEF METRICS, TimeOf

\* A cell is a whole number.
LEMMA CellType ==
  ASSUME stored \in [Slots -> SUBSET SampleKinds], NEW query, NEW i \in Slots
  PROVE  Cell(query, i) \in Int
<1>1. Epoch(i) \in Int
  BY IncidentAssumption DEF IncidentAssumption, Epoch, Slots
<1>2. ASSUME NEW s \in SampleKinds PROVE Shown(query, i, s) \in Int
  <2>1. s.age \in Int /\ s.late \in Int
    BY IncidentAssumption DEF IncidentAssumption
  <2> QED BY <1>1, <2>1 DEF Shown
<1>3. stored[i] # {} => (CHOOSE s \in stored[i] : TRUE) \in SampleKinds
  OBVIOUS
<1> QED BY <1>2, <1>3 DEF Cell, Missing

\* What has been read in full is whole numbers for every slot.
LEMMA ReadInFull ==
  ASSUME ReadState, stage = "reads", Cardinality(DOMAIN matrices) = Len(QUERIES),
         NEW i \in Slots
  PROVE  IntMetrics(Values(i)) /\ IntMetrics(RawTimes(i))
<1>1. DOMAIN matrices = Asked(8)
  BY QueriesDiffer DEF ReadState
<1>2. \A k \in METRICS : matrices[k][i] \in Int /\ matrices[TimeOf[k]][i] \in Int
  BY <1>1, QueriesDiffer DEF ReadState
<1> QED BY <1>2 DEF IntMetrics, Values, RawTimes, Missing

\* Nothing has been read at first.
LEMMA NInvInit == IncidentInit => NInv
<1> SUFFICES ASSUME IncidentInit PROVE NInv
  OBVIOUS
<1>1. stored \in [Slots -> SUBSET SampleKinds]
  BY DEF IncidentInit
<1>2. DOMAIN matrices = {} /\ Cardinality({}) = 0 /\ IsFiniteSet({})
  BY FS_EmptySet DEF IncidentInit
<1>3. Asked(0) = {}
  BY DEF Asked
<1> QED BY <1>1, <1>2, <1>3, QueriesDiffer
        DEF NInv, ReadState, PostWindowAdvances, IncidentInit

\* Every step keeps it: a read adds one matrix, and the timeline of what has
\* been read in full is not rejected.
LEMMA NInvStep == NInv /\ [IncidentNext]_ivars => NInv'
<1> SUFFICES ASSUME NInv, [IncidentNext]_ivars PROVE NInv'
  OBVIOUS
<1>1. ASSUME NEW i \in Slots, Arrive(i) PROVE NInv'
  BY <1>1 DEF Arrive, NInv, ReadState, PostWindowAdvances
<1>2. CASE Get
  <2> DEFINE c == Cardinality(DOMAIN matrices)
             query == QUERIES[c + 1]
  <2>1. /\ stage = "reads" /\ c \in 0..7
        /\ matrices' = [q \in DOMAIN matrices \cup {query} |->
                          IF q = query THEN [i \in Slots |-> Cell(query, i)] ELSE matrices[q]]
        /\ UNCHANGED <<stage, stored, boundary>>
    BY <1>2, QueriesDiffer DEF Get, NInv, ReadState
  <2>2. DOMAIN matrices = Asked(c) /\ IsFiniteSet(DOMAIN matrices)
        /\ stored \in [Slots -> SUBSET SampleKinds]
    BY <2>1 DEF NInv, ReadState
  <2>3. DOMAIN matrices' = DOMAIN matrices \cup {query}
    BY <2>1
  <2> HIDE DEF c
  <2>4. query \notin Asked(c)
    BY <2>1, QueriesDiffer DEF Asked
  <2>5. Asked(c + 1) = Asked(c) \cup {query}
    BY <2>1 DEF Asked
  <2>6. IsFiniteSet(DOMAIN matrices') /\ Cardinality(DOMAIN matrices') = c + 1
    BY <2>2, <2>3, <2>4, FS_AddElement DEF c
  <2>7. \A q \in DOMAIN matrices', i \in Slots : matrices'[q][i] \in Int
    BY <2>1, <2>2, CellType DEF NInv, ReadState
  <2>8. c + 1 \in 0..Len(QUERIES)
    BY <2>1, QueriesDiffer
  <2>9. DOMAIN matrices' = Asked(c + 1)
    BY <2>2, <2>3, <2>5
  <2>10. Cardinality(DOMAIN matrices') \in 0..Len(QUERIES)
         /\ DOMAIN matrices' = Asked(Cardinality(DOMAIN matrices'))
    BY <2>6, <2>8, <2>9
  <2>11. stored' \in [Slots -> SUBSET SampleKinds]
    BY <2>1, <2>2
  <2>12. ReadState'
    BY <2>6, <2>7, <2>10, <2>11 DEF ReadState, Asked, QUERIES
  <2> QED BY <2>1, <2>12 DEF NInv, PostWindowAdvances
<1>3. CASE observe_historical
  <2> DEFINE values == [i \in Slots |-> Values(i)]
             times == [i \in Slots |-> RawTimes(i)]
             reports == [i \in Slots |-> assess(values[i], times[i], Epoch(i))]
  <2>1. boundary' = boundary \/ boundary' = assess_timeline(reports)
    BY <1>3 DEF observe_historical
  <2>2. stage' # "reads"
    BY <1>3 DEF observe_historical
  <2>3. \A i \in Slots : IntMetrics(values[i]) /\ IntMetrics(times[i])
    BY <1>3, ReadInFull DEF observe_historical, NInv
  <2> HIDE DEF values, times
  <2>4. assess_timeline(reports) \notin Rejected
    BY <2>3, Timeline
  <2> QED BY <2>1, <2>2, <2>4 DEF NInv, ReadState, PostWindowAdvances, Rejected
<1>4. CASE compare_report \/ join \/ validate
  BY <1>4 DEF compare_report, join, validate, NInv, ReadState, PostWindowAdvances
<1>5. CASE UNCHANGED ivars
  BY <1>5 DEF ivars, NInv, ReadState, PostWindowAdvances
<1> QED BY <1>1, <1>2, <1>3, <1>4, <1>5 DEF IncidentNext

-----------------------------------------------------------------------------
(* What the slots say of the store.                                        *)

AtMostOne(samples) == samples = {} \/ \E s \in SampleKinds : samples = {s}
CellOf(samples, query, i) ==
  IF samples = {} THEN Missing ELSE Shown(query, i, CHOOSE s \in samples : TRUE)

\* What came during the reads is younger, and collected later, than what it replaced.
Younger(i) ==
  \/ stored[i] = before[i]
  \/ \E new \in SampleKinds :
       /\ stored[i] = {new}
       /\ \A old \in before[i] : new.age < old.age /\ new.age + new.late < old.age + old.late

\* The first c answers are of the samples of before, the others of those of now.
SplitAt(c) ==
  \A j \in 1..8 : j <= Cardinality(DOMAIN matrices) =>
    \A i \in Slots :
      matrices[QUERIES[j]][i] =
        CellOf(IF j <= c THEN before[i] ELSE stored[i], QUERIES[j], i)

HeldState ==
  stage = "reads" =>
    /\ \A i \in Slots : AtMostOne(before[i]) /\ AtMostOne(stored[i]) /\ Younger(i)
    /\ \E c \in 0..8 : SplitAt(c)

\* The cell of one sample is what the sample shows.
LEMMA OneCell ==
  ASSUME NEW samples, AtMostOne(samples), NEW query, NEW i, CellOf(samples, query, i) # Missing
  PROVE  \E s \in SampleKinds : samples = {s} /\ CellOf(samples, query, i) = Shown(query, i, s)
<1>1. samples # {}
  BY DEF CellOf
<1>2. PICK s \in SampleKinds : samples = {s}
  BY <1>1 DEF AtMostOne
<1>3. (CHOOSE t \in samples : TRUE) = s
  BY <1>2
<1> QED BY <1>1, <1>2, <1>3, Zenon DEF CellOf

\* What a qualified slot says was there, and young: the collection whose age was
\* looked at is that of the sample that shows the mode, or of one before it.
LEMMA QualifiedIsTrue ==
  ASSUME HeldState, stage = "reads", Cardinality(DOMAIN matrices) = Len(QUERIES),
         ReadState, NEW i \in Slots,
         NEW report, report = assess(Values(i), RawTimes(i), Epoch(i)),
         report.classification = QUALIFIED
  PROVE  \E s \in before[i] \cup stored[i] : s.mode = report.mode /\ Young(s)
<1> DEFINE values == Values(i)
           times == RawTimes(i)
<1>1. /\ Fresh(values, times, Epoch(i))
      /\ values["valid"] = 1 /\ values["local"] + values["bootstrap"] = 1
      /\ report.mode = IF values["local"] = 1 THEN "LOCAL" ELSE "BOOTSTRAP"
  <2>1. INSUFFICIENT # QUALIFIED /\ INVALID_STATE # QUALIFIED
    BY DEF INSUFFICIENT, INVALID_STATE, QUALIFIED
  <2>2. /\ Fresh(values, times, Epoch(i)) /\ ~Contradictory(values) /\ values["valid"] = 1
        /\ report.mode = IF values["local"] = 1 THEN "LOCAL" ELSE "BOOTSTRAP"
    BY <2>1 DEF assess
  <2> QED BY <2>2 DEF Contradictory
<1>2. \A k \in METRICS : values[k] # Missing /\ values[k] = matrices[k][i]
  <2>1. \A k \in METRICS : values[k] # Missing
    BY <1>1 DEF Fresh
  <2> QED BY <2>1 DEF Values
<1> HIDE DEF values, times
<1>3. PICK c \in 0..8 : SplitAt(c)
  BY DEF HeldState
<1> DEFINE S(j) == IF j <= c THEN before[i] ELSE stored[i]
<1>4. \A j \in 1..8 : AtMostOne(S(j)) /\ matrices[QUERIES[j]][i] = CellOf(S(j), QUERIES[j], i)
  <2>1. ASSUME NEW j \in 1..8 PROVE AtMostOne(S(j))
    <3>1. AtMostOne(before[i]) /\ AtMostOne(stored[i])
      BY DEF HeldState
    <3>2. S(j) = before[i] \/ S(j) = stored[i]
      OBVIOUS
    <3> QED BY <3>1, <3>2, Zenon
  <2>2. \A j \in 1..8 : j <= Cardinality(DOMAIN matrices)
    BY QueriesDiffer
  <2>3. \A j \in 1..8 : matrices[QUERIES[j]][i] = CellOf(S(j), QUERIES[j], i)
    BY <1>3, <2>2, Zenon DEF SplitAt
  <2> QED BY <2>1, <2>3
<1>5. /\ QUERIES[1] = "collection" /\ QUERIES[5] = "local" /\ QUERIES[7] = "bootstrap"
      /\ "collection" \in METRICS /\ "local" \in METRICS /\ "bootstrap" \in METRICS
  BY DEF QUERIES, METRICS
<1>6. PICK f \in SampleKinds :
        S(1) = {f} /\ values["collection"] = Epoch(i) - f.age - f.late
  <2>1. values["collection"] = CellOf(S(1), "collection", i)
    BY <1>2, <1>4, <1>5
  <2>2. PICK f \in SampleKinds : S(1) = {f} /\ values["collection"] = Shown("collection", i, f)
    BY <1>2, <1>4, <1>5, <2>1, OneCell
  <2> QED BY <2>2 DEF Shown
<1>7. Young(f)
  <2>1. f.age \in Int /\ f.late \in Int /\ Epoch(i) \in Int
    BY IncidentAssumption DEF Slots, Epoch
  <2>2. Epoch(i) - values["collection"] \in -FUTURE_SECONDS..TTL_COLLECTION
    BY <1>1 DEF Fresh
  <2>3. Epoch(i) - (Epoch(i) - f.age - f.late) <= TTL_COLLECTION
    BY <1>6, <2>2, ObservationAssumption
  <2> QED BY <2>1, <2>3, ObservationAssumption DEF Young
<1>8. PICK j \in {5, 7} : \E s \in SampleKinds : S(j) = {s} /\ s.mode = report.mode
  <2>1. /\ values["local"] = CellOf(S(5), "local", i)
        /\ values["bootstrap"] = CellOf(S(7), "bootstrap", i)
    BY <1>2, <1>4, <1>5
  <2>2. PICK s \in SampleKinds : S(5) = {s} /\ values["local"] = Shown("local", i, s)
    BY <1>2, <1>4, <1>5, <2>1, OneCell
  <2>3. PICK t \in SampleKinds : S(7) = {t} /\ values["bootstrap"] = Shown("bootstrap", i, t)
    BY <1>2, <1>4, <1>5, <2>1, OneCell
  <2>4. CASE values["local"] = 1
    <3>1. s.mode = "LOCAL"
      BY <2>2, <2>4 DEF Shown
    <3> QED BY <1>1, <2>2, <2>4, <3>1
  <2>5. CASE values["local"] # 1
    <3>1. values["local"] = 0
      BY <2>2, <2>5 DEF Shown
    <3>2. values["bootstrap"] = 1
      <4>1. Shown("bootstrap", i, t) \in {0, 1}
        BY DEF Shown
      <4> QED BY <1>1, <2>3, <3>1, <4>1
    <3>3. t.mode = "BOOTSTRAP"
      BY <2>3, <3>2 DEF Shown
    <3> QED BY <1>1, <2>3, <2>5, <3>3
  <2> QED BY <2>4, <2>5
<1>9. PICK s \in SampleKinds : S(j) = {s} /\ s.mode = report.mode
  BY <1>8
<1>10. Young(s)
  <2>1. /\ f.age \in Int /\ f.late \in Int /\ s.age \in Int /\ s.late \in Int
        /\ TTL_COLLECTION \in Int
    BY IncidentAssumption, ObservationAssumption
  <2>2. CASE S(j) = S(1)
    <3>1. s = f
      BY <1>6, <1>9, <2>2
    <3> QED BY <1>7, <3>1
  <2>3. CASE S(j) # S(1)
    <3>1. S(j) = stored[i] /\ S(1) = before[i]
      BY <2>3
    <3>2. Younger(i)
      BY DEF HeldState
    <3>3. s.age + s.late < f.age + f.late
      BY <1>6, <1>9, <2>3, <3>1, <3>2 DEF Younger
    <3> QED BY <1>7, <2>1, <3>3 DEF Young
  <2> QED BY <2>2, <2>3
<1>11. s \in before[i] \cup stored[i]
  BY <1>9
<1> QED BY <1>9, <1>10, <1>11

\* A slot without evidence had no young sample with its own time: every answer would
\* have been there, of one collection and not too old.
LEMMA InsufficientIsTrue ==
  ASSUME HeldState, stage = "reads", Cardinality(DOMAIN matrices) = Len(QUERIES),
         NEW i \in Slots, stored[i] = before[i],
         checked_report(Values(i), RawTimes(i), Epoch(i)),
         assess(Values(i), RawTimes(i), Epoch(i)).classification = INSUFFICIENT,
         NEW s \in stored[i], Young(s), Aligned(s)
  PROVE  FALSE
<1> DEFINE now == Epoch(i)
           values == Values(i)
           times == RawTimes(i)
           raw == now - s.age
           collected == now - s.age - s.late
<1>1. stored[i] = {s} /\ s \in SampleKinds
  BY DEF HeldState, AtMostOne
<1>2. s.age \in Nat /\ s.late \in Int
  BY <1>1, IncidentAssumption
<1>3. now \in Int /\ now > 100 + 2 * TTL_COLLECTION
  <2>1. i \in Nat /\ 0 < i /\ STEP \in Nat
    BY IncidentAssumption DEF Slots
  <2>2. Epoch(0) + STEP <= Epoch(i) /\ Epoch(i) \in Int
    BY <2>1, EpochsApart
  <2>3. Epoch(0) = 100
    BY <2>1 DEF Epoch
  <2> QED BY <2>1, <2>2, <2>3, SlotsAreLong, ObservationAssumption
<1>4. s.age + s.late <= TTL_COLLECTION /\ s.late \in -TTL_COLLECTION..TTL_COLLECTION
  BY DEF Young, Aligned
<1>5. \A j \in 1..8 : matrices[QUERIES[j]][i] = Shown(QUERIES[j], i, s)
  <2>1. PICK c \in 0..8 : SplitAt(c)
    BY DEF HeldState
  <2>2. \A j \in 1..8 : matrices[QUERIES[j]][i] = CellOf(stored[i], QUERIES[j], i)
    BY <2>1, QueriesDiffer DEF SplitAt
  <2>3. \A q : CellOf(stored[i], q, i) = Shown(q, i, s)
    <3>1. (CHOOSE t \in stored[i] : TRUE) = s
      BY <1>1
    <3> QED BY <1>1, <3>1 DEF CellOf
  <2> QED BY <2>2, <2>3
<1>6. /\ matrices["collection"][i] = collected
      /\ matrices["valid"][i] \in {0, 1} /\ matrices["local"][i] \in {0, 1}
      /\ matrices["bootstrap"][i] \in {0, 1}
      /\ matrices["collection_time"][i] = raw /\ matrices["valid_time"][i] = raw
      /\ matrices["local_time"][i] = raw /\ matrices["bootstrap_time"][i] = raw
  BY <1>5 DEF QUERIES, Shown
<1>7. raw \in Int /\ collected \in Int /\ raw > 0 /\ collected > 0
      /\ now - raw = s.age /\ now - collected = s.age + s.late /\ collected - raw = -s.late
  <2> DEFINE e == s.age
             l == s.late
             c == TTL_COLLECTION
  <2>1. /\ now \in Int /\ now > 100 + 2 * c
        /\ e \in Nat /\ l \in Int /\ c \in Nat /\ e + l <= c /\ -c <= l
    BY <1>2, <1>3, <1>4, ObservationAssumption
  <2> HIDE DEF e, l, c, now
  <2>2. /\ now - e \in Int /\ now - e - l \in Int /\ now - e > 0 /\ now - e - l > 0
        /\ now - (now - e) = e /\ now - (now - e - l) = e + l /\ now - e - l - (now - e) = -l
    BY <2>1
  <2> QED BY <2>2 DEF e, l
<1> HIDE DEF now, raw, collected
<1>8. \A k \in METRICS : Paired(k, i) /\ matrices[TimeOf[k]][i] = raw
  BY <1>6, <1>7 DEF METRICS, TimeOf, Paired, Missing
<1>9. /\ values["collection"] = collected /\ times["collection"] = raw
      /\ \A k \in METRICS : values[k] # Missing /\ times[k] # Missing /\ times[k] = raw
  <2>1. /\ "collection" \in METRICS
        /\ \A k \in METRICS : values[k] = matrices[k][i] /\ times[k] = matrices[TimeOf[k]][i]
    BY <1>8 DEF Values, RawTimes, METRICS
  <2> QED BY <1>6, <1>8, <2>1 DEF Paired
<1>10. now - raw \in -FUTURE_SECONDS..TTL_RAW
  <2>1. s.age <= 2 * TTL_COLLECTION
    BY <1>2, <1>4, ObservationAssumption
  <2> QED BY <1>2, <1>7, <2>1, SamplesOutlive, ObservationAssumption
<1>11. now - collected \in -FUTURE_SECONDS..TTL_COLLECTION
  <2>1. values["collection"] = Missing \/ values["collection"] \in 1..now
    BY DEF checked_report, now
  <2>2. collected \in 1..now
    BY <1>7, <1>9, <2>1 DEF Missing
  <2>3. collected <= now /\ now - collected <= TTL_COLLECTION
    BY <1>4, <1>7, <2>2
  <2> QED BY <1>3, <1>7, <2>3, ObservationAssumption
<1>12. collected - raw \in -TTL_COLLECTION..TTL_COLLECTION
  BY <1>2, <1>4, <1>7, ObservationAssumption
<1>13. Fresh(values, times, now)
  <2> HIDE DEF values, times
  <2>1. \A j, k \in METRICS : times[j] - times[k] <= MAX_SPREAD
    BY <1>7, <1>9, ObservationAssumption
  <2>2. values["collection"] # 0
    BY <1>7, <1>9
  <2> QED BY <1>9, <1>10, <1>11, <1>12, <2>1, <2>2 DEF Fresh
<1>14. Contradictory(values)
  BY <1>13 DEF assess, now, INSUFFICIENT, INVALID_STATE, QUALIFIED
<1> QED BY <1>13, <1>14 DEF checked_report, now

\* What every answer came from is known from the first query on.
LEMMA HeldInit == IncidentInit => HeldState
<1> SUFFICES ASSUME IncidentInit PROVE HeldState
  OBVIOUS
<1>1. before = stored /\ \A i \in Slots : AtMostOne(stored[i])
  BY DEF IncidentInit, AtMostOne
<1>2. DOMAIN matrices = {} /\ Cardinality({}) = 0
  BY FS_EmptySet DEF IncidentInit
<1>3. SplitAt(0)
  BY <1>2 DEF SplitAt
<1> QED BY <1>1, <1>3 DEF HeldState, Younger

\* A sample that comes splits the answers at those given so far.
LEMMA ArriveHeld ==
  ASSUME ReadState, HeldState, NEW i \in Slots, Arrive(i)
  PROVE  HeldState'
<1>1. PICK n \in 1..7 :
        /\ stage = "reads" /\ stored = before /\ Cardinality(DOMAIN matrices) = n
        /\ UNCHANGED <<stage, before, matrices>>
  BY QueriesDiffer DEF Arrive
<1>2. PICK new \in SampleKinds :
        /\ \A old \in stored[i] : new.age < old.age /\ new.age + new.late < old.age + old.late
        /\ stored' = [stored EXCEPT ![i] = {new}]
  BY DEF Arrive
<1>3. stored \in [Slots -> SUBSET SampleKinds]
  BY <1>1 DEF ReadState
<1>4. stored'[i] = {new} /\ \A j \in Slots \ {i} : stored'[j] = stored[j]
  BY <1>2, <1>3
<1>5. ASSUME NEW j \in Slots
      PROVE  AtMostOne(before[j]) /\ AtMostOne(stored'[j])
             /\ (stored'[j] = before[j]
                  \/ \E w \in SampleKinds :
                       /\ stored'[j] = {w}
                       /\ \A old \in before[j] :
                            w.age < old.age /\ w.age + w.late < old.age + old.late)
  <2>1. CASE j = i
    BY <1>1, <1>2, <1>4, <2>1, Zenon DEF HeldState, AtMostOne
  <2>2. CASE j # i
    BY <1>1, <1>4, <2>2 DEF HeldState
  <2> QED BY <2>1, <2>2
<1>6. PICK c \in 0..8 : SplitAt(c)
  BY <1>1 DEF HeldState
<1>7. n \in 0..8 /\ Cardinality(DOMAIN matrices') = n
  BY <1>1
<1>8. ASSUME NEW j \in 1..8, j <= n, NEW k \in Slots
      PROVE  matrices[QUERIES[j]][k] = CellOf(before[k], QUERIES[j], k)
  <2>1. matrices[QUERIES[j]][k] = CellOf(IF j <= c THEN before[k] ELSE stored[k], QUERIES[j], k)
    BY <1>1, <1>6, <1>8, Zenon DEF SplitAt
  <2> QED BY <1>1, <2>1, Zenon
<1>9. SplitAt(n)'
  <2>1. \A j \in 1..8 : j <= Cardinality(DOMAIN matrices)' =>
          \A k \in Slots :
            matrices'[QUERIES[j]][k]
              = CellOf(IF j <= n THEN before'[k] ELSE stored'[k], QUERIES[j], k)
    BY <1>1, <1>7, <1>8
  <2> QED BY <2>1, Zenon DEF SplitAt
<1> QED BY <1>1, <1>5, <1>7, <1>9, Zenon DEF HeldState, Younger

\* A query that is answered is answered from what is stored by then.
LEMMA GetHeld ==
  ASSUME ReadState, ReadState', HeldState, Get
  PROVE  HeldState'
<1>1. PICK n \in 0..7 : stage = "reads" /\ Cardinality(DOMAIN matrices) = n
  BY QueriesDiffer DEF Get, ReadState
<1> DEFINE query == QUERIES[n + 1]
<1>2. /\ matrices' = [q \in DOMAIN matrices \cup {query} |->
                        IF q = query THEN [i \in Slots |-> Cell(query, i)] ELSE matrices[q]]
      /\ UNCHANGED <<stage, before, stored>>
  BY <1>1 DEF Get
<1>3. DOMAIN matrices = Asked(n) /\ IsFiniteSet(DOMAIN matrices)
  BY <1>1 DEF ReadState
<1>4. Cardinality(DOMAIN matrices') = n + 1
  <2>1. DOMAIN matrices' = DOMAIN matrices \cup {query}
    BY <1>2
  <2>2. query \notin Asked(n)
    BY <1>1, QueriesDiffer DEF Asked
  <2> QED BY <1>1, <1>3, <2>1, <2>2, FS_AddElement
<1>5. PICK c \in 0..8 : SplitAt(c)
  BY <1>1 DEF HeldState
<1>6. PICK d \in 0..8 :
        /\ ~(n + 1 <= d) /\ n + 1 \in 1..8
        /\ \A j \in 1..8 : j <= n => (j <= d <=> j <= c)
        /\ \A j \in 1..8 : j <= n + 1 => j <= n \/ j = n + 1
  <2> DEFINE d == IF c > n THEN n ELSE c
  <2> QED BY d \in 0..8
<1>7. ASSUME NEW j \in 1..8, j <= n, NEW i \in Slots
      PROVE  matrices'[QUERIES[j]][i]
               = CellOf(IF j <= d THEN before[i] ELSE stored[i], QUERIES[j], i)
  <2>1. QUERIES[j] \in Asked(n) /\ QUERIES[j] # query
    <3>1. j \in 1..n /\ n + 1 # j
      BY <1>7
    <3> QED BY <1>6, <3>1, QueriesDiffer DEF Asked
  <2>2. matrices'[QUERIES[j]] = matrices[QUERIES[j]]
    BY <1>2, <1>3, <2>1
  <2>3. matrices[QUERIES[j]][i]
          = CellOf(IF j <= c THEN before[i] ELSE stored[i], QUERIES[j], i)
    BY <1>1, <1>5, <1>7, Zenon DEF SplitAt
  <2> QED BY <1>6, <1>7, <2>2, <2>3, Zenon
<1>8. ASSUME NEW i \in Slots
      PROVE  matrices'[query][i] = CellOf(stored[i], query, i)
  <2>1. matrices'[query][i] = Cell(query, i)
    BY <1>2
  <2> QED BY <2>1, Zenon DEF Cell, CellOf
<1>9. SplitAt(d)'
  <2>1. Cardinality(DOMAIN matrices)' = n + 1 /\ before' = before /\ stored' = stored
    BY <1>2, <1>4
  <2>2. ASSUME NEW j \in 1..8, j <= n + 1, NEW i \in Slots
        PROVE  matrices'[QUERIES[j]][i]
                 = CellOf(IF j <= d THEN before[i] ELSE stored[i], QUERIES[j], i)
    <3>1. CASE j <= n
      BY <1>7, <3>1
    <3>2. CASE j = n + 1
      BY <1>6, <1>8, <3>2, Zenon
    <3> QED BY <1>6, <2>2, <3>1, <3>2
  <2>3. \A j \in 1..8 : j <= Cardinality(DOMAIN matrices)' =>
          \A i \in Slots :
            matrices'[QUERIES[j]][i]
              = CellOf(IF j <= d THEN before'[i] ELSE stored'[i], QUERIES[j], i)
    BY <2>1, <2>2
  <2> QED BY <2>3, Zenon DEF SplitAt
<1>10. \A i \in Slots : (AtMostOne(before[i]) /\ AtMostOne(stored[i]) /\ Younger(i))'
  BY <1>1, <1>2, Zenon DEF HeldState, Younger
<1> QED BY <1>9, <1>10, Zenon DEF HeldState

-----------------------------------------------------------------------------
(* The comparison, the join and the validation.                            *)

\* The slots are an assessed timeline, and the status is theirs.
Assessed ==
  /\ boundary = assess_timeline(slots)
  /\ \E values, times :
       /\ \A i \in Slots : IntMetrics(values[i]) /\ IntMetrics(times[i])
       /\ \A i \in Slots : checked_report(values[i], times[i], Epoch(i))
       /\ slots = [i \in Slots |-> assess(values[i], times[i], Epoch(i))]

\* The slots of the comparison, counted: those without evidence are some of those
\* that are not qualified.
Counted ==
  /\ parity.qualified_slots + parity.unqualified_slots = Len(Reference)
  /\ parity.unqualified # {} => parity.unqualified_slots > 0

\* What the join has said of a correlation is what the validation asks of one.
Reportable ==
  /\ parity.classification = "MATCH"
  /\ \A j \in 1..3 : joined.buckets[j] # {}
  /\ joined.wifi_count = joined.counts["WIFI"]
  /\ Consistent(joined)

MatchState ==
  /\ stage = "observed" => Assessed
  /\ stage \in {"compared", "joined", "validated"} /\ parity.classification = "MATCH" =>
       boundary = RESUMED
  /\ stage \in {"compared", "joined", "validated"} => Counted
  /\ stage \in {"joined", "validated"} /\ joined.classification = "CORRELATION" => Reportable

\* The slots of the reference are those of one window, and what is sampled after it
\* advances: a timeline that matches the reference is one that resumed.
LEMMA MatchResumes ==
  ASSUME Assessed, Matched
  PROVE  boundary = RESUMED /\ Advance
<1> DEFINE n == Len(Reference)
           windows == {i \in 1..n : ~Qualified(slots, i)}
<1>1. /\ n \in Nat /\ n >= 4 /\ Slots = 1..n
  BY IncidentAssumption DEF Slots
<1>2. PICK values, times :
        /\ \A i \in Slots : IntMetrics(values[i]) /\ IntMetrics(times[i])
        /\ slots = [i \in Slots |-> assess(values[i], times[i], Epoch(i))]
  BY Zenon DEF Assessed
<1>3. Len(slots) = n
  BY <1>1, <1>2
<1>4. PICK first \in 2..(n - 2), last \in 2..(n - 2) :
        first <= last /\ \A i \in 1..n : Reference[i] <=> i \notin first..last
  BY ReferenceHasOneWindow
<1>5. /\ QUALIFIED # INSUFFICIENT /\ INVALID_STATE # INSUFFICIENT
  BY DEF QUALIFIED, INSUFFICIENT, INVALID_STATE
<1>6. \A i \in 1..n : /\ Qualified(slots, i) <=> i \notin first..last
                      /\ i \in first..last => slots[i].classification = INSUFFICIENT
  BY <1>1, <1>4, <1>5 DEF Matched, Qualified
<1>7. windows = first..last /\ windows # {} /\ windows \subseteq 1..n
  BY <1>1, <1>4, <1>6
<1>8. Min(windows) = first /\ Max(windows) = last
  <2>1. Min(windows) \in windows /\ \A i \in windows : Min(windows) <= i
    BY <1>1, <1>7, SmallestSlot
  <2>2. Max(windows) \in windows /\ \A i \in windows : i <= Max(windows)
    BY <1>1, <1>7, LargestSlot
  <2>3. first \in windows /\ last \in windows
    BY <1>4, <1>7
  <2> DEFINE smallest == Min(windows)
             largest == Max(windows)
  <2>4. smallest \in first..last /\ smallest <= first /\ largest \in first..last /\ last <= largest
    BY <1>7, <2>1, <2>2, <2>3
  <2> HIDE DEF smallest, largest
  <2>5. smallest = first /\ largest = last
    BY <2>4
  <2> QED BY <2>5 DEF smallest, largest
<1>9. assess_timeline(slots) \notin Rejected
  BY <1>2, Timeline
<1>10. assess_timeline(slots) = RESUMED
  <2>1. /\ first # 1 /\ ~(n - last < 2)
        /\ ~\E i \in first..last : Qualified(slots, i)
        /\ ~\E i \in windows : slots[i].classification = INVALID_STATE
    BY <1>1, <1>4, <1>5, <1>6, <1>7
  <2> QED BY <1>3, <1>7, <1>8, <1>9, <2>1 DEF assess_timeline, Rejected
<1>11. Advance
  <2>1. n - 1 \in Slots /\ n \in Slots /\ n - 1 < n
        /\ n - 1 \notin first..last /\ n \notin first..last
    BY <1>1, <1>4
  <2>2. Qualified(slots, n - 1) /\ Qualified(slots, n)
    BY <1>1, <1>6, <2>1
  <2>3. \A k \in METRICS : slots[n - 1].times[k] < slots[n].times[k]
    BY <1>2, <2>1, <2>2, QualifiedOrder
  <2> QED BY <2>3 DEF Advance, Below
<1> QED BY <1>10, <1>11 DEF Assessed

\* Every slot of an assessed timeline passes the checks of the comparison.
LEMMA SlotsAreValid ==
  ASSUME Assessed, NEW i \in Slots
  PROVE  validate_slot(i)
<1>1. PICK values, times :
        /\ \A j \in Slots : IntMetrics(values[j]) /\ IntMetrics(times[j])
        /\ \A j \in Slots : checked_report(values[j], times[j], Epoch(j))
        /\ slots = [j \in Slots |-> assess(values[j], times[j], Epoch(j))]
  BY Zenon DEF Assessed
<1>2. slots[i] = assess(values[i], times[i], Epoch(i))
  BY <1>1
<1>3. slots[i].times = times[i]
  BY <1>2 DEF assess
<1>4. slots[i].classification = QUALIFIED <=> slots[i].mode \in {"LOCAL", "BOOTSTRAP"}
  BY <1>2 DEF assess, QUALIFIED, INSUFFICIENT, INVALID_STATE
<1>5. \A k \in METRICS : slots[i].times[k] <= Epoch(i) + FUTURE_SECONDS
  BY <1>1, <1>3 DEF checked_report
<1>6. ASSUME slots[i].classification = QUALIFIED, NEW k \in METRICS
      PROVE  slots[i].times[k] # Missing
  <2>1. Fresh(values[i], times[i], Epoch(i))
    BY <1>2, <1>6 DEF assess, QUALIFIED, INSUFFICIENT, INVALID_STATE
  <2> QED BY <1>3, <2>1 DEF Fresh
<1> QED BY <1>4, <1>5, <1>6 DEF validate_slot

\* The comparison counts every slot once.
LEMMA CompareCounts ==
  ASSUME Assessed, compare_report, stage' = "compared"
  PROVE  Counted'
<1> DEFINE good == {i \in Slots : Qualified(slots, i)}
           bad == {i \in Slots : ~Qualified(slots, i)}
           without == {i \in Slots : slots[i].classification = INSUFFICIENT}
           n == Len(Reference)
<1>1. /\ parity'.qualified_slots = Cardinality(good)
      /\ parity'.unqualified_slots = Cardinality(bad)
      /\ parity'.unqualified = without
  BY DEF compare_report
<1>2. n \in Nat /\ n >= 4 /\ Slots = 1..n
  BY IncidentAssumption DEF Slots
<1>3. IsFiniteSet(Slots) /\ Cardinality(Slots) = n
  <2> HIDE DEF n
  <2>1. IsFiniteSet(1..n) /\ Cardinality(1..n) = n - 1 + 1
    BY <1>2, FS_Interval
  <2> QED BY <1>2, <2>1
<1>4. good \subseteq Slots /\ bad = Slots \ good
  OBVIOUS
<1>5. without \subseteq bad
  BY DEF Qualified, QUALIFIED, INSUFFICIENT
<1> HIDE DEF good, bad, without, n
<1>6. IsFiniteSet(good) /\ IsFiniteSet(bad)
  BY <1>3, <1>4, FS_Subset
<1>7. Cardinality(good) \in Nat /\ Cardinality(bad) \in Nat
  BY <1>6, FS_CardinalityType
<1>8. Cardinality(bad) = n - Cardinality(good)
  <2>1. Slots \cap good = good
    BY <1>4
  <2>2. Cardinality(Slots \ good) = Cardinality(Slots) - Cardinality(Slots \cap good)
    BY <1>3, FS_Difference
  <2> QED BY <1>3, <1>4, <2>1, <2>2
<1>9. parity'.qualified_slots + parity'.unqualified_slots = n
  BY <1>1, <1>2, <1>7, <1>8
<1>10. without # {} => Cardinality(bad) > 0
  <2>1. without # {} => Cardinality(bad) # 0
    BY <1>5, <1>6, FS_EmptySet
  <2> QED BY <1>7, <2>1
<1> QED BY <1>1, <1>9, <1>10 DEF Counted, n

\* The events of a journal are a finite set, and so are their times.
LEMMA SomeTimes ==
  ASSUME NEW rows \in Journals, NEW code, Times(rows, code) # {}
  PROVE  Cardinality(Times(rows, code)) > 0
<1> DEFINE those == {r \in Events(rows) : r.code = code}
           times == {row.at : row \in those}
<1>1. IsFiniteSet(rows) /\ those \subseteq rows
  BY JournalsAreFinite DEF Events
<1>2. IsFiniteSet(those)
  BY <1>1, FS_Subset
<1> HIDE DEF those
<1>3. IsFiniteSet(times)
  <2> DEFINE at == [row \in those |-> row.at]
  <2>1. at \in [those -> times] /\ \A y \in times : \E x \in those : at[x] = y
    OBVIOUS
  <2>2. at \in Surjection(those, times)
    BY DEF Surjection
  <2> HIDE DEF at, times
  <2> QED BY <1>2, <2>2, FS_Surjection
<1>4. Times(rows, code) = times
  BY DEF Times, those
<1> HIDE DEF times
<1>5. Cardinality(times) \in Nat /\ Cardinality(times) # 0
  BY <1>3, <1>4, FS_EmptySet, FS_CardinalityType
<1> QED BY <1>4, <1>5

\* What the join calls a correlation has what the validation will ask for.
LEMMA JoinIsReportable ==
  ASSUME join, Counted, joined'.classification = "CORRELATION"
  PROVE  Reportable'
<1>1. PICK rows \in Journals : joined' = ReportOf(rows)
  BY DEF join
<1> DEFINE r == ReportOf(rows)
<1>2. Correlated(rows)
  BY <1>1 DEF ReportOf
<1>3. parity' = parity
  BY DEF join
<1>4. /\ Cardinality(Boots(rows)) = 1 /\ parity.classification = "MATCH"
      /\ Overlaps(Times(rows, "SSH")) /\ Overlaps(Times(rows, "WIFI"))
      /\ Cardinality(Times(rows, "WIFI")) = 1 /\ PostSuccess(rows) # {}
  BY <1>2, Zenon DEF Correlated
<1>5. /\ Times(rows, "SSH") # {} /\ Times(rows, "WIFI") # {} /\ parity.unqualified # {}
      /\ Times(rows, "SUCCESS") # {}
  <2>1. \A times : Overlaps(times) => times # {} /\ parity.unqualified # {}
    BY DEF Overlaps
  <2>2. PostSuccess(rows) \subseteq Times(rows, "SUCCESS")
    BY DEF PostSuccess
  <2> QED BY <1>4, <2>1, <2>2
<1>6. \A times : times # {} => FirstBucket(times) # {}
  BY DEF FirstBucket
<1>7. \A j \in 1..3 : r.buckets[j] # {}
  <2>1. r.buckets = <<FirstBucket(Times(rows, "SSH")), FirstBucket(Times(rows, "WIFI")),
                      FirstBucket(PostSuccess(rows))>>
    BY <1>4 DEF ReportOf
  <2> QED BY <1>4, <1>5, <1>6, <2>1
<1>8. /\ r.wifi_count = Cardinality(Times(rows, "WIFI"))
      /\ r.counts["WIFI"] = Cardinality(Times(rows, "WIFI"))
      /\ r.counts["SSH"] = Cardinality(Times(rows, "SSH"))
      /\ r.counts["SUCCESS"] = Cardinality(Times(rows, "SUCCESS"))
      /\ r.single_boot = (Cardinality(Boots(rows)) = 1)
      /\ r.ssh_overlaps = Overlaps(Times(rows, "SSH"))
      /\ r.wifi_overlaps = Overlaps(Times(rows, "WIFI"))
      /\ r.post_success = (PostSuccess(rows) # {})
  BY DEF ReportOf, Codes
<1>9. Cardinality(Times(rows, "SSH")) > 0 /\ Cardinality(Times(rows, "SUCCESS")) > 0
  BY <1>5, SomeTimes
<1> HIDE DEF r
<1>10. Consistent(r)
  <2>1. /\ r.single_boot /\ r.ssh_overlaps /\ r.wifi_overlaps /\ r.post_success
        /\ r.wifi_count = 1
    BY <1>4, <1>8, Zenon
  <2>2. r.counts["SSH"] > 0 /\ r.counts["SUCCESS"] > 0
    BY <1>8, <1>9
  <2>3. parity.unqualified_slots > 0
    BY <1>5 DEF Counted
  <2> QED BY <2>1, <2>2, <2>3, Zenon DEF Consistent
<1>11. Consistent(joined)' /\ joined' = r
  BY <1>1, <1>3, <1>10 DEF Consistent, r
<1> QED BY <1>3, <1>4, <1>7, <1>8, <1>11 DEF Reportable

-----------------------------------------------------------------------------
(* The report of an incident.                                              *)

IncidentInv == NInv /\ HeldState /\ SlotsAreTrue /\ MatchState /\ CorrelationIsReportable

LEMMA IncidentInvInit == IncidentInit => IncidentInv
<1> SUFFICES ASSUME IncidentInit PROVE IncidentInv
  OBVIOUS
<1>1. stage = "reads"
  BY DEF IncidentInit
<1>2. SlotsAreTrue /\ MatchState /\ CorrelationIsReportable
  BY <1>1, Zenon DEF SlotsAreTrue, MatchState, CorrelationIsReportable
<1> QED BY <1>2, NInvInit, HeldInit DEF IncidentInv

\* The slots that are made of the answers are true, and the timeline is theirs.
LEMMA ObserveKeepsInv ==
  ASSUME IncidentInv, observe_historical
  PROVE  SlotsAreTrue' /\ MatchState' /\ stage' \in {"observed", "hold"}
<1> DEFINE values == [i \in Slots |-> Values(i)]
           times == [i \in Slots |-> RawTimes(i)]
           reports == [i \in Slots |-> assess(values[i], times[i], Epoch(i))]
<1>1. /\ stage = "reads" /\ Cardinality(DOMAIN matrices) = Len(QUERIES)
      /\ UNCHANGED <<before, stored>>
      /\ ReadState /\ HeldState
  BY DEF observe_historical, IncidentInv, NInv
<1>2. CASE \A i \in Slots : checked_report(values[i], times[i], Epoch(i))
  <2>1. slots' = reports /\ boundary' = assess_timeline(reports) /\ stage' = "observed"
    BY <1>2 DEF observe_historical
  <2>2. \A i \in Slots : IntMetrics(values[i]) /\ IntMetrics(times[i])
    BY <1>1, ReadInFull
  <2>3. ASSUME NEW i \in Slots, slots'[i].classification = QUALIFIED
        PROVE  \E s \in before'[i] \cup stored'[i] : s.mode = slots'[i].mode /\ Young(s)
    <3>1. slots'[i] = assess(Values(i), RawTimes(i), Epoch(i))
      BY <2>1
    <3> QED BY <1>1, <2>3, <3>1, QualifiedIsTrue
  <2>4. ASSUME NEW i \in Slots, slots'[i].classification = INSUFFICIENT, stored'[i] = before'[i],
               NEW s \in stored'[i]
        PROVE  ~(Young(s) /\ Aligned(s))
    <3>1. slots'[i] = assess(Values(i), RawTimes(i), Epoch(i))
      BY <2>1
    <3>2. checked_report(Values(i), RawTimes(i), Epoch(i))
      BY <1>2
    <3> QED BY <1>1, <2>4, <3>1, <3>2, InsufficientIsTrue
  <2>5. SlotsAreTrue'
    BY <2>3, <2>4, Zenon DEF SlotsAreTrue
  <2>6. Assessed'
    <3> HIDE DEF values, times
    <3>1. \E v, t :
            /\ \A i \in Slots : IntMetrics(v[i]) /\ IntMetrics(t[i])
            /\ \A i \in Slots : checked_report(v[i], t[i], Epoch(i))
            /\ slots' = [i \in Slots |-> assess(v[i], t[i], Epoch(i))]
      BY <1>2, <2>1, <2>2
    <3>2. boundary' = assess_timeline(slots')
      BY <2>1
    <3> QED BY <3>1, <3>2, Zenon DEF Assessed
  <2>7. MatchState'
    BY <2>1, <2>6 DEF MatchState
  <2> QED BY <2>1, <2>5, <2>7
<1>3. CASE ~\A i \in Slots : checked_report(values[i], times[i], Epoch(i))
  <2>1. stage' = "hold"
    BY <1>3 DEF observe_historical
  <2> QED BY <2>1, Zenon DEF SlotsAreTrue, MatchState
<1> QED BY <1>2, <1>3

LEMMA IncidentInvStep == IncidentInv /\ [IncidentNext]_ivars => IncidentInv'
<1> SUFFICES ASSUME IncidentInv, [IncidentNext]_ivars PROVE IncidentInv'
  OBVIOUS
<1>1. NInv'
  BY NInvStep DEF IncidentInv
<1>2. ReadState /\ ReadState' /\ HeldState
  BY <1>1 DEF IncidentInv, NInv
<1>3. ASSUME NEW i \in Slots, Arrive(i) PROVE IncidentInv'
  <2>1. HeldState'
    BY <1>2, <1>3, ArriveHeld
  <2>2. stage' = "reads"
    BY <1>3 DEF Arrive
  <2>3. SlotsAreTrue' /\ MatchState' /\ CorrelationIsReportable'
    BY <2>2, Zenon DEF SlotsAreTrue, MatchState, CorrelationIsReportable
  <2> QED BY <1>1, <2>1, <2>3 DEF IncidentInv
<1>4. CASE Get
  <2>1. HeldState'
    BY <1>2, <1>4, GetHeld
  <2>2. stage' = "reads"
    BY <1>4 DEF Get
  <2>3. SlotsAreTrue' /\ MatchState' /\ CorrelationIsReportable'
    BY <2>2, Zenon DEF SlotsAreTrue, MatchState, CorrelationIsReportable
  <2> QED BY <1>1, <2>1, <2>3 DEF IncidentInv
<1>5. CASE observe_historical
  <2>1. SlotsAreTrue' /\ MatchState' /\ stage' \in {"observed", "hold"}
    BY <1>5, ObserveKeepsInv
  <2> QED BY <1>1, <2>1 DEF IncidentInv, HeldState, CorrelationIsReportable
<1>6. CASE compare_report
  <2>1. stage = "observed" /\ Assessed /\ boundary' = boundary
    BY <1>6 DEF compare_report, IncidentInv, MatchState
  <2>2. Matched => boundary = RESUMED /\ Advance
    BY <2>1, MatchResumes
  <2>3. Matched => (Advance = (boundary = RESUMED))
    BY <2>2 DEF Advance, Below
  <2>4. \A i \in Slots : validate_slot(i)
    BY <2>1, SlotsAreValid
  <2>5. /\ stage' = "compared"
        /\ parity'.classification = IF Matched THEN "MATCH" ELSE "DIFFERS"
    BY <1>6, <2>3, <2>4 DEF compare_report
  <2>6. Counted'
    BY <1>6, <2>1, <2>5, CompareCounts
  <2>7. MatchState'
    BY <2>1, <2>2, <2>5, <2>6 DEF MatchState
  <2> QED BY <1>1, <2>5, <2>7
          DEF IncidentInv, HeldState, SlotsAreTrue, CorrelationIsReportable
<1>7. CASE join
  <2>1. stage = "compared" /\ stage' = "joined" /\ UNCHANGED <<boundary, parity>>
    BY <1>7 DEF join
  <2>2. Counted /\ Counted'
    BY <2>1, Zenon DEF IncidentInv, MatchState, Counted
  <2>3. joined'.classification = "CORRELATION" => Reportable'
    BY <1>7, <2>2, JoinIsReportable
  <2>4. MatchState'
    BY <2>1, <2>2, <2>3, Zenon DEF IncidentInv, MatchState
  <2> QED BY <1>1, <2>1, <2>4
          DEF IncidentInv, HeldState, SlotsAreTrue, CorrelationIsReportable
<1>8. CASE validate
  <2>1. stage = "joined" /\ stage' = "validated" /\ UNCHANGED <<boundary, parity, joined>>
    BY <1>8 DEF validate
  <2>2. MatchState'
    BY <2>1, Zenon DEF IncidentInv, MatchState, Counted, Reportable, Consistent
  <2>3. ASSUME joined'.classification = "CORRELATION" PROVE accepted'
    <3>1. Reportable /\ Counted /\ boundary = RESUMED
      BY <2>1, <2>3, Zenon DEF IncidentInv, MatchState, Reportable
    <3> QED BY <1>8, <3>1, Zenon DEF validate, Reportable, Counted
  <2>4. CorrelationIsReportable'
    BY <2>1, <2>3, Zenon DEF CorrelationIsReportable
  <2> QED BY <1>1, <2>1, <2>2, <2>4 DEF IncidentInv, HeldState, SlotsAreTrue
<1>9. CASE UNCHANGED ivars
  <2>1. /\ UNCHANGED <<stage, before, stored, matrices>> /\ slots' = slots
        /\ UNCHANGED <<boundary, parity, joined>> /\ accepted' = accepted
    BY <1>9 DEF ivars
  <2>2. HeldState'
    BY <2>1, Zenon DEF IncidentInv, HeldState, Younger, SplitAt
  <2>3. SlotsAreTrue' /\ CorrelationIsReportable'
    BY <2>1, Zenon DEF IncidentInv, SlotsAreTrue, CorrelationIsReportable
  <2>4. MatchState'
    <3>1. Assessed => Assessed'
      BY <2>1 DEF Assessed
    <3>2. (Reportable => Reportable') /\ (Counted => Counted')
      BY <2>1, Zenon DEF Reportable, Counted, Consistent
    <3> QED BY <2>1, <3>1, <3>2, Zenon DEF IncidentInv, MatchState
  <2> QED BY <1>1, <2>2, <2>3, <2>4 DEF IncidentInv
<1> QED BY <1>3, <1>4, <1>5, <1>6, <1>7, <1>8, <1>9 DEF IncidentNext

LEMMA IncidentInvariant == IncidentSpec => []IncidentInv
<1> QED BY IncidentInvInit, IncidentInvStep, PTL DEF IncidentSpec

\* Whatever was stored, and whatever came while it was read, the timeline is
\* never rejected for missing, regressed or repeated times after a window.
THEOREM IncidentAdvances == IncidentSpec => []PostWindowAdvances
<1>1. NInv => PostWindowAdvances
  BY DEF NInv
<1> QED BY <1>1, NInvInit, NInvStep, PTL DEF IncidentSpec

\* The slots of a report are what the store held, although each metric was read on
\* its own while a sample came in.
THEOREM ReportedSlotsAreTrue == IncidentSpec => []SlotsAreTrue
<1>1. IncidentInv => SlotsAreTrue
  BY DEF IncidentInv
<1> QED BY <1>1, IncidentInvariant, PTL

\* What the join calls a correlation is never refused afterwards, and the comparison
\* never meets a claim that its own times contradict.
THEOREM CorrelationsAreReportable == IncidentSpec => []CorrelationIsReportable
<1>1. IncidentInv => CorrelationIsReportable
  BY DEF IncidentInv
<1> QED BY <1>1, IncidentInvariant, PTL

-----------------------------------------------------------------------------
(* The readers of evidence and of reports.                                 *)

\* A set of two elements or more has two that differ.
LEMMA TwoDiffer ==
  ASSUME NEW S, IsFiniteSet(S), Cardinality(S) >= 2
  PROVE  \E x, y \in S : x # y
<1> SUFFICES ASSUME \A x, y \in S : x = y PROVE FALSE
  OBVIOUS
<1>1. CASE S = {}
  BY <1>1, FS_EmptySet
<1>2. CASE S # {}
  <2>1. PICK x : x \in S
    BY <1>2
  <2>2. S = {x}
    BY <2>1
  <2> QED BY <2>2, FS_Singleton
<1> QED BY <1>1, <1>2

\* Evidence that is ready has its witnesses (assess of C.63.5).
LEMMA WeighedReady ==
  ASSUME NEW rows \in Evidence, weigh(rows) = READY
  PROVE  /\ \E g, s \in rows : g.code = "GAP" /\ s.code = "SSH"
                               /\ g.at <= s.at + MAX_EVENT_SKEW /\ s.at <= g.at + MAX_EVENT_SKEW
         /\ \E p, q \in rows :
              /\ p.code = "FRESH" /\ q.code = "FRESH" /\ p.sample # q.sample
              /\ \A g \in rows : g.code = "GAP" => g.at < p.sample /\ g.at < q.sample
<1>1. /\ Admissible(rows) /\ At(rows, "GAP") # {} /\ Related(rows)
      /\ ~(Cardinality(PostGap(rows)) < 2)
  BY DEF weigh, READY
<1>2. IsFiniteSet(rows) /\ \A r \in rows : r.at \in Int /\ r.sample \in Int
  BY AdvisorAssumption
<1>3. \A r \in rows : r.at \in 0..WINDOW_SECONDS
  BY <1>1 DEF Admissible
<1>4. \E g, s \in rows : g.code = "GAP" /\ s.code = "SSH"
                         /\ g.at <= s.at + MAX_EVENT_SKEW /\ s.at <= g.at + MAX_EVENT_SKEW
  <2>1. PICK a \in At(rows, "GAP"), b \in At(rows, "SSH") :
          a - b \in -MAX_EVENT_SKEW..MAX_EVENT_SKEW
    BY <1>1 DEF Related
  <2>2. PICK g \in rows : g.code = "GAP" /\ g.at = a
    BY DEF At
  <2>3. PICK s \in rows : s.code = "SSH" /\ s.at = b
    BY DEF At
  <2>4. a \in Int /\ b \in Int
    BY <1>2, <2>2, <2>3
  <2>5. a <= b + MAX_EVENT_SKEW /\ b <= a + MAX_EVENT_SKEW
    BY <2>1, <2>4 DEF MAX_EVENT_SKEW
  <2> QED BY <2>2, <2>3, <2>5
<1> DEFINE gap == Max(At(rows, "GAP"))
<1>5. gap \in Int /\ \A g \in rows : g.code = "GAP" => g.at <= gap
  <2>1. At(rows, "GAP") \subseteq 0..WINDOW_SECONDS
    BY <1>3 DEF At
  <2>2. WINDOW_SECONDS \in Nat
    BY DEF WINDOW_SECONDS
  <2>3. gap \in At(rows, "GAP") /\ \A i \in At(rows, "GAP") : i <= gap
    BY <1>1, <2>1, <2>2, LargestNumber
  <2>4. \A g \in rows : g.code = "GAP" => g.at \in At(rows, "GAP")
    BY DEF At
  <2> QED BY <2>1, <2>2, <2>3, <2>4
<1> DEFINE after == {q \in rows : q.code = "FRESH" /\ q.at > gap /\ q.sample > gap}
<1>6. PostGap(rows) = {r.sample : r \in after}
  BY <1>1 DEF PostGap
<1> HIDE DEF gap
<1>7. IsFiniteSet(PostGap(rows))
  <2>1. IsFiniteSet(after)
    BY <1>2, FS_Subset
  <2> HIDE DEF after
  <2> DEFINE f == [r \in after |-> r.sample]
  <2>2. f \in Surjection(after, {r.sample : r \in after})
    BY DEF Surjection
  <2> QED BY <1>6, <2>1, <2>2, FS_Surjection
<1>8. Cardinality(PostGap(rows)) >= 2
  BY <1>1, <1>7, FS_CardinalityType
<1>9. PICK x, y \in PostGap(rows) : x # y
  BY <1>7, <1>8, TwoDiffer
<1>10. PICK p \in after : p.sample = x
  BY <1>6, <1>9
<1>11. PICK q \in after : q.sample = y
  BY <1>6, <1>9
<1>12. \A g \in rows : g.code = "GAP" => g.at < p.sample /\ g.at < q.sample
  BY <1>2, <1>5, <1>10, <1>11
<1> QED BY <1>4, <1>9, <1>10, <1>11, <1>12

\* The minutes of a slot and of the reconnection compare as their seconds do.
LEMMA Minutes ==
  ASSUME NEW i \in Nat, i >= 1, NEW wifi \in Nat
  PROVE  Slot(i) \div MINUTE > wifi \div MINUTE <=> Slot(i) > wifi
<1> DEFINE w == wifi \div 60
<1>1. Slot(i) = 300 * (i - 1) /\ Slot(i) \div 60 = 5 * (i - 1)
  BY DEF Slot, GRID_SECONDS
<1>2. w \in Int /\ 60 * w <= wifi /\ wifi < 60 * w + 60
  OBVIOUS
<1> HIDE DEF w
<1>3. 5 * (i - 1) > w <=> 300 * (i - 1) > wifi
  BY <1>2
<1> QED BY <1>1, <1>3 DEF MINUTE, w

\* What is made of a report that is read back (parse_cli of C.63.1).
LEMMA ReadBack ==
  ASSUME NEW r \in CliReports, parse_cli(r)
  PROVE  /\ r.post = Cardinality({i \in 1..r.slots : r.grid[i] = "FRESH" /\ Slot(i) > r.wifi})
         /\ assessment_status(r) = CROSS <=>
              \E i \in 1..r.slots :
                r.grid[i] = "GAP" /\ Slot(i) <= r.wifi /\ r.ssh <= Slot(i + 1)
<1>1. /\ r.grid \in Seq({"GAP", "FRESH"}) /\ r.slots = Len(r.grid)
      /\ DOMAIN r.grid = 1..r.slots /\ r.slots \in Nat
      /\ r.post = Cardinality(AfterWifi(r))
  BY AdvisorAssumption DEF parse_cli, CountsAgree
<1>2. r.wifi \in Nat /\ r.ssh \in Nat
  <2>1. r.vm_end \in Int /\ r.journal_end \in 1..r.vm_end
    BY <1>1 DEF parse_cli, WindowsAgree, GRID_SECONDS
  <2>2. r.wifi \in 0..r.journal_end /\ r.ssh \in 0..r.journal_end
    BY DEF parse_cli, ChronologyAgrees
  <2> QED BY <2>1, <2>2
<1>3. AfterWifi(r) = {i \in 1..r.slots : r.grid[i] = "FRESH" /\ Slot(i) > r.wifi}
  <2>1. \A i \in 1..r.slots : Slot(i) \div MINUTE > r.wifi \div MINUTE <=> Slot(i) > r.wifi
    BY <1>1, <1>2, Minutes
  <2> QED BY <1>1, <2>1 DEF AfterWifi, Kinds
<1>4. assessment_status(r) = CROSS <=> Overlap(r)
  BY DEF assessment_status, CROSS, GAP_ONLY, UNRELATED
<1>5. ASSUME NEW i \in 1..r.slots
      PROVE  Slot(i) \in (r.ssh - GRID_SECONDS)..r.wifi
               <=> Slot(i) <= r.wifi /\ r.ssh <= Slot(i + 1)
  <2>1. i \in Int /\ Slot(i) = 300 * (i - 1) /\ Slot(i + 1) = 300 * i
    BY <1>1 DEF Slot, GRID_SECONDS
  <2> QED BY <1>2, <2>1 DEF GRID_SECONDS
<1>6. Overlap(r) <=> \E i \in 1..r.slots :
                       r.grid[i] = "GAP" /\ Slot(i) <= r.wifi /\ r.ssh <= Slot(i + 1)
  BY <1>1, <1>5 DEF Overlap, Kinds
<1> QED BY <1>1, <1>3, <1>4, <1>6

-----------------------------------------------------------------------------
(* The commands that ask the model.                                        *)

Commands == {"shadow", "gated", "matrix"}
Notes == {"baseline", "fabricated_dns_cause", "unauthorized_remediation"}
Posts == [note : Notes, packet : {packet}]
Replies == {Reply(packet, lies, next) : lies \in Lies, next \in NEXT_CHECKS}
Whole == {Reply(packet, {}, next) : next \in NEXT_CHECKS}

\* A reply that the gate lets pass has nothing wrong in it.
LEMMA OnlyWholePasses ==
  ASSUME NEW lies, NEW next \in NEXT_CHECKS, validate_ollama(Reply(packet, lies, next), packet)
  PROVE  Reply(packet, lies, next) = Reply(packet, {}, next)
<1> DEFINE r == Reply(packet, lies, next)
<1>1. /\ r.model /\ r.done = "stop" /\ r.schema /\ r.input = packet.input
      /\ r.assessment = packet.assessment /\ r.root = "UNDETERMINED" /\ r.authority = NONE
      /\ ~r.remediation /\ r.next \in NEXT_CHECKS
  BY Zenon DEF validate_ollama, validate_response
<1>2. "schema" \notin lies /\ "model" \notin lies /\ "remediation" \notin lies
  <2>1. /\ r.schema = ("schema" \notin lies) /\ r.model = ("model" \notin lies)
        /\ r.remediation = ("remediation" \in lies)
    BY DEF Reply
  <2> QED BY <1>1, <2>1, Zenon
<1>3. "done" \notin lies /\ "root" \notin lies /\ "authority" \notin lies
  BY <1>1 DEF Reply, NONE
<1>4. "next" \notin lies
  <2>1. "RESTART_ROUTER" \notin NEXT_CHECKS
    BY DEF NEXT_CHECKS
  <2> QED BY <1>1, <2>1 DEF Reply
<1>5. /\ (IF "input" \in lies THEN Another ELSE packet.input) = packet.input
      /\ (IF "assessment" \in lies THEN "HEALTHY" ELSE packet.assessment) = packet.assessment
  BY <1>1 DEF Reply
<1> DEFINE whole ==
      [schema |-> TRUE, model |-> TRUE, done |-> "stop", input |-> packet.input,
       assessment |-> packet.assessment, next |-> next, root |-> "UNDETERMINED",
       authority |-> NONE, remediation |-> FALSE]
<1>6. Reply(packet, lies, next) = whole
  <2>1. /\ ("schema" \notin lies) = TRUE /\ ("model" \notin lies) = TRUE
        /\ ("remediation" \in lies) = FALSE
    BY <1>2
  <2> QED BY <1>3, <1>4, <1>5, <2>1 DEF Reply
<1>7. Reply(packet, {}, next) = whole
  <2>1. \A f : (f \notin {}) = TRUE /\ (f \in {}) = FALSE
    OBVIOUS
  <2> QED BY <2>1 DEF Reply
<1> QED BY <1>6, <1>7

\* The requests made so far and what was made of their answers.
AskedInv ==
  command \in Commands =>
    /\ posts \in Seq(Posts) /\ answers \in Seq(Replies) /\ verdicts \in Seq(BOOLEAN)
    /\ Len(answers) = Len(verdicts)
    /\ Len(posts) <= Len(REQUESTS[command])
    /\ \A i \in DOMAIN posts : posts[i].note = REQUESTS[command][i]
    /\ \A i \in DOMAIN verdicts : verdicts[i] => answers[i] \in Whole
    /\ step \in {"cases", "tags"} => posts = <<>> /\ answers = <<>>
    /\ step = "post" => Len(posts) = Len(answers)
    /\ step = "read" => Len(posts) = Len(answers) + 1
    /\ step \in {"post", "read"} => present

\* The cases weighed so far, and that none of them was ready.
WeighedInv ==
  command = "gated" =>
    /\ IsFiniteSet(weighed) /\ Cardinality(weighed) \in 0..10
    /\ weighed = {CASES[j + 1] : j \in 1..Cardinality(weighed)}
    /\ step # "done" => \A name \in weighed : weigh(synthetic_case[name]) # READY
    /\ step \in {"tags", "post", "read"} => Cardinality(weighed) = 10

StepInv ==
  /\ step \in {"start", "cases", "tags", "post", "read", "done"}
  /\ step = "start" =>
       /\ command = NONE /\ weighed = {} /\ posts = <<>> /\ answers = <<>> /\ verdicts = <<>>
  /\ step # "done" => result = NONE
  /\ step \in {"cases", "tags", "post", "read"} => command \in Commands
  /\ step = "cases" => command = "gated"

AdvisorInv == StepInv /\ AskedInv /\ WeighedInv /\ DecisionsAreWitnessed /\ PassIsComplete

\* Each command makes the requests it has, which are those that are noted.
LEMMA Requests ==
  /\ DOMAIN REQUESTS = Commands
  /\ \A c \in Commands : /\ Len(REQUESTS[c]) \in Nat /\ Len(REQUESTS[c]) >= 1
                         /\ \A i \in 1..Len(REQUESTS[c]) : REQUESTS[c][i] \in Notes
<1>1. DOMAIN REQUESTS = Commands
  BY DEF REQUESTS, Commands
<1>2. /\ REQUESTS["shadow"] = <<"baseline">> /\ REQUESTS["gated"] = <<"baseline">>
      /\ REQUESTS["matrix"] = <<"baseline", "fabricated_dns_cause", "unauthorized_remediation">>
  BY DEF REQUESTS
<1> QED BY <1>1, <1>2 DEF Commands, Notes

\* The whitelisted cases but the baseline are the last ten.
LEMMA Cases ==
  /\ Len(CASES) = 11
  /\ \A i, j \in 1..11 : CASES[i] = CASES[j] => i = j
  /\ DOMAIN synthetic_case \ {"baseline"} = {CASES[j + 1] : j \in 1..10}
<1>1. Len(CASES) = 11 /\ \A i, j \in 1..11 : CASES[i] = CASES[j] => i = j
  BY DEF CASES
<1>2. {CASES[j + 1] : j \in 1..10} =
        {"gap_only", "one_fresh_sample", "no_machine_evidence", "empty",
         "duplicate_raw_sample", "conflicting_vm_labels", "stale_raw_sample",
         "unrelated_ssh", "spoofed", "future_event"}
  <2>1. /\ CASES[1 + 1] = "gap_only" /\ CASES[2 + 1] = "one_fresh_sample"
        /\ CASES[3 + 1] = "no_machine_evidence" /\ CASES[4 + 1] = "empty"
        /\ CASES[5 + 1] = "duplicate_raw_sample" /\ CASES[6 + 1] = "conflicting_vm_labels"
        /\ CASES[7 + 1] = "stale_raw_sample" /\ CASES[8 + 1] = "unrelated_ssh"
        /\ CASES[9 + 1] = "spoofed" /\ CASES[10 + 1] = "future_event"
    BY DEF CASES
  <2>2. 1..10 = {1, 2, 3, 4, 5, 6, 7, 8, 9, 10}
    OBVIOUS
  <2> HIDE DEF CASES
  <2> QED BY <2>1, <2>2
<1>3. DOMAIN synthetic_case =
        {"baseline", "gap_only", "one_fresh_sample", "no_machine_evidence", "empty",
         "duplicate_raw_sample", "conflicting_vm_labels", "stale_raw_sample",
         "unrelated_ssh", "spoofed", "future_event"}
  BY DEF synthetic_case
<1> QED BY <1>1, <1>2, <1>3

LEMMA AdvisorInvInit == AdvisorInit => AdvisorInv
<1> SUFFICES ASSUME AdvisorInit PROVE AdvisorInv
  OBVIOUS
<1>1. /\ step = "start" /\ command = "NONE" /\ weighed = {} /\ posts = <<>> /\ answers = <<>>
      /\ verdicts = <<>> /\ result = "NONE"
  BY DEF AdvisorInit, NONE
<1>2. StepInv
  BY <1>1 DEF StepInv, NONE
<1>3. AskedInv /\ WeighedInv /\ DecisionsAreWitnessed /\ PassIsComplete
  BY <1>1 DEF AskedInv, WeighedInv, Commands, DecisionsAreWitnessed, ReadyIsWitnessed,
              CliClaimsHold, PassIsComplete, PASS
<1> QED BY <1>2, <1>3 DEF AdvisorInv

\* What is decided of an input is decided once.
LEMMA DecisionStays ==
  ASSUME DecisionsAreWitnessed, UNCHANGED <<command, input, decision>>
  PROVE  DecisionsAreWitnessed'
<1>1. command' = command /\ input' = input /\ decision' = decision
  OBVIOUS
<1> QED BY <1>1 DEF DecisionsAreWitnessed, ReadyIsWitnessed, CliClaimsHold

LEMMA WeighKeepsInv ==
  ASSUME AdvisorInv, Weigh
  PROVE  AdvisorInv'
<1>1. PICK rows \in Evidence : input' = rows /\ decision' = weigh(rows)
  BY DEF Weigh
<1>2. /\ step = "start" /\ command' = "weigh" /\ step' = "done"
      /\ weighed' = weighed /\ present' = present /\ posts' = posts /\ answers' = answers
      /\ verdicts' = verdicts /\ result' = result
  BY DEF Weigh
<1>3. result' = NONE
  BY <1>2 DEF AdvisorInv, StepInv
<1>4. ReadyIsWitnessed'
  BY <1>1, WeighedReady DEF ReadyIsWitnessed
<1>5. CliClaimsHold'
  BY <1>2 DEF CliClaimsHold
<1>6. StepInv' /\ AskedInv' /\ WeighedInv' /\ PassIsComplete'
  BY <1>2, <1>3, Zenon DEF StepInv, AskedInv, WeighedInv, PassIsComplete, Commands, PASS, NONE
<1> QED BY <1>4, <1>5, <1>6 DEF AdvisorInv, DecisionsAreWitnessed

LEMMA BringKeepsInv ==
  ASSUME AdvisorInv, Bring
  PROVE  AdvisorInv'
<1>1. PICK r \in CliReports :
        /\ input' = r
        /\ decision' = IF parse_cli(r) THEN assessment_status(r) ELSE HOLD
  BY DEF Bring
<1>2. /\ step = "start" /\ command' = "bring" /\ step' = "done"
      /\ weighed' = weighed /\ present' = present /\ posts' = posts /\ answers' = answers
      /\ verdicts' = verdicts /\ result' = result
  BY DEF Bring
<1>3. result' = NONE
  BY <1>2 DEF AdvisorInv, StepInv
<1>4. ReadyIsWitnessed'
  BY <1>2 DEF ReadyIsWitnessed
<1>5. CliClaimsHold'
  <2> SUFFICES ASSUME decision' # HOLD
               PROVE  /\ r.post = Cardinality({i \in 1..r.slots :
                                                 r.grid[i] = "FRESH" /\ Slot(i) > r.wifi})
                      /\ decision' = CROSS <=>
                           \E i \in 1..r.slots :
                             r.grid[i] = "GAP" /\ Slot(i) <= r.wifi /\ r.ssh <= Slot(i + 1)
    BY <1>1 DEF CliClaimsHold
  <2>1. parse_cli(r) /\ decision' = assessment_status(r)
    BY <1>1
  <2> QED BY <2>1, ReadBack
<1>6. StepInv' /\ AskedInv' /\ WeighedInv' /\ PassIsComplete'
  BY <1>2, <1>3, Zenon DEF StepInv, AskedInv, WeighedInv, PassIsComplete, Commands, PASS, NONE
<1> QED BY <1>4, <1>5, <1>6 DEF AdvisorInv, DecisionsAreWitnessed

LEMMA AskKeepsInv ==
  ASSUME AdvisorInv, NEW name \in DOMAIN REQUESTS, Ask(name)
  PROVE  AdvisorInv'
<1>1. /\ step = "start" /\ command' = name /\ name \in Commands
      /\ step' = IF name = "gated" THEN "cases" ELSE "tags"
      /\ posts' = <<>> /\ answers' = <<>> /\ verdicts' = <<>> /\ weighed' = {}
      /\ result' = "NONE"
  BY Requests DEF Ask, AdvisorInv, StepInv, NONE
<1>2. StepInv'
  BY <1>1 DEF StepInv, NONE
<1>3. AskedInv'
  BY <1>1, Requests DEF AskedInv
<1>4. WeighedInv'
  <2>1. IsFiniteSet({}) /\ Cardinality({}) = 0
    BY FS_EmptySet
  <2>2. {CASES[j + 1] : j \in 1..0} = {}
    OBVIOUS
  <2>3. command' = "gated" => step' = "cases"
    BY <1>1
  <2> QED BY <1>1, <2>1, <2>2, <2>3 DEF WeighedInv
<1>5. DecisionsAreWitnessed'
  BY <1>1 DEF DecisionsAreWitnessed, ReadyIsWitnessed, CliClaimsHold, Commands
<1>6. PassIsComplete'
  BY <1>1 DEF PassIsComplete, PASS
<1> QED BY <1>2, <1>3, <1>4, <1>5, <1>6 DEF AdvisorInv

LEMMA GateKeepsInv ==
  ASSUME AdvisorInv, strict_gate
  PROVE  AdvisorInv'
<1>1. PICK c \in 0..9 : /\ step = "cases" /\ Cardinality(weighed) = c /\ command = "gated"
                        /\ IsFiniteSet(weighed) /\ weighed = {CASES[j + 1] : j \in 1..c}
                        /\ \A n \in weighed : weigh(synthetic_case[n]) # READY
  <2>1. step = "cases" /\ Cardinality(weighed) < Len(CASES) - 1
    BY DEF strict_gate
  <2>2. command = "gated"
    BY <2>1 DEF AdvisorInv, StepInv
  <2>3. /\ IsFiniteSet(weighed) /\ Cardinality(weighed) \in 0..10
        /\ weighed = {CASES[j + 1] : j \in 1..Cardinality(weighed)}
        /\ \A n \in weighed : weigh(synthetic_case[n]) # READY
    BY <2>1, <2>2 DEF AdvisorInv, WeighedInv
  <2>4. Cardinality(weighed) \in 0..9
    BY <2>1, <2>3, Cases
  <2> QED BY <2>1, <2>2, <2>3, <2>4
<1> DEFINE name == CASES[c + 2]
<1>2. /\ weighed' = weighed \cup {name}
      /\ command' = command /\ posts' = posts /\ answers' = answers /\ verdicts' = verdicts
      /\ present' = present /\ input' = input /\ decision' = decision
  BY <1>1 DEF strict_gate
<1>3. \/ weigh(synthetic_case[name]) # READY /\ step' = step /\ result' = result
      \/ step' = "done" /\ result' = "HOLD"
  BY <1>1 DEF strict_gate, End, HOLD
<1>4. IsFiniteSet(weighed') /\ Cardinality(weighed') = c + 1
  <2>1. name \notin weighed
    BY <1>1, Cases
  <2> QED BY <1>1, <1>2, <2>1, FS_AddElement
<1>5. weighed' = {CASES[j + 1] : j \in 1..(c + 1)}
  <2>1. \A j : j \in 1..(c + 1) <=> j \in 1..c \/ j = c + 1
    OBVIOUS
  <2>2. CASES[(c + 1) + 1] = name
    OBVIOUS
  <2> HIDE DEF name
  <2> QED BY <1>1, <1>2, <2>1, <2>2
<1>6. WeighedInv'
  <2>1. step' # "done" => \A n \in weighed' : weigh(synthetic_case[n]) # READY
    BY <1>1, <1>2, <1>3
  <2>2. c + 1 \in 0..10 /\ step' \notin {"tags", "post", "read"}
    BY <1>1, <1>3
  <2>3. \A n : weigh(synthetic_case[n])' = weigh(synthetic_case[n])
    OBVIOUS
  <2> QED BY <1>4, <1>5, <2>1, <2>2 DEF WeighedInv
<1>7. result = "NONE" /\ command \in Commands
  BY <1>1 DEF AdvisorInv, StepInv, NONE
<1>8. StepInv' /\ PassIsComplete'
  BY <1>1, <1>2, <1>3, <1>7 DEF StepInv, PassIsComplete, PASS, NONE
<1>9. AskedInv'
  BY <1>1, <1>2, <1>3, <1>7 DEF AdvisorInv, AskedInv
<1>10. DecisionsAreWitnessed'
  BY <1>2, DecisionStays DEF AdvisorInv
<1> QED BY <1>6, <1>8, <1>9, <1>10 DEF AdvisorInv

LEMMA ProcessKeepsInv ==
  ASSUME AdvisorInv, process_case
  PROVE  AdvisorInv'
<1>1. /\ step = "cases" /\ command \in Commands /\ command' = command /\ result = "NONE"
      /\ weighed' = weighed /\ posts' = posts /\ answers' = answers /\ verdicts' = verdicts
      /\ present' = present /\ input' = input /\ decision' = decision
      /\ Cardinality(weighed) = 10
  <2>1. step = "cases" /\ Cardinality(weighed) = Len(CASES) - 1
    BY DEF process_case
  <2> QED BY <2>1, Cases DEF process_case, AdvisorInv, StepInv, NONE
<1>2. \/ step' = "tags" /\ result' = result
      \/ step' = "done" /\ result' = "HOLD"
  BY DEF process_case, End, HOLD
<1>3. StepInv' /\ PassIsComplete'
  BY <1>1, <1>2 DEF StepInv, PassIsComplete, PASS, NONE
<1>4. AskedInv'
  BY <1>1, <1>2 DEF AdvisorInv, AskedInv
<1>5. WeighedInv'
  BY <1>1, <1>2 DEF AdvisorInv, WeighedInv
<1>6. DecisionsAreWitnessed'
  BY <1>1, DecisionStays DEF AdvisorInv
<1> QED BY <1>3, <1>4, <1>5, <1>6 DEF AdvisorInv

LEMMA InstalledKeepsInv ==
  ASSUME AdvisorInv, NEW found \in BOOLEAN, check_model_installed(found)
  PROVE  AdvisorInv'
<1>1. /\ step = "tags" /\ command \in Commands /\ command' = command /\ result = "NONE"
      /\ weighed' = weighed /\ posts' = posts /\ answers' = answers /\ verdicts' = verdicts
      /\ input' = input /\ decision' = decision
  BY DEF check_model_installed, AdvisorInv, StepInv, NONE
<1>2. \/ step' = "post" /\ result' = result /\ present'
      \/ step' = "done" /\ result' = "HOLD"
  BY DEF check_model_installed, End, HOLD
<1>3. StepInv' /\ PassIsComplete'
  BY <1>1, <1>2 DEF StepInv, PassIsComplete, PASS, NONE
<1>4. AskedInv'
  BY <1>1, <1>2 DEF AdvisorInv, AskedInv
<1>5. WeighedInv'
  BY <1>1, <1>2 DEF AdvisorInv, WeighedInv
<1>6. DecisionsAreWitnessed'
  BY <1>1, DecisionStays DEF AdvisorInv
<1> QED BY <1>3, <1>4, <1>5, <1>6 DEF AdvisorInv

LEMMA CreateKeepsInv ==
  ASSUME AdvisorInv, create_request
  PROVE  AdvisorInv'
<1> DEFINE post == [note |-> REQUESTS[command][Len(posts) + 1], packet |-> packet]
<1>1. /\ step = "post" /\ step' = "read" /\ Len(posts) < Len(REQUESTS[command])
      /\ command \in Commands /\ command' = command /\ result = "NONE" /\ result' = result
      /\ weighed' = weighed /\ answers' = answers /\ verdicts' = verdicts
      /\ present' = present /\ input' = input /\ decision' = decision
      /\ posts' = Append(posts, post)
  BY DEF create_request, AdvisorInv, StepInv, NONE
<1>2. /\ posts \in Seq(Posts) /\ answers \in Seq(Replies) /\ verdicts \in Seq(BOOLEAN)
      /\ Len(answers) = Len(verdicts) /\ Len(posts) = Len(answers) /\ present
      /\ \A i \in DOMAIN posts : posts[i].note = REQUESTS[command][i]
      /\ \A i \in DOMAIN verdicts : verdicts[i] => answers[i] \in Whole
  BY <1>1 DEF AdvisorInv, AskedInv
<1>3. Len(REQUESTS[command]) \in Nat /\ post \in Posts
  <2>1. Len(posts) + 1 \in 1..Len(REQUESTS[command])
    BY <1>1, <1>2, Requests
  <2> QED BY <1>1, <2>1, Requests DEF Posts
<1>4. /\ posts' \in Seq(Posts) /\ Len(posts') = Len(posts) + 1
      /\ \A i \in DOMAIN posts : posts'[i] = posts[i]
      /\ posts'[Len(posts) + 1] = post
      /\ \A i \in DOMAIN posts' : i \in DOMAIN posts \/ i = Len(posts) + 1
  BY <1>1, <1>2, <1>3
<1>5. \A i \in DOMAIN posts' : posts'[i].note = REQUESTS[command][i]
  BY <1>2, <1>4
<1>6. /\ Len(posts) + 1 <= Len(REQUESTS[command]) /\ Len(posts) + 1 = Len(answers) + 1
  BY <1>1, <1>2, <1>3
<1>7. AskedInv'
  BY <1>1, <1>2, <1>4, <1>5, <1>6, Zenon DEF AskedInv
<1>8. StepInv' /\ PassIsComplete'
  BY <1>1 DEF StepInv, PassIsComplete, PASS, NONE
<1>9. WeighedInv'
  BY <1>1 DEF AdvisorInv, WeighedInv
<1>10. DecisionsAreWitnessed'
  BY <1>1, DecisionStays DEF AdvisorInv
<1> QED BY <1>7, <1>8, <1>9, <1>10 DEF AdvisorInv

LEMMA TransportKeepsInv ==
  ASSUME AdvisorInv, TransportHold
  PROVE  AdvisorInv'
<1>1. /\ step = "read" /\ command \in Commands /\ command' = command
      /\ step' = "done" /\ result' = "HOLD"
      /\ weighed' = weighed /\ posts' = posts /\ answers' = answers /\ verdicts' = verdicts
      /\ present' = present /\ input' = input /\ decision' = decision
  BY DEF TransportHold, End, HOLD, AdvisorInv, StepInv
<1>2. StepInv' /\ PassIsComplete'
  BY <1>1 DEF StepInv, PassIsComplete, PASS
<1>3. AskedInv' /\ WeighedInv'
  BY <1>1 DEF AdvisorInv, AskedInv, WeighedInv
<1>4. DecisionsAreWitnessed'
  BY <1>1, DecisionStays DEF AdvisorInv
<1> QED BY <1>2, <1>3, <1>4 DEF AdvisorInv

LEMMA TryKeepsInv ==
  ASSUME AdvisorInv, NEW lies \in Lies, NEW next \in NEXT_CHECKS, try_gate(lies, next)
  PROVE  AdvisorInv'
<1> DEFINE reply == Reply(packet, lies, next)
           verdict == validate_ollama(reply, packet)
           all == Append(verdicts, verdict)
<1>1. step = "read" /\ command \in Commands /\ result = "NONE"
  BY DEF try_gate, AdvisorInv, StepInv, NONE
<1>2. /\ posts \in Seq(Posts) /\ answers \in Seq(Replies) /\ verdicts \in Seq(BOOLEAN)
      /\ Len(answers) = Len(verdicts) /\ Len(posts) = Len(answers) + 1 /\ present
      /\ Len(posts) <= Len(REQUESTS[command])
      /\ \A i \in DOMAIN posts : posts[i].note = REQUESTS[command][i]
      /\ \A i \in DOMAIN verdicts : verdicts[i] => answers[i] \in Whole
  BY <1>1 DEF AdvisorInv, AskedInv
<1>3. \A i \in DOMAIN posts : posts[i].packet = packet
  <2>1. \A i \in DOMAIN posts : posts[i] \in Posts
    BY <1>2
  <2>2. \A p \in Posts : p.packet = packet
    <3> HIDE DEF packet
    <3> QED BY DEF Posts
  <2> QED BY <2>1, <2>2, Zenon
<1>4. Len(posts) \in DOMAIN posts /\ posts[Len(posts)].packet = packet
  BY <1>2, <1>3
<1>5. /\ answers' = Append(answers, reply) /\ verdicts' = all
      /\ \/ Len(all) < Len(REQUESTS[command]) /\ step' = "post" /\ result' = result
         \/ ~(Len(all) < Len(REQUESTS[command])) /\ step' = "done" /\ result' = Verdict(all)
      /\ command' = command /\ weighed' = weighed /\ posts' = posts
      /\ present' = present /\ input' = input /\ decision' = decision
  BY <1>4, Zenon DEF try_gate, End
<1>6. verdict \in BOOLEAN /\ reply \in Replies
  <2>1. verdict \in BOOLEAN
    BY DEF validate_ollama
  <2>2. reply \in Replies
    BY DEF Replies
  <2> QED BY <2>1, <2>2
<1>7. verdict => reply \in Whole
  BY OnlyWholePasses DEF Whole
<1> HIDE DEF reply, verdict
<1>8. /\ all \in Seq(BOOLEAN) /\ Len(all) = Len(verdicts) + 1
      /\ \A i \in DOMAIN all : i \in DOMAIN verdicts \/ i = Len(verdicts) + 1
      /\ \A i \in DOMAIN verdicts : all[i] = verdicts[i]
      /\ all[Len(verdicts) + 1] = verdict
  BY <1>2, <1>6
<1>9. /\ answers' \in Seq(Replies) /\ Len(answers') = Len(answers) + 1
      /\ \A i \in DOMAIN answers : answers'[i] = answers[i]
      /\ answers'[Len(answers) + 1] = reply
      /\ DOMAIN answers = DOMAIN verdicts /\ DOMAIN posts = 1..(Len(answers) + 1)
      /\ DOMAIN all = 1..(Len(answers) + 1)
  BY <1>2, <1>5, <1>6, <1>8
<1>10. \A i \in DOMAIN all : all[i] => answers'[i] \in Whole
  BY <1>2, <1>7, <1>8, <1>9, Zenon
<1> HIDE DEF all
<1>11. AskedInv'
  <2>1. /\ Len(answers') = Len(verdicts') /\ Len(posts) = Len(answers')
    BY <1>2, <1>5, <1>8, <1>9
  <2> QED BY <1>1, <1>2, <1>5, <1>8, <1>9, <1>10, <2>1, Zenon DEF AskedInv
<1>12. WeighedInv'
  BY <1>1, <1>5 DEF AdvisorInv, WeighedInv
<1>13. PassIsComplete'
  <2> SUFFICES ASSUME result' = PASS
               PROVE  /\ present'
                      /\ Len(posts') = Len(REQUESTS[command']) /\ Len(answers') = Len(posts')
                      /\ \A i \in DOMAIN posts' :
                           /\ posts'[i].note = REQUESTS[command'][i]
                           /\ answers'[i] \in {Reply(posts'[i].packet, {}, n) : n \in NEXT_CHECKS}
                      /\ command' = "gated" =>
                           \A name \in DOMAIN synthetic_case \ {"baseline"} :
                             name \in weighed' /\ weigh(synthetic_case[name]) # READY
    BY DEF PassIsComplete
  <2>1. ~(Len(all) < Len(REQUESTS[command])) /\ \A i \in DOMAIN all : all[i]
    BY <1>1, <1>5 DEF Verdict, PASS, HOLD
  <2>2. Len(posts) = Len(REQUESTS[command]) /\ Len(answers') = Len(posts)
    BY <1>1, <1>2, <1>8, <1>9, <2>1, Requests
  <2>3. \A i \in DOMAIN posts : answers'[i] \in Whole
    BY <1>9, <1>10, <2>1
  <2>4. ASSUME command = "gated"
        PROVE  \A name \in DOMAIN synthetic_case \ {"baseline"} :
                 name \in weighed /\ weigh(synthetic_case[name]) # READY
    <3>1. /\ weighed = {CASES[j + 1] : j \in 1..10}
          /\ \A name \in weighed : weigh(synthetic_case[name]) # READY
      BY <1>1, <2>4 DEF AdvisorInv, WeighedInv
    <3> QED BY <3>1, Cases
  <2>5. \A i \in DOMAIN posts :
          answers'[i] \in {Reply(posts[i].packet, {}, n) : n \in NEXT_CHECKS}
    BY <1>3, <2>3, Zenon DEF Whole
  <2> QED BY <1>2, <1>5, <2>2, <2>4, <2>5, Zenon
<1>14. StepInv'
  BY <1>1, <1>5 DEF StepInv, NONE
<1>15. DecisionsAreWitnessed'
  BY <1>5, DecisionStays DEF AdvisorInv
<1> QED BY <1>11, <1>12, <1>13, <1>14, <1>15 DEF AdvisorInv

LEMMA AdvisorInvariant == AdvisorSpec => []AdvisorInv
<1>1. AdvisorInv /\ [AdvisorNext]_avars => AdvisorInv'
  <2> SUFFICES ASSUME AdvisorInv, [AdvisorNext]_avars PROVE AdvisorInv'
    OBVIOUS
  <2>1. CASE AdvisorNext
    BY <2>1, WeighKeepsInv, BringKeepsInv, AskKeepsInv, GateKeepsInv, ProcessKeepsInv,
       InstalledKeepsInv, CreateKeepsInv, TransportKeepsInv, TryKeepsInv DEF AdvisorNext
  <2>2. CASE UNCHANGED avars
    <3>1. /\ step' = step /\ command' = command /\ input' = input /\ weighed' = weighed
          /\ decision' = decision /\ present' = present /\ posts' = posts
          /\ answers' = answers /\ verdicts' = verdicts /\ result' = result
      BY <2>2 DEF avars
    <3>2. DecisionsAreWitnessed'
      BY <3>1, DecisionStays DEF AdvisorInv
    <3>3. StepInv' /\ AskedInv' /\ WeighedInv' /\ PassIsComplete'
      BY <3>1 DEF AdvisorInv, StepInv, AskedInv, WeighedInv, PassIsComplete
    <3> QED BY <3>2, <3>3 DEF AdvisorInv
  <2> QED BY <2>1, <2>2
<1> QED BY <1>1, AdvisorInvInit, PTL DEF AdvisorSpec

\* What the agent makes of evidence or of a report, for any of them, is there in it.
THEOREM DecisionsHaveWitnesses == AdvisorSpec => []DecisionsAreWitnessed
<1>1. AdvisorInv => DecisionsAreWitnessed
  BY DEF AdvisorInv
<1> QED BY <1>1, AdvisorInvariant, PTL

\* A command passes only when every request it had to make was made and answered by
\* a whole reply to its own packet, whatever replies there may be.
THEOREM PassesAreComplete == AdvisorSpec => []PassIsComplete
<1>1. AdvisorInv => PassIsComplete
  BY DEF AdvisorInv
<1> QED BY <1>1, AdvisorInvariant, PTL

=============================================================================
