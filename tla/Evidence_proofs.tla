--------------------------- MODULE Evidence_proofs ---------------------------
(***************************************************************************)
(* The live status for any targets, limits and scrapes: what a reader      *)
(* claims is as recent as its limits say, and two observations that it     *)
(* calls distinct are of samples of different times.  The invariant says   *)
(* of every source that its samples are in order and far enough apart, and *)
(* of every answer a reader has, which sample it may be of.                *)
(*                                                                         *)
(* The event model for any rows and any history: what it claims happened,  *)
(* its bounds hold, and a verified archive leaves out nothing the counter  *)
(* could see.  The invariant gives every row its place among the switches  *)
(* of the router; what the loop holds after each row follows from it by a  *)
(* least counterexample, there being no induction.                         *)
(***************************************************************************)
EXTENDS LiveReads, DnsEvents, FiniteSetTheorems, TLAPS

Sample == [at : Nat, collected : Int, shows : {"UP", "DOWN", "LOCAL", "BOOTSTRAP", "INVALID"}]

\* The samples of a source are in order, far enough apart, and none is of the future.
SeriesInv ==
  /\ clock \in Nat \ {0}
  /\ series \in [Targets -> Seq(Sample)]
  /\ \A t \in Sources : \A i \in DOMAIN series[t] :
       /\ series[t][i].at <= clock
       /\ Scrapes => series[t][i].collected = series[t][i].at
       /\ \A j \in DOMAIN series[t] : i < j =>
            /\ series[t][j].at - series[t][i].at > Apart
            /\ series[t][i].collected < series[t][j].collected

\* A report, of a projection or of an observation.
Statuses == {"UNKNOWN", "STALE", "OK", "DOWN", "DEGRADED", "LOCAL", "BOOTSTRAP"}
AnyReport ==
  [at : Int, classification : Statuses, mode : Statuses, healthy : Int]
    \cup [at : Int, times : [METRICS -> Int],
          classification : {QUALIFIED, INSUFFICIENT, INVALID_STATE},
          mode : {"UNVERIFIED", "LOCAL", "BOOTSTRAP"}]

\* A read is over within a step of the clock.
ReadInv ==
  /\ run \in [reading : BOOLEAN, start : Nat, values : Seq(Int)]
  /\ run.reading =>
       run.start <= clock /\ clock <= run.start + 1 /\ Len(run.values) <= Len(QUERIES)

\* Each answer of a reader of one source is of a sample that is not older than the
\* one before: d says of which.
Answered(d) ==
  /\ d \in [1..Len(run.values) -> 0..Len(series[One])]
  /\ \A i \in DOMAIN d :
       /\ run.values[i] # Missing =>
            d[i] >= 1 /\ run.values[i] = Metric(QUERIES[i], series[One][d[i]])
       /\ d[i] >= 1 => series[One][d[i]].at <= Moment
       /\ \A k \in DOMAIN d : i <= k => d[i] <= d[k]

SampledInv == run.reading /\ ~Scrapes => \E d \in [1..Len(run.values) -> Nat] : Answered(d)

\* As many targets as were counted healthy were up within the lookback.
HealthyInv ==
  run.reading /\ Scrapes /\ Len(run.values) >= 2 =>
    \E up \in SUBSET Sources :
      /\ run.values[2] = Cardinality(up)
      /\ \A t \in up : Behind(t, "UP", run.start, LOOKBACK)

\* What is known of a report for good.
ReportIsBorneOut(report) ==
  /\ report.mode \in {"LOCAL", "BOOTSTRAP"} => Behind(One, report.mode, report.at, FreshLimit)
  /\ Scrapes => report.healthy \in Nat
  /\ Scrapes /\ report.mode \in {"OK", "DEGRADED"} =>
       Cardinality({t \in Sources : Behind(t, "UP", report.at, FreshLimit)}) >= report.healthy
  /\ kind = "boundary" /\ report.classification = QUALIFIED =>
       /\ \A j, k \in METRICS : report.times[j] = report.times[k]
       /\ \E i \in DOMAIN series[One] :
            series[One][i].shows = report.mode
              /\ series[One][i].at >= report.times["collection"]

ReportsInv ==
  reports \in Seq(AnyReport) /\ \A i \in DOMAIN reports : ReportIsBorneOut(reports[i])

LiveInv ==
  kind \in Kinds /\ SeriesInv /\ ReadInv /\ SampledInv /\ HealthyInv /\ ReportsInv
-----------------------------------------------------------------------------
(* The queries and their answers.                                          *)

\* The order of the natural numbers as a relation.
LEMMA Order == \A i, m \in Nat : <<i, m>> \in OpToRel(<, Nat) <=> i < m
  <1>1. OpToRel(<, Nat) = {ss \in Nat \X Nat : ss[1] < ss[2]}
    BY DEF OpToRel
  <1>2. ASSUME NEW i \in Nat, NEW m \in Nat
        PROVE  <<i, m>> \in {ss \in Nat \X Nat : ss[1] < ss[2]} <=> i < m
    OBVIOUS
  <1> QED
    BY <1>1, <1>2

\* A set of numbers that is not empty has a least one.
LEMMA LeastNumber ==
  ASSUME NEW S, S \subseteq Nat, S # {}
  PROVE  \E m \in S : \A i \in S : m <= i
  <1>1. PICK m \in S : \A i \in S : ~(<<i, m>> \in OpToRel(<, Nat))
    BY WFMin, NatLessThanWellFounded
  <1>2. \A i \in S : ~(i < m) /\ i \in Nat
    BY <1>1, Order
  <1> QED
    BY <1>2

\* Where each reader finds its answers (QUERIES, Got).
LEMMA GuardAnswers ==
  ASSUME kind = "guard"
  PROVE  /\ QUERIES = <<"collection", "valid", "local", "bootstrap">>
         /\ ~Scrapes
         /\ Got("collection") = run.values[1] /\ Got("valid") = run.values[2]
         /\ Got("local") = run.values[3] /\ Got("bootstrap") = run.values[4]
  <1>1. QUERIES = <<"collection", "valid", "local", "bootstrap">>
    BY DEF QUERIES, Queries
  <1>2. /\ (CHOOSE i \in DOMAIN QUERIES : QUERIES[i] = "collection") = 1
        /\ (CHOOSE i \in DOMAIN QUERIES : QUERIES[i] = "valid") = 2
        /\ (CHOOSE i \in DOMAIN QUERIES : QUERIES[i] = "local") = 3
        /\ (CHOOSE i \in DOMAIN QUERIES : QUERIES[i] = "bootstrap") = 4
    BY <1>1
  <1> QED
    BY <1>1, <1>2 DEF Got, Scrapes

LEMMA ScrapesAnswers ==
  ASSUME kind \in Kinds, Scrapes
  PROVE  QUERIES = <<"total", "healthy", "age">> /\ Got("healthy") = run.values[2]
  <1>1. QUERIES = <<"total", "healthy", "age">>
    BY DEF QUERIES, Queries, Scrapes
  <1>2. (CHOOSE i \in DOMAIN QUERIES : QUERIES[i] = "healthy") = 2
    BY <1>1
  <1> QED
    BY <1>1, <1>2 DEF Got

LEMMA BoundaryAnswers ==
  ASSUME kind = "boundary"
  PROVE  /\ QUERIES = <<"collection", "collection_time", "valid", "valid_time",
                        "local", "local_time", "bootstrap", "bootstrap_time">>
         /\ ~Scrapes
         /\ Got("collection") = run.values[1] /\ Got("collection_time") = run.values[2]
         /\ Got("valid") = run.values[3] /\ Got("valid_time") = run.values[4]
         /\ Got("local") = run.values[5] /\ Got("local_time") = run.values[6]
         /\ Got("bootstrap") = run.values[7] /\ Got("bootstrap_time") = run.values[8]
  <1>1. QUERIES = <<"collection", "collection_time", "valid", "valid_time",
                    "local", "local_time", "bootstrap", "bootstrap_time">>
    BY DEF QUERIES, Queries
  <1>2. /\ (CHOOSE i \in DOMAIN QUERIES : QUERIES[i] = "collection") = 1
        /\ (CHOOSE i \in DOMAIN QUERIES : QUERIES[i] = "collection_time") = 2
        /\ (CHOOSE i \in DOMAIN QUERIES : QUERIES[i] = "valid") = 3
        /\ (CHOOSE i \in DOMAIN QUERIES : QUERIES[i] = "valid_time") = 4
    BY <1>1
  <1>3. /\ (CHOOSE i \in DOMAIN QUERIES : QUERIES[i] = "local") = 5
        /\ (CHOOSE i \in DOMAIN QUERIES : QUERIES[i] = "local_time") = 6
        /\ (CHOOSE i \in DOMAIN QUERIES : QUERIES[i] = "bootstrap") = 7
        /\ (CHOOSE i \in DOMAIN QUERIES : QUERIES[i] = "bootstrap_time") = 8
    BY <1>1
  <1> QED
    BY <1>1, <1>2, <1>3 DEF Got, Scrapes

\* What an instant query finds is the newest sample up to its moment, and not older
\* than the lookback.
LEMMA NewestSample ==
  ASSUME SeriesInv, NEW t \in Sources, NEW m \in Nat, NEW s \in At(t, m)
  PROVE  \E k \in DOMAIN series[t] :
           /\ s = series[t][k] /\ s.at <= m /\ m - s.at <= LOOKBACK
           /\ \A j \in DOMAIN series[t] : series[t][j].at <= m => j <= k
  <1> DEFINE seen == {i \in DOMAIN series[t] :
                        series[t][i].at <= m /\ m - series[t][i].at <= LOOKBACK}
  <1>1. t \in Targets
    BY LiveAssumption DEF Sources
  <1>2. /\ LOOKBACK \in Nat /\ DOMAIN series[t] \subseteq Nat
        /\ \A i \in DOMAIN series[t] : series[t][i].at \in Nat
    <2>1. series[t] \in Seq(Sample) /\ LOOKBACK \in Nat
      BY <1>1, LiveAssumption DEF SeriesInv
    <2>2. \A i \in DOMAIN series[t] : series[t][i] \in Sample
      BY <2>1
    <2> QED
      BY <2>1, <2>2 DEF Sample
  <1>3. PICK k \in seen : (\A j \in seen : j <= k) /\ s = series[t][k]
    BY Zenon DEF At
  <1>4. ASSUME NEW j \in DOMAIN series[t], series[t][j].at <= m
        PROVE  j <= k
    <2>1. SUFFICES ASSUME k < j PROVE FALSE
      BY <1>2
    <2>2. series[t][j].at - series[t][k].at > Apart /\ Apart \in Nat
      BY <2>1, ObservationAssumption DEF SeriesInv, Apart
    <2>3. j \in seen
      BY <1>2, <1>4, <2>2
    <2> QED
      BY <1>2, <1>3, <2>1, <2>3
  <1> QED
    BY <1>3, <1>4

-----------------------------------------------------------------------------
(* What stays.                                                             *)

\* No sample is lost or changed.
Grown ==
  \A t \in Targets :
    /\ DOMAIN series[t] \subseteq DOMAIN series'[t]
    /\ \A i \in DOMAIN series[t] : series'[t][i] = series[t][i]

\* What a report rests on is still there when more samples have come.
LEMMA ReportStays ==
  ASSUME Grown, kind \in Kinds, kind' = kind, NEW r, ReportIsBorneOut(r)
  PROVE  ReportIsBorneOut(r)'
  <1>1. Sources \subseteq Targets /\ One \in Targets /\ IsFiniteSet(Targets)
    BY LiveAssumption DEF Sources
  <1>2. Sources' = Sources /\ Scrapes' = Scrapes /\ FreshLimit' = FreshLimit
    BY DEF Sources, Scrapes, FreshLimit
  <1>3. \A t \in Targets : \A what, moment, limit :
          Behind(t, what, moment, limit) =>
            \E i \in DOMAIN series'[t] :
              series'[t][i].shows = what /\ moment - series'[t][i].collected <= limit
    BY DEF Behind, Grown
  <1>4. ASSUME r.mode \in {"LOCAL", "BOOTSTRAP"}
        PROVE  Behind(One, r.mode, r.at, FreshLimit)'
    <2>1. Behind(One, r.mode, r.at, FreshLimit)
      BY <1>4 DEF ReportIsBorneOut
    <2>2. PICK i \in DOMAIN series[One] :
            series[One][i].shows = r.mode /\ r.at - series[One][i].collected <= FreshLimit
      BY <2>1, Zenon DEF Behind
    <2>3. i \in DOMAIN series'[One] /\ series'[One][i] = series[One][i]
      BY <1>1, Zenon DEF Grown
    <2> QED
      BY <1>2, <2>2, <2>3, Zenon DEF Behind
  <1>5. ASSUME Scrapes, r.mode \in {"OK", "DEGRADED"}
        PROVE  Cardinality({t \in Sources : Behind(t, "UP", r.at, FreshLimit)})' >= r.healthy
    <2> DEFINE before == {t \in Sources : Behind(t, "UP", r.at, FreshLimit)}
               after == {t \in Sources : Behind(t, "UP", r.at, FreshLimit)}'
    <2>1. before \subseteq after
      BY <1>1, <1>2, <1>3 DEF Behind
    <2>2. after \subseteq Targets
      BY <1>1, <1>2
    <2>3. IsFiniteSet(after)
      BY <1>1, <2>2, FS_Subset
    <2>4. Cardinality(before) <= Cardinality(after)
          /\ Cardinality(before) \in Nat /\ Cardinality(after) \in Nat
      BY <2>1, <2>3, FS_Subset, FS_CardinalityType
    <2>5. Cardinality(before) >= r.healthy
      BY <1>5 DEF ReportIsBorneOut
    <2>6. r.healthy \in Nat
      BY <1>5 DEF ReportIsBorneOut
    <2> HIDE DEF before, after
    <2>7. Cardinality(after) >= r.healthy
      BY <2>4, <2>5, <2>6
    <2> QED
      BY <2>7 DEF after
  <1>6. ASSUME kind = "boundary", r.classification = QUALIFIED
        PROVE  /\ \A j, k \in METRICS : r.times[j] = r.times[k]
               /\ \E i \in DOMAIN series'[One] :
                    series'[One][i].shows = r.mode
                      /\ series'[One][i].at >= r.times["collection"]
    BY <1>1, <1>6 DEF ReportIsBorneOut, Grown
  <1>7. Scrapes => r.healthy \in Nat
    BY DEF ReportIsBorneOut
  <1> QED
    BY <1>2, <1>4, <1>5, <1>6, <1>7 DEF ReportIsBorneOut

-----------------------------------------------------------------------------
(* Every step keeps the invariant.                                         *)

\* A new sample is the newest of its source, far enough from the one before.
LEMMA IngestKeepsSeries ==
  ASSUME LiveInv, NEW source \in Sources, Ingest(source)
  PROVE  SeriesInv' /\ Grown /\ UNCHANGED <<clock, kind, run, reports>>
  <1> DEFINE old == series[source]
  <1>1. /\ clock \in Nat \ {0} /\ series \in [Targets -> Seq(Sample)] /\ kind \in Kinds
        /\ source \in Targets /\ Sources \subseteq Targets /\ Apart \in Nat
    BY LiveAssumption, ObservationAssumption DEF LiveInv, SeriesInv, Sources, Apart
  <1>2. PICK what \in Shows, late \in (IF Scrapes THEN {0} ELSE 0..1) :
          LET new == [at |-> clock, collected |-> clock - late, shows |-> what] IN
          /\ \A i \in 1..Len(old) : new.at - old[i].at > Apart /\ old[i].collected < new.collected
          /\ series' = [series EXCEPT ![source] = Append(old, new)]
    BY Zenon DEF Ingest
  <1> DEFINE new == [at |-> clock, collected |-> clock - late, shows |-> what]
             n == Len(old)
  <1>3. late \in 0..1 /\ (Scrapes => late = 0)
    BY <1>2
  <1>4. what \in {"UP", "DOWN", "LOCAL", "BOOTSTRAP", "INVALID"}
    BY <1>2 DEF Shows
  <1>5. /\ new \in Sample /\ new.at = clock /\ new.shows = what
        /\ Scrapes => new.collected = new.at
    BY <1>1, <1>3, <1>4 DEF Sample
  <1>6. /\ series' = [series EXCEPT ![source] = Append(old, new)]
        /\ \A i \in 1..n : new.at - old[i].at > Apart /\ old[i].collected < new.collected
    BY <1>2
  <1>7. UNCHANGED <<clock, kind, run, reports>>
    BY DEF Ingest
  <1>8. old \in Seq(Sample) /\ n \in Nat /\ DOMAIN old = 1..n
    BY <1>1
  <1> HIDE DEF new, old, n
  <1>9. /\ series' \in [Targets -> Seq(Sample)]
        /\ series'[source] = Append(old, new)
        /\ \A t \in Targets : t # source => series'[t] = series[t]
    BY <1>1, <1>5, <1>6, <1>8
  <1>10. /\ DOMAIN Append(old, new) = 1..(n + 1)
         /\ \A i \in 1..n : Append(old, new)[i] = old[i]
         /\ Append(old, new)[n + 1] = new
    BY <1>5, <1>8 DEF n
  <1>11. \A t \in Targets :
           /\ DOMAIN series[t] \subseteq DOMAIN series'[t]
           /\ \A i \in DOMAIN series[t] : series'[t][i] = series[t][i]
    <2> SUFFICES ASSUME NEW t \in Targets
                 PROVE  /\ DOMAIN series[t] \subseteq DOMAIN series'[t]
                        /\ \A i \in DOMAIN series[t] : series'[t][i] = series[t][i]
      OBVIOUS
    <2>1. CASE t = source
      <3>1. 1..n \subseteq 1..(n + 1)
        BY <1>8
      <3>2. series[t] = old
        BY <2>1 DEF old
      <3> QED
        BY <1>8, <1>9, <1>10, <2>1, <3>1, <3>2, Zenon
    <2>2. CASE t # source
      BY <1>9, <2>2, Zenon
    <2> QED
      BY <2>1, <2>2
  <1>12. Sources' = Sources /\ Scrapes' = Scrapes /\ Apart' = Apart
    BY <1>7 DEF Sources, Scrapes, Apart
  <1>13. ASSUME NEW t \in Sources
         PROVE  \A i \in DOMAIN series'[t] :
                  /\ series'[t][i].at <= clock
                  /\ Scrapes => series'[t][i].collected = series'[t][i].at
                  /\ \A j \in DOMAIN series'[t] : i < j =>
                       /\ series'[t][j].at - series'[t][i].at > Apart
                       /\ series'[t][i].collected < series'[t][j].collected
    <2>1. CASE t # source
      <3>1. series'[t] = series[t]
        BY <1>1, <1>9, <1>13, <2>1
      <3> QED
        BY <1>13, <3>1, Zenon DEF LiveInv, SeriesInv
    <2>2. CASE t = source
      <3> DEFINE s == Append(old, new)
      <3>1. series'[t] = s /\ series[t] = old
        BY <1>9, <2>2 DEF old
      <3>2. \A i \in 1..n :
              /\ old[i].at <= clock
              /\ Scrapes => old[i].collected = old[i].at
              /\ \A j \in 1..n : i < j =>
                   /\ old[j].at - old[i].at > Apart
                   /\ old[i].collected < old[j].collected
        BY <1>8, <1>13, <3>1, Zenon DEF LiveInv, SeriesInv
      <3> HIDE DEF s
      <3>3. /\ DOMAIN s = 1..(n + 1) /\ (\A i \in 1..n : s[i] = old[i]) /\ s[n + 1] = new
        BY <1>10 DEF s
      <3>4. \A i \in 1..(n + 1) : i \in 1..n \/ i = n + 1
        BY <1>8
      <3>5. ASSUME NEW i \in 1..(n + 1)
            PROVE  s[i].at <= clock /\ (Scrapes => s[i].collected = s[i].at)
        <4>1. CASE i \in 1..n
          BY <3>2, <3>3, <4>1, Zenon
        <4>2. CASE i = n + 1
          BY <1>1, <1>5, <3>3, <4>2
        <4> QED
          BY <3>4, <4>1, <4>2
      <3>6. ASSUME NEW i \in 1..(n + 1), NEW j \in 1..(n + 1), i < j
            PROVE  s[j].at - s[i].at > Apart /\ s[i].collected < s[j].collected
        <4>1. i \in 1..n
          BY <1>8, <3>6
        <4>2. CASE j \in 1..n
          BY <3>2, <3>3, <3>6, <4>1, <4>2, Zenon
        <4>3. CASE j = n + 1
          BY <1>6, <3>3, <4>1, <4>3, Zenon
        <4> QED
          BY <3>4, <4>2, <4>3
      <3> QED
        BY <3>1, <3>3, <3>5, <3>6, Zenon
    <2> QED
      BY <2>1, <2>2
  <1>14. SeriesInv'
    BY <1>1, <1>7, <1>9, <1>12, <1>13, Zenon DEF SeriesInv
  <1> QED
    BY <1>7, <1>11, <1>14 DEF Grown

\* Where a series only grows, the answers that were given keep their samples.
LEMMA AnswersStay ==
  ASSUME SeriesInv, SeriesInv', Grown, UNCHANGED <<kind, run>>, run.reading, ~Scrapes,
         ~Scrapes => clock <= clock', run.start \in Nat,
         NEW d \in [1..Len(run.values) -> Nat], Answered(d)
  PROVE  Answered(d)'
  <1>1. One \in Targets
    BY LiveAssumption
  <1>2. series[One] \in Seq(Sample) /\ series'[One] \in Seq(Sample)
    BY <1>1 DEF SeriesInv
  <1>3. /\ DOMAIN series[One] = 1..Len(series[One]) /\ Len(series[One]) \in Nat
        /\ DOMAIN series'[One] = 1..Len(series'[One]) /\ Len(series'[One]) \in Nat
    BY <1>2
  <1>4. /\ DOMAIN series[One] \subseteq DOMAIN series'[One]
        /\ \A i \in DOMAIN series[One] : series'[One][i] = series[One][i]
    BY <1>1 DEF Grown
  <1>5. Len(series[One]) <= Len(series'[One])
    BY <1>3, <1>4
  <1>6. QUERIES' = QUERIES
    BY DEF QUERIES
  <1>7. /\ Moment \in Nat /\ Moment' \in Nat /\ Moment <= Moment'
        /\ clock \in Nat /\ clock' \in Nat
    BY DEF Moment, SeriesInv
  <1>8. d \in [1..Len(run.values)' -> 0..Len(series[One])']
    <2>1. 0..Len(series[One]) \subseteq 0..Len(series'[One])
      BY <1>3, <1>5
    <2>2. d \in [1..Len(run.values) -> 0..Len(series[One])]
      BY DEF Answered
    <2> QED
      BY <2>1, <2>2
  <1>9. ASSUME NEW i \in DOMAIN d, d[i] >= 1
        PROVE  d[i] \in DOMAIN series[One] /\ series'[One][d[i]] = series[One][d[i]]
    <2>1. d[i] \in 0..Len(series[One])
      BY DEF Answered
    <2>2. d[i] \in DOMAIN series[One]
      BY <1>3, <1>9, <2>1
    <2> QED
      BY <1>4, <2>2
  <1>10. ASSUME NEW i \in DOMAIN d
         PROVE  /\ run'.values[i] # Missing =>
                     d[i] >= 1 /\ run'.values[i] = Metric(QUERIES[i], series'[One][d[i]])
                /\ d[i] >= 1 => series'[One][d[i]].at <= Moment'
                /\ \A k \in DOMAIN d : i <= k => d[i] <= d[k]
    <2>1. /\ run.values[i] # Missing =>
                d[i] >= 1 /\ run.values[i] = Metric(QUERIES[i], series[One][d[i]])
          /\ d[i] >= 1 => series[One][d[i]].at <= Moment
          /\ \A k \in DOMAIN d : i <= k => d[i] <= d[k]
      BY Zenon DEF Answered
    <2>2. ASSUME d[i] >= 1 PROVE series'[One][d[i]].at <= Moment'
      <3>1. series[One][d[i]] \in Sample
        BY <1>2, <1>9, <2>2
      <3>2. series[One][d[i]].at \in Nat
        BY <3>1 DEF Sample
      <3>3. series[One][d[i]].at <= Moment
        BY <2>1, <2>2
      <3> DEFINE at == series[One][d[i]].at
      <3>4. at <= Moment'
        <4> HIDE DEF at
        <4> QED
          BY <1>7, <3>2, <3>3 DEF at
      <3> QED
        BY <1>9, <2>2, <3>4, Zenon
    <2> QED
      BY <1>9, <2>1, <2>2, Zenon
  <1> QED
    BY <1>6, <1>8, <1>10, Zenon DEF Answered

LEMMA IngestKeepsInv ==
  ASSUME LiveInv, NEW source \in Sources, Ingest(source)
  PROVE  LiveInv'
  <1>1. SeriesInv' /\ Grown /\ UNCHANGED <<clock, kind, run, reports>>
    BY IngestKeepsSeries
  <1>2. /\ kind' \in Kinds /\ Sources' = Sources /\ Scrapes' = Scrapes /\ QUERIES' = QUERIES
        /\ Sources \subseteq Targets
    BY <1>1, LiveAssumption DEF LiveInv, Sources, Scrapes, QUERIES
  <1>3. ReadInv'
    BY <1>1, <1>2, Zenon DEF LiveInv, ReadInv
  <1>4. SampledInv'
    <2> SUFFICES ASSUME run.reading, ~Scrapes
                 PROVE  \E d \in [1..Len(run.values)' -> Nat] : Answered(d)'
      BY <1>1, <1>2, Zenon DEF SampledInv
    <2>1. PICK d \in [1..Len(run.values) -> Nat] : Answered(d)
      BY DEF LiveInv, SampledInv
    <2>2. clock <= clock' /\ run.start \in Nat
      BY <1>1 DEF LiveInv, SeriesInv, ReadInv
    <2>3. Answered(d)'
      BY <1>1, <2>1, <2>2, AnswersStay DEF LiveInv
    <2> QED
      BY <1>1, <2>1, <2>3
  <1>5. HealthyInv'
    <2> SUFFICES ASSUME run.reading, Scrapes, Len(run.values) >= 2
                 PROVE  \E up \in SUBSET Sources :
                          /\ run.values[2] = Cardinality(up)
                          /\ \A t \in up : Behind(t, "UP", run.start, LOOKBACK)'
      BY <1>1, <1>2, Zenon DEF HealthyInv
    <2>1. PICK up \in SUBSET Sources :
            /\ run.values[2] = Cardinality(up)
            /\ \A t \in up : Behind(t, "UP", run.start, LOOKBACK)
      BY DEF LiveInv, HealthyInv
    <2>2. ASSUME NEW t \in up PROVE Behind(t, "UP", run.start, LOOKBACK)'
      <3>1. t \in Targets
        BY <1>2
      <3>2. PICK i \in DOMAIN series[t] :
              series[t][i].shows = "UP" /\ run.start - series[t][i].collected <= LOOKBACK
        BY <2>1, Zenon DEF Behind
      <3>3. i \in DOMAIN series'[t] /\ series'[t][i] = series[t][i] /\ run' = run
        BY <1>1, <3>1, Zenon DEF Grown
      <3> QED
        BY <3>2, <3>3, Zenon DEF Behind
    <2> QED
      BY <2>1, <2>2
  <1>6. ReportsInv'
    <2>1. reports' = reports /\ kind \in Kinds /\ kind' = kind
      BY <1>1 DEF LiveInv
    <2>2. ASSUME NEW i \in DOMAIN reports
          PROVE  ReportIsBorneOut(reports[i])'
      <3> DEFINE r == reports[i]
      <3>1. ReportIsBorneOut(r)
        BY DEF LiveInv, ReportsInv
      <3>2. \A q : ReportIsBorneOut(q) => ReportIsBorneOut(q)'
        BY <1>1, <2>1, ReportStays
      <3> QED
        BY <2>1, <3>1, <3>2
    <2> QED
      BY <2>1, <2>2 DEF LiveInv, ReportsInv
  <1> QED
    BY <1>1, <1>2, <1>3, <1>4, <1>5, <1>6 DEF LiveInv

\* Time passes: a read that goes on began at the moment that ends.
LEMMA PassKeepsInv ==
  ASSUME LiveInv, Pass
  PROVE  LiveInv'
  <1>1. /\ clock' = clock + 1 /\ UNCHANGED <<series, kind, run, reports>>
        /\ run.reading => clock = run.start
        /\ clock \in Nat \ {0}
    BY DEF Pass, LiveInv, SeriesInv
  <1>2. /\ kind' \in Kinds /\ Sources' = Sources /\ Scrapes' = Scrapes /\ QUERIES' = QUERIES
        /\ Apart' = Apart /\ Sources \subseteq Targets
    BY <1>1, LiveAssumption DEF LiveInv, Sources, Scrapes, QUERIES, Apart
  <1>3. Grown /\ clock' \in Nat \ {0} /\ clock <= clock'
    BY <1>1 DEF Grown
  <1>4. SeriesInv'
    <2>1. ASSUME NEW t \in Sources, NEW i \in DOMAIN series[t]
          PROVE  series[t][i].at <= clock'
      <3>1. series[t] \in Seq(Sample)
        BY <1>2 DEF LiveInv, SeriesInv
      <3>2. series[t][i] \in Sample
        BY <3>1
      <3>3. series[t][i].at \in Nat
        BY <3>2 DEF Sample
      <3>4. series[t][i].at <= clock
        BY DEF LiveInv, SeriesInv
      <3> QED
        BY <1>1, <3>3, <3>4
    <2>2. series' = series /\ series \in [Targets -> Seq(Sample)]
      BY <1>1 DEF LiveInv, SeriesInv
    <2>3. ASSUME NEW t \in Sources, NEW i \in DOMAIN series[t]
          PROVE  /\ Scrapes => series[t][i].collected = series[t][i].at
                 /\ \A j \in DOMAIN series[t] : i < j =>
                      /\ series[t][j].at - series[t][i].at > Apart
                      /\ series[t][i].collected < series[t][j].collected
      BY Zenon DEF LiveInv, SeriesInv
    <2>4. \A t \in Sources' : \A i \in DOMAIN series'[t] :
            /\ series'[t][i].at <= clock'
            /\ Scrapes' => series'[t][i].collected = series'[t][i].at
            /\ \A j \in DOMAIN series'[t] : i < j =>
                 /\ series'[t][j].at - series'[t][i].at > Apart'
                 /\ series'[t][i].collected < series'[t][j].collected
      BY <1>2, <2>1, <2>2, <2>3, ZenonT(30)
    <2>5. clock' \in Nat \ {0} /\ series' \in [Targets -> Seq(Sample)]
      BY <1>3, <2>2, Zenon
    <2> QED
      BY <2>4, <2>5, Zenon DEF SeriesInv
  <1>5. ReadInv'
    BY <1>1, <1>2 DEF LiveInv, ReadInv
  <1>6. SampledInv'
    <2> SUFFICES ASSUME run.reading, ~Scrapes
                 PROVE  \E d \in [1..Len(run.values)' -> Nat] : Answered(d)'
      BY <1>1, <1>2, Zenon DEF SampledInv
    <2>1. PICK d \in [1..Len(run.values) -> Nat] : Answered(d)
      BY DEF LiveInv, SampledInv
    <2>2. run.start \in Nat
      BY DEF LiveInv, ReadInv
    <2>3. Answered(d)'
      BY <1>1, <1>3, <1>4, <2>1, <2>2, AnswersStay DEF LiveInv
    <2> QED
      BY <1>1, <2>1, <2>3
  <1>7. HealthyInv'
    BY <1>1, <1>2, Zenon DEF LiveInv, HealthyInv, Behind
  <1>8. ReportsInv'
    <2>1. kind \in Kinds /\ kind' = kind
      BY <1>1 DEF LiveInv
    <2>2. \A q : ReportIsBorneOut(q) => ReportIsBorneOut(q)'
      BY <1>3, <2>1, ReportStays
    <2> QED
      BY <1>1, <2>2 DEF LiveInv, ReportsInv
  <1> QED
    BY <1>2, <1>4, <1>5, <1>6, <1>7, <1>8 DEF LiveInv

\* Where nothing of VictoriaMetrics changes, the reports stand.
LEMMA StillKeepsReports ==
  ASSUME LiveInv, UNCHANGED <<clock, series, kind>>
  PROVE  /\ SeriesInv' /\ kind' \in Kinds /\ Sources' = Sources /\ Scrapes' = Scrapes
         /\ QUERIES' = QUERIES
         /\ \A q : ReportIsBorneOut(q) => ReportIsBorneOut(q)'
  <1>1. /\ kind' \in Kinds /\ Sources' = Sources /\ Scrapes' = Scrapes /\ QUERIES' = QUERIES
        /\ Apart' = Apart
    BY DEF LiveInv, Sources, Scrapes, QUERIES, Apart
  <1>2. SeriesInv'
    <2>1. clock' = clock /\ series' = series /\ SeriesInv
      BY DEF LiveInv
    <2> QED
      BY <1>1, <2>1, Zenon DEF SeriesInv
  <1>3. Grown /\ kind \in Kinds /\ kind' = kind
    BY DEF LiveInv, Grown
  <1> QED
    BY <1>1, <1>2, <1>3, ReportStays

LEMMA BeginKeepsInv ==
  ASSUME LiveInv, Begin
  PROVE  LiveInv'
  <1>1. /\ UNCHANGED <<clock, series, kind, reports>>
        /\ run' = [reading |-> TRUE, start |-> clock, values |-> <<>>]
    BY DEF Begin
  <1>2. /\ SeriesInv' /\ kind' \in Kinds /\ Sources' = Sources /\ Scrapes' = Scrapes
        /\ QUERIES' = QUERIES
        /\ \A q : ReportIsBorneOut(q) => ReportIsBorneOut(q)'
    BY <1>1, StillKeepsReports
  <1>3. run'.start = clock /\ run'.values = <<>> /\ clock \in Nat \ {0}
    BY <1>1 DEF LiveInv, SeriesInv
  <1>4. Len(QUERIES) \in Nat
    BY DEF QUERIES, Queries, LiveInv, Kinds
  <1>5. ReadInv'
    BY <1>1, <1>2, <1>3, <1>4 DEF ReadInv
  <1>6. SampledInv'
    <2> DEFINE d == [i \in 1..0 |-> 0]
    <2>1. d \in [1..Len(run.values)' -> Nat] /\ DOMAIN d = {} /\ 1..Len(run.values)' = {}
      BY <1>3
    <2>2. Answered(d)'
      BY <2>1 DEF Answered
    <2> QED
      BY <2>1, <2>2 DEF SampledInv
  <1>7. HealthyInv'
    BY <1>3 DEF HealthyInv
  <1>8. ReportsInv'
    BY <1>1, <1>2 DEF LiveInv, ReportsInv
  <1> QED
    BY <1>2, <1>5, <1>6, <1>7, <1>8 DEF LiveInv

-----------------------------------------------------------------------------
(* A query.                                                                *)

\* A sample of a series, as a record of numbers.
LEMMA SampleTypes ==
  ASSUME SeriesInv, NEW t \in Targets, NEW i \in DOMAIN series[t]
  PROVE  /\ series[t][i] \in Sample
         /\ series[t][i].at \in Nat /\ series[t][i].collected \in Int
         /\ i \in Nat /\ i >= 1 /\ i <= Len(series[t]) /\ Len(series[t]) \in Nat
  <1>1. series[t] \in Seq(Sample)
    BY DEF SeriesInv
  <1>2. series[t][i] \in Sample
    BY <1>1
  <1>3. series[t][i].at \in Nat /\ series[t][i].collected \in Int
    BY <1>2 DEF Sample
  <1>4. Len(series[t]) \in Nat /\ DOMAIN series[t] = 1..Len(series[t])
    BY <1>1
  <1> QED
    BY <1>2, <1>3, <1>4

\* What an aggregate counts is a number, and the age is that of some sample.
LEMMA AggregateType ==
  ASSUME SeriesInv, ~Empty, Scrapes, NEW query
  PROVE  Aggregate(query) \in Int
  <1> DEFINE found == {t \in Sources : At(t, clock) # {}}
             up == {t \in found : \E s \in At(t, clock) : s.shows = "UP"}
             ages == {a \in 0..LOOKBACK : \E t \in found : \E s \in At(t, clock) : clock - s.at = a}
  <1>1. /\ Sources \subseteq Targets /\ IsFiniteSet(Targets) /\ LOOKBACK \in Nat
        /\ clock \in Nat /\ Moment = clock
    BY LiveAssumption DEF Sources, SeriesInv, Scrapes, Moment
  <1>2. IsFiniteSet(found) /\ IsFiniteSet(up)
    BY <1>1, FS_Subset
  <1>3. Cardinality(found) \in Int /\ Cardinality(up) \in Int
    <2>1. Cardinality(found) \in Nat /\ Cardinality(up) \in Nat
      BY <1>2, FS_CardinalityType
    <2> HIDE DEF found, up
    <2> QED
      BY <2>1
  <1>4. ASSUME NEW t \in found, NEW s \in At(t, clock)
        PROVE  clock - s.at \in ages
    <2>1. PICK k \in DOMAIN series[t] :
            s = series[t][k] /\ s.at <= clock /\ clock - s.at <= LOOKBACK
      BY <1>1, NewestSample
    <2>2. series[t][k].at \in Nat
      BY <1>1, SampleTypes
    <2>3. clock - s.at \in 0..LOOKBACK
      BY <1>1, <2>1, <2>2
    <2> QED
      BY <2>3
  <1>5. PICK a \in ages : \A b \in ages : b <= a
    <2> DEFINE rest == {LOOKBACK - b : b \in ages}
    <2>1. ages # {}
      <3>1. PICK t \in Sources : At(t, clock) # {}
        BY <1>1 DEF Empty
      <3> QED
        BY <1>4, <3>1
    <2>2. rest \subseteq Nat /\ rest # {} /\ ages \subseteq 0..LOOKBACK
      <3>1. ages \subseteq 0..LOOKBACK
        OBVIOUS
      <3> HIDE DEF ages
      <3> QED
        BY <1>1, <2>1, <3>1
    <2>3. PICK m \in rest : \A i \in rest : m <= i
      BY <2>2, LeastNumber
    <2>4. PICK a \in ages : m = LOOKBACK - a
      OBVIOUS
    <2>5. ASSUME NEW b \in ages PROVE b <= a
      <3>1. LOOKBACK - a <= LOOKBACK - b
        BY <2>3, <2>4
      <3>2. a \in 0..LOOKBACK /\ b \in 0..LOOKBACK
        BY <2>2
      <3> HIDE DEF ages, rest
      <3> QED
        BY <1>1, <3>1, <3>2
    <2> QED
      BY <2>5
  <1>6. \A t \in found : \A s \in At(t, clock) : clock - s.at <= a
    BY <1>4, <1>5
  <1>7. (CHOOSE b \in 0..LOOKBACK :
           /\ \E t \in found : \E s \in At(t, clock) : clock - s.at = b
           /\ \A t \in found : \A s \in At(t, clock) : clock - s.at <= b) \in 0..LOOKBACK
    BY <1>5, <1>6, Zenon
  <1>8. 0..LOOKBACK \subseteq Int
    BY <1>1
  <1> QED
    BY <1>3, <1>7, <1>8, Zenon DEF Aggregate

\* The answers of a reader of one source so far, and of which sample the next is.
LEMMA NextSample ==
  ASSUME LiveInv, Query, ~Scrapes,
         NEW d \in [1..Len(run.values) -> Nat], Answered(d),
         NEW query
  PROVE  /\ Answer(query) \in Int
         /\ \E last \in 0..Len(series[One]) :
              /\ Answer(query) # Missing =>
                   last >= 1 /\ Answer(query) = Metric(query, series[One][last])
              /\ last >= 1 => series[One][last].at <= Moment
              /\ \A i \in DOMAIN d : d[i] <= last
  <1> DEFINE n == Len(run.values)
  <1>1. /\ One \in Targets /\ Sources = {One} /\ SeriesInv /\ Moment \in Nat
        /\ run.values \in Seq(Int) /\ n \in Nat /\ run.reading
    BY LiveAssumption
       DEF LiveInv, ReadInv, Scrapes, Sources, SeriesInv, Moment, Query
  <1>2. DOMAIN series[One] = 1..Len(series[One]) /\ Len(series[One]) \in Nat
    <2>1. series[One] \in Seq(Sample)
      BY <1>1 DEF SeriesInv
    <2> QED
      BY <2>1
  <1>3. CASE Empty
    <2>1. Answer(query) = Missing /\ Missing \in Int
      BY <1>3 DEF Answer, Missing
    <2>2. CASE n = 0
      <3>1. DOMAIN d = {}
        BY <2>2
      <3>2. 0 \in 0..Len(series[One]) /\ ~(0 >= 1)
        BY <1>2
      <3> QED
        BY <2>1, <3>1, <3>2
    <2>3. CASE n # 0
      <3>1. n \in DOMAIN d /\ \A i \in DOMAIN d : i <= n
        BY <1>1, <2>3
      <3>2. /\ d[n] \in 0..Len(series[One])
            /\ d[n] >= 1 => series[One][d[n]].at <= Moment
            /\ \A i \in DOMAIN d : d[i] <= d[n]
        BY <3>1, Zenon DEF Answered
      <3> QED
        BY <2>1, <3>2
    <2> QED
      BY <2>2, <2>3
  <1>4. CASE ~Empty
    <2>1. At(One, Moment) # {}
      BY <1>1, <1>4 DEF Empty
    <2> DEFINE s == CHOOSE s \in At(One, Moment) : TRUE
    <2>2. s \in At(One, Moment) /\ Answer(query) = Metric(query, s)
      BY <1>4, <2>1, Zenon DEF Answer
    <2> HIDE DEF s
    <2>3. PICK k \in DOMAIN series[One] :
            /\ s = series[One][k] /\ s.at <= Moment
            /\ \A j \in DOMAIN series[One] : series[One][j].at <= Moment => j <= k
      BY <1>1, <2>2, NewestSample
    <2>4. Answer(query) \in Int
      <3>1. s.at \in Int /\ s.collected \in Int
        BY <1>1, <2>3, SampleTypes
      <3> QED
        BY <2>2, <3>1 DEF Metric, Flag
    <2>5. ASSUME NEW i \in DOMAIN d PROVE d[i] <= k
      <3>1. /\ d[i] \in 0..Len(series[One])
            /\ d[i] >= 1 => series[One][d[i]].at <= Moment
        BY Zenon DEF Answered
      <3>2. CASE d[i] >= 1
        BY <1>2, <2>3, <3>1, <3>2
      <3>3. CASE ~(d[i] >= 1)
        BY <1>2, <3>1, <3>3
      <3> QED
        BY <3>2, <3>3
    <2>6. k \in 0..Len(series[One]) /\ k >= 1
      BY <1>2
    <2> QED
      BY <2>2, <2>3, <2>4, <2>5, <2>6
  <1> QED
    BY <1>3, <1>4

LEMMA QueryKeepsInv ==
  ASSUME LiveInv, Query
  PROVE  LiveInv'
  <1> DEFINE n == Len(run.values)
             q == QUERIES[n + 1]
             a == Answer(q)
  <1>1. /\ run.reading /\ n < Len(QUERIES) /\ (kind = "boundary" \/ ~Empty)
        /\ run' = [run EXCEPT !.values = Append(run.values, a)]
        /\ UNCHANGED <<clock, series, kind, reports>>
    BY DEF Query
  <1>2. /\ run \in [reading : BOOLEAN, start : Nat, values : Seq(Int)]
        /\ run.values \in Seq(Int) /\ n \in Nat /\ run.start \in Nat
        /\ SeriesInv /\ kind \in Kinds
        /\ run.start <= clock /\ clock <= run.start + 1
    BY <1>1 DEF LiveInv, ReadInv
  <1>3. /\ SeriesInv' /\ kind' \in Kinds /\ Sources' = Sources /\ Scrapes' = Scrapes
        /\ QUERIES' = QUERIES
        /\ \A r : ReportIsBorneOut(r) => ReportIsBorneOut(r)'
    BY <1>1, StillKeepsReports
  <1>4. Len(QUERIES) \in Nat
    BY <1>2 DEF QUERIES, Queries, Kinds
  <1>5. a \in Int
    <2>1. CASE Scrapes
      <3>1. ~Empty
        BY <1>1, <2>1 DEF Scrapes
      <3>2. a = Aggregate(q)
        BY <2>1, <3>1, Zenon DEF Answer
      <3> QED
        BY <1>2, <2>1, <3>1, <3>2, AggregateType
    <2>2. CASE ~Scrapes
      <3>1. PICK d \in [1..n -> Nat] : Answered(d)
        BY <1>1, <2>2 DEF LiveInv, SampledInv
      <3> QED
        BY <2>2, <3>1, NextSample
    <2> QED
      BY <2>1, <2>2
  <1> HIDE DEF a
  <1>6. /\ run'.reading = run.reading /\ run'.start = run.start
        /\ run'.values = Append(run.values, a)
        /\ run' \in [reading : BOOLEAN, start : Nat, values : Seq(Int)]
    <2>1. Append(run.values, a) \in Seq(Int)
      BY <1>2, <1>5
    <2>2. /\ run'.reading = run.reading /\ run'.start = run.start
          /\ run'.values = Append(run.values, a)
      BY <1>1, <1>2
    <2>3. run' \in [reading : BOOLEAN, start : Nat, values : Seq(Int)]
      BY <1>1, <1>2, <2>1
    <2> QED
      BY <2>2, <2>3
  <1>7. /\ Len(run'.values) = n + 1
        /\ run'.values[n + 1] = a
        /\ \A i \in 1..n : run'.values[i] = run.values[i]
    BY <1>2, <1>5, <1>6
  <1>8. ReadInv'
    <2>1. n + 1 <= Len(QUERIES)
      BY <1>1, <1>2, <1>4
    <2> QED
      BY <1>1, <1>2, <1>3, <1>6, <1>7, <2>1, Zenon DEF ReadInv
  <1>9. SampledInv'
    <2> SUFFICES ASSUME ~Scrapes
                 PROVE  \E d \in [1..(n + 1) -> Nat] : Answered(d)'
      BY <1>3, <1>7, Zenon DEF SampledInv
    <2>1. PICK d \in [1..n -> Nat] : Answered(d)
      BY <1>1 DEF LiveInv, SampledInv
    <2>2. PICK last \in 0..Len(series[One]) :
            /\ a # Missing => last >= 1 /\ a = Metric(q, series[One][last])
            /\ last >= 1 => series[One][last].at <= Moment
            /\ \A i \in DOMAIN d : d[i] <= last
      BY <2>1, NextSample DEF a
    <2>3. /\ d \in [1..n -> 0..Len(series[One])] /\ DOMAIN d = 1..n
          /\ \A i \in 1..n :
               /\ run.values[i] # Missing =>
                    d[i] >= 1 /\ run.values[i] = Metric(QUERIES[i], series[One][d[i]])
               /\ d[i] >= 1 => series[One][d[i]].at <= Moment
               /\ \A k \in 1..n : i <= k => d[i] <= d[k]
      BY <2>1, Zenon DEF Answered
    <2>4. /\ \A i \in 1..n : i # n + 1 /\ i \in 1..(n + 1) /\ ~(n + 1 <= i)
          /\ \A i \in 1..(n + 1) : i = n + 1 \/ i \in 1..n
          /\ n + 1 \in 1..(n + 1)
      BY <1>2
    <2>5. PICK e \in [1..(n + 1) -> 0..Len(series[One])] :
            /\ \A i \in 1..n : e[i] = d[i]
            /\ e[n + 1] = last /\ DOMAIN e = 1..(n + 1)
      <3> DEFINE f == [i \in 1..(n + 1) |-> IF i = n + 1 THEN last ELSE d[i]]
      <3>1. /\ \A i \in 1..n : f[i] = d[i]
            /\ f[n + 1] = last /\ DOMAIN f = 1..(n + 1)
            /\ f \in [1..(n + 1) -> 0..Len(series[One])]
        BY <2>2, <2>3, <2>4
      <3> QED
        BY <3>1
    <2>6. last <= last /\ \A i \in 1..n : d[i] <= last
      BY <2>2, <2>3
    <2>7. Moment' = Moment
      BY <1>1, <1>6 DEF Moment
    <2>8. ASSUME NEW i \in 1..(n + 1)
          PROVE  /\ run'.values[i] # Missing =>
                      e[i] >= 1 /\ run'.values[i] = Metric(QUERIES[i], series[One][e[i]])
                 /\ e[i] >= 1 => series[One][e[i]].at <= Moment
                 /\ \A k \in 1..(n + 1) : i <= k => e[i] <= e[k]
      <3>1. CASE i \in 1..n
        BY <1>7, <2>3, <2>4, <2>5, <2>6, <3>1, Zenon
      <3>2. CASE i = n + 1
        BY <1>7, <2>2, <2>4, <2>5, <2>6, <3>2, Zenon
      <3> QED
        BY <2>4, <3>1, <3>2
    <2>9. series' = series
      BY <1>1
    <2>10. Answered(e)'
      BY <1>3, <1>7, <2>5, <2>7, <2>8, <2>9, Zenon DEF Answered
    <2>11. e \in [1..(n + 1) -> Nat]
      <3>1. One \in Targets
        BY LiveAssumption
      <3>2. series[One] \in Seq(Sample)
        BY <1>2, <3>1 DEF SeriesInv
      <3>3. 0..Len(series[One]) \subseteq Nat
        BY <3>2
      <3> QED
        BY <2>5, <3>3
    <2> QED
      BY <2>10, <2>11
  <1>10. HealthyInv'
    <2> SUFFICES ASSUME Scrapes, n + 1 >= 2
                 PROVE  \E up \in SUBSET Sources :
                          /\ run'.values[2] = Cardinality(up)
                          /\ \A t \in up : Behind(t, "UP", run.start, LOOKBACK)'
      BY <1>3, <1>6, <1>7, Zenon DEF HealthyInv
    <2>1. \A t : Behind(t, "UP", run.start, LOOKBACK)' <=> Behind(t, "UP", run.start, LOOKBACK)
      BY <1>1, <1>6, Zenon DEF Behind
    <2>2. CASE n >= 2
      <3>1. 2 \in 1..n
        BY <1>2, <2>2
      <3> QED
        BY <1>1, <1>7, <2>1, <2>2, <3>1, Zenon DEF LiveInv, HealthyInv
    <2>3. CASE n = 1
      <3> DEFINE found == {t \in Sources : At(t, clock) # {}}
                 up == {t \in found : \E s \in At(t, clock) : s.shows = "UP"}
      <3>1. q = "healthy" /\ ~Empty
        BY <1>1, <1>2, <2>3, ScrapesAnswers DEF Scrapes
      <3>2. a = Cardinality(up)
        BY <3>1 DEF Answer, Aggregate, a
      <3>3. ASSUME NEW t \in up PROVE Behind(t, "UP", run.start, LOOKBACK)
        <4>1. t \in Sources /\ Sources \subseteq Targets /\ clock \in Nat /\ LOOKBACK \in Nat
          BY <1>2, LiveAssumption DEF Sources, SeriesInv
        <4>2. PICK s \in At(t, clock) : s.shows = "UP"
          OBVIOUS
        <4>3. PICK k \in DOMAIN series[t] : s = series[t][k] /\ clock - s.at <= LOOKBACK
          BY <1>2, <4>1, NewestSample
        <4>4. series[t][k].at \in Nat /\ series[t][k].collected = series[t][k].at
          BY <1>2, <4>1, SampleTypes DEF SeriesInv
        <4>5. run.start - series[t][k].collected <= LOOKBACK
          BY <1>2, <4>1, <4>3, <4>4
        <4> QED
          BY <4>2, <4>3, <4>5 DEF Behind
      <3>4. run'.values[2] = Cardinality(up)
        BY <1>7, <2>3, <3>2
      <3>5. up \in SUBSET Sources
        OBVIOUS
      <3> HIDE DEF up
      <3> QED
        BY <2>1, <3>3, <3>4, <3>5
    <2>4. n >= 2 \/ n = 1
      <3>1. n \in Nat /\ n + 1 >= 2
        BY <1>2
      <3> HIDE DEF n
      <3> QED
        BY <3>1
    <2> QED
      BY <2>2, <2>3, <2>4, Zenon
  <1>11. ReportsInv'
    BY <1>1, <1>3 DEF LiveInv, ReportsInv
  <1> QED
    BY <1>3, <1>8, <1>9, <1>10, <1>11 DEF LiveInv

\* A reader that stops: nothing is claimed.
LEMMA IdleKeepsRead ==
  ASSUME run' = Idle
  PROVE  ReadInv' /\ SampledInv' /\ HealthyInv'
  <1>1. run' = [reading |-> FALSE, start |-> 0, values |-> <<>>]
    BY DEF Idle
  <1>2. ~run'.reading /\ run' \in [reading : BOOLEAN, start : Nat, values : Seq(Int)]
    BY <1>1
  <1> QED
    BY <1>2 DEF ReadInv, SampledInv, HealthyInv

\* One report more.
LEMMA OneMoreReport ==
  ASSUME LiveInv, UNCHANGED <<clock, series, kind>>, run' = Idle,
         NEW report \in AnyReport, ReportIsBorneOut(report), reports' = Append(reports, report)
  PROVE  LiveInv'
  <1>1. /\ SeriesInv' /\ kind' \in Kinds
        /\ \A r : ReportIsBorneOut(r) => ReportIsBorneOut(r)'
    BY StillKeepsReports
  <1>2. ReadInv' /\ SampledInv' /\ HealthyInv'
    BY IdleKeepsRead
  <1>3. ReportsInv'
    <2>1. reports \in Seq(AnyReport) /\ \A i \in DOMAIN reports : ReportIsBorneOut(reports[i])
      BY DEF LiveInv, ReportsInv
    <2>2. /\ reports' \in Seq(AnyReport)
          /\ \A i \in DOMAIN reports' :
               reports'[i] = report \/ (i \in DOMAIN reports /\ reports'[i] = reports[i])
      BY <2>1
    <2>3. ASSUME NEW i \in DOMAIN reports' PROVE ReportIsBorneOut(reports[i])'
      BY <1>1, <2>1, <2>2, <2>3, Zenon
    <2> QED
      BY <2>2, <2>3 DEF ReportsInv
  <1> QED
    BY <1>1, <1>2, <1>3 DEF LiveInv

LEMMA QueryFailsKeepsInv ==
  ASSUME LiveInv, QueryFails
  PROVE  LiveInv'
  <1>1. /\ kind # "boundary" /\ run' = Idle /\ reports' = Append(reports, Plain(Unknown))
        /\ UNCHANGED <<clock, series, kind>>
    BY DEF QueryFails
  <1>2. Plain(Unknown) = [at |-> clock, classification |-> "UNKNOWN", mode |-> "UNKNOWN",
                          healthy |-> 0]
    BY DEF Plain, Unknown
  <1>3. clock \in Int
    BY DEF LiveInv, SeriesInv
  <1>4. Plain(Unknown) \in AnyReport
    <2>1. Plain(Unknown) \in [at : Int, classification : Statuses, mode : Statuses, healthy : Int]
      BY <1>2, <1>3 DEF Statuses
    <2> QED
      BY <2>1, Zenon DEF AnyReport
  <1>5. ReportIsBorneOut(Plain(Unknown))
    BY <1>1, <1>2 DEF ReportIsBorneOut
  <1> QED
    BY <1>1, <1>4, <1>5, OneMoreReport


-----------------------------------------------------------------------------
(* A report.                                                               *)

\* Of two samples of a series the later one was collected later.
LEMMA Later ==
  ASSUME SeriesInv, NEW t \in Sources,
         NEW j \in DOMAIN series[t], NEW k \in DOMAIN series[t], j <= k
  PROVE  /\ series[t][j].at <= series[t][k].at
         /\ series[t][j].collected <= series[t][k].collected
         /\ series[t][k].at - series[t][j].at <= Apart => j = k
  <1>1. t \in Targets /\ Apart \in Nat
    BY LiveAssumption, ObservationAssumption DEF Sources, Apart
  <1>2. /\ series[t][j].at \in Nat /\ series[t][j].collected \in Int /\ j \in Nat
        /\ series[t][k].at \in Nat /\ series[t][k].collected \in Int /\ k \in Nat
    BY <1>1, SampleTypes
  <1>3. CASE j = k
    BY <1>2, <1>3
  <1>4. CASE j < k
    <2>1. /\ series[t][k].at - series[t][j].at > Apart
          /\ series[t][j].collected < series[t][k].collected
      BY <1>4 DEF SeriesInv
    <2> QED
      BY <1>1, <1>2, <2>1
  <1> QED
    BY <1>2, <1>3, <1>4

\* An answer that is there is the metric of the sample it came from.
LEMMA OfSample ==
  ASSUME SeriesInv, NEW d, Answered(d), NEW i \in DOMAIN d, run.values[i] # Missing
  PROVE  /\ d[i] \in DOMAIN series[One]
         /\ run.values[i] = Metric(QUERIES[i], series[One][d[i]])
         /\ \A k \in DOMAIN d : i <= k => d[i] <= d[k]
  <1>1. /\ d[i] \in 0..Len(series[One]) /\ d[i] >= 1
        /\ run.values[i] = Metric(QUERIES[i], series[One][d[i]])
        /\ \A k \in DOMAIN d : i <= k => d[i] <= d[k]
    BY Zenon DEF Answered
  <1>2. series[One] \in Seq(Sample)
    BY LiveAssumption DEF SeriesInv
  <1>3. d[i] \in DOMAIN series[One]
    BY <1>1, <1>2
  <1> QED
    BY <1>1, <1>3

\* An answer that says of a flag that it is set is of a sample that shows it, and
\* where one of two flags is set it is one of them.
LEMMA OfFlag ==
  ASSUME SeriesInv, NEW d, Answered(d), NEW i \in DOMAIN d, NEW what,
         \/ QUERIES[i] = "local" /\ what = "LOCAL"
         \/ QUERIES[i] = "bootstrap" /\ what = "BOOTSTRAP"
  PROVE  /\ run.values[i] \in {Missing, 0, 1}
         /\ run.values[i] = 1 =>
              d[i] \in DOMAIN series[One] /\ series[One][d[i]].shows = what
  <1>1. ASSUME run.values[i] # Missing
        PROVE  /\ d[i] \in DOMAIN series[One]
               /\ run.values[i] = Flag(series[One][d[i]].shows = what)
    BY <1>1, OfSample DEF Metric
  <1>2. Flag(series[One][d[i]].shows = what) \in {0, 1}
    BY DEF Flag
  <1>3. Flag(series[One][d[i]].shows = what) = 1 => series[One][d[i]].shows = what
    BY DEF Flag
  <1>4. 1 # Missing
    BY DEF Missing
  <1> QED
    BY <1>1, <1>2, <1>3, <1>4, Zenon

\* What a reader has when all its queries are answered.
LEMMA AllAnswers ==
  ASSUME LiveInv, run.reading, Len(run.values) = Len(QUERIES)
  PROVE  /\ run.values \in Seq(Int) /\ run.start \in Nat /\ clock \in Nat
         /\ run.start <= clock /\ clock <= run.start + 1 /\ SeriesInv
         /\ \A i \in 1..Len(QUERIES) : run.values[i] \in Int
         /\ ~Scrapes => \E d \in [1..Len(QUERIES) -> Nat] : Answered(d)
  <1>1. /\ run.values \in Seq(Int) /\ run.start \in Nat
        /\ run.start <= clock /\ clock <= run.start + 1
    BY DEF LiveInv, ReadInv
  <1>2. SeriesInv /\ clock \in Nat
    BY DEF LiveInv, SeriesInv
  <1>3. \A i \in 1..Len(QUERIES) : run.values[i] \in Int
    BY <1>1
  <1>4. ~Scrapes => \E d \in [1..Len(QUERIES) -> Nat] : Answered(d)
    BY DEF LiveInv, SampledInv
  <1> QED
    BY <1>1, <1>2, <1>3, <1>4

\* The mode that DNS Guard's telemetry shows was that of a collection not older than
\* the one whose age was looked at (snapshot).
LEMMA GuardReport ==
  ASSUME LiveInv, kind = "guard", run.reading, Len(run.values) = Len(QUERIES)
  PROVE  Projection \in AnyReport /\ ReportIsBorneOut(Projection)
  <1>1. /\ QUERIES = <<"collection", "valid", "local", "bootstrap">> /\ ~Scrapes
        /\ Got("collection") = run.values[1] /\ Got("valid") = run.values[2]
        /\ Got("local") = run.values[3] /\ Got("bootstrap") = run.values[4]
    BY GuardAnswers
  <1>2. /\ clock \in Nat /\ SeriesInv /\ One \in Sources /\ One \in Targets
        /\ \A i \in 1..4 : run.values[i] \in Int
    BY <1>1, AllAnswers, LiveAssumption DEF Sources, LiveInv
  <1>3. PICK d \in [1..4 -> Nat] : Answered(d)
    BY <1>1, AllAnswers
  <1>4. Projection = [at |-> clock, classification |-> snapshot, mode |-> snapshot, healthy |-> 0]
    BY DEF Projection, Plain
  <1>5. snapshot \in Statuses
    BY DEF snapshot, Unknown, Statuses
  <1>6. Projection \in AnyReport
    <2>1. Projection \in [at : Int, classification : Statuses, mode : Statuses, healthy : Int]
      BY <1>2, <1>4, <1>5
    <2> QED
      BY <2>1, Zenon DEF AnyReport
  <1>7. ASSUME snapshot \in {"LOCAL", "BOOTSTRAP"}
        PROVE  Behind(One, snapshot, clock, MAX_COLLECTION_AGE)
    <2>1. /\ run.values[1] > 0 /\ clock - run.values[1] <= MAX_COLLECTION_AGE
          /\ run.values[3] + run.values[4] = 1
          /\ snapshot = "LOCAL" => run.values[3] = 1
          /\ snapshot = "BOOTSTRAP" => run.values[3] # 1
      <3>1. /\ ~(Got("collection") <= 0) /\ ~(clock - Got("collection") > MAX_COLLECTION_AGE)
            /\ Got("local") + Got("bootstrap") = 1
            /\ snapshot = "LOCAL" => Got("local") = 1
            /\ snapshot = "BOOTSTRAP" => Got("local") # 1
        BY <1>7 DEF snapshot, Unknown
      <3>2. MAX_COLLECTION_AGE \in Nat /\ run.values[1] \in Int
        BY <1>2, LiveAssumption
      <3> QED
        BY <1>1, <1>2, <3>1, <3>2
    <2>2. /\ run.values[3] \in {-1, 0, 1} /\ run.values[4] \in {-1, 0, 1}
          /\ run.values[3] = 1 =>
               d[3] \in DOMAIN series[One] /\ series[One][d[3]].shows = "LOCAL"
          /\ run.values[4] = 1 =>
               d[4] \in DOMAIN series[One] /\ series[One][d[4]].shows = "BOOTSTRAP"
      BY <1>1, <1>2, <1>3, OfFlag DEF Missing
    <2>3. PICK i \in {3, 4} : d[i] \in DOMAIN series[One] /\ series[One][d[i]].shows = snapshot
      <3>1. CASE snapshot = "LOCAL"
        BY <2>1, <2>2, <3>1
      <3>2. CASE snapshot = "BOOTSTRAP"
        <4>1. run.values[4] = 1
          BY <2>1, <2>2, <3>2
        <4> QED
          BY <2>2, <3>2, <4>1
      <3> QED
        BY <1>7, <3>1, <3>2
    <2>4. /\ d[1] \in DOMAIN series[One] /\ run.values[1] = series[One][d[1]].collected
          /\ d[1] <= d[i]
      <3>1. run.values[1] # Missing /\ 1 \in DOMAIN d /\ i \in DOMAIN d /\ 1 <= i
        BY <1>2, <2>1, SMTT(30) DEF Missing
      <3> QED
        BY <1>1, <1>2, <1>3, <3>1, OfSample DEF Metric
    <2>5. series[One][d[1]].collected <= series[One][d[i]].collected
      BY <1>2, <2>3, <2>4, Later
    <2>6. series[One][d[1]].collected \in Int /\ series[One][d[i]].collected \in Int
      BY <1>2, <2>3, <2>4, SampleTypes
    <2>7. clock - series[One][d[i]].collected <= MAX_COLLECTION_AGE
      <3> DEFINE first == series[One][d[1]].collected
                 later == series[One][d[i]].collected
      <3>1. /\ first \in Int /\ later \in Int /\ clock \in Int /\ MAX_COLLECTION_AGE \in Int
            /\ first <= later
        BY <1>2, <2>5, <2>6, LiveAssumption
      <3>2. clock - first <= MAX_COLLECTION_AGE
        BY <2>1, <2>4
      <3> HIDE DEF first, later
      <3>3. clock - later <= MAX_COLLECTION_AGE
        BY <3>1, <3>2
      <3> QED
        BY <3>3 DEF later
    <2> QED
      BY <2>3, <2>7, Zenon DEF Behind
  <1>8. ReportIsBorneOut(Projection)
    BY <1>1, <1>4, <1>7 DEF ReportIsBorneOut, FreshLimit
  <1> QED
    BY <1>6, <1>8

\* As many targets as are called healthy were up (project_aggregates, project_live).
LEMMA ScrapesReport ==
  ASSUME LiveInv, Scrapes, run.reading, Len(run.values) = Len(QUERIES)
  PROVE  Projection \in AnyReport /\ ReportIsBorneOut(Projection)
  <1> DEFINE status == IF kind = "summary" THEN project_aggregates ELSE project_live
             ups == {t \in Sources : Behind(t, "UP", clock, FreshLimit)}
  <1>1. QUERIES = <<"total", "healthy", "age">> /\ Got("healthy") = run.values[2]
    BY ScrapesAnswers DEF LiveInv
  <1>2. /\ clock \in Nat /\ run.start \in Nat /\ SeriesInv /\ run.values[2] \in Int
        /\ run.start <= clock /\ clock <= run.start + 1
    BY <1>1, AllAnswers
  <1>3. Sources \subseteq Targets /\ IsFiniteSet(Targets) /\ LOOKBACK \in Nat
    BY LiveAssumption DEF Sources
  <1>4. PICK up \in SUBSET Sources :
          /\ run.values[2] = Cardinality(up)
          /\ \A t \in up : Behind(t, "UP", run.start, LOOKBACK)
    <2>1. Len(run.values) >= 2
      BY <1>1
    <2> QED
      BY <2>1 DEF LiveInv, HealthyInv
  <1>5. kind \in {"summary", "probe"} /\ FreshLimit = LOOKBACK + 1
    BY DEF Scrapes, FreshLimit
  <1>6. up \subseteq ups
    <2> SUFFICES ASSUME NEW t \in up
                 PROVE  Behind(t, "UP", clock, LOOKBACK + 1)
      BY <1>5
    <2>1. PICK i \in DOMAIN series[t] :
            series[t][i].shows = "UP" /\ run.start - series[t][i].collected <= LOOKBACK
      BY <1>4, Zenon DEF Behind
    <2>2. series[t][i].collected \in Int
      BY <1>2, <1>3, SampleTypes
    <2>3. clock - series[t][i].collected <= LOOKBACK + 1
      BY <1>2, <1>3, <2>1, <2>2
    <2> QED
      BY <2>1, <2>3, Zenon DEF Behind
  <1>7. /\ IsFiniteSet(ups) /\ Cardinality(up) <= Cardinality(ups)
        /\ Cardinality(up) \in Nat /\ Cardinality(ups) \in Nat
    <2>1. IsFiniteSet(ups) /\ IsFiniteSet(up)
      BY <1>3, FS_Subset
    <2> QED
      BY <1>6, <2>1, FS_Subset, FS_CardinalityType
  <1> HIDE DEF ups
  <1>8. run.values[2] \in Nat /\ Cardinality(ups) >= run.values[2]
    BY <1>4, <1>7
  <1>9. Projection = [at |-> clock, classification |-> status, mode |-> status,
                      healthy |-> run.values[2]]
    BY <1>1, <1>5 DEF Projection, Plain
  <1>10. status \in {"UNKNOWN", "STALE", "OK", "DOWN", "DEGRADED"}
    BY DEF project_aggregates, project_live, Unknown
  <1> HIDE DEF status
  <1>11. Projection \in AnyReport
    <2>1. Projection \in [at : Int, classification : Statuses, mode : Statuses, healthy : Int]
      BY <1>2, <1>9, <1>10 DEF Statuses
    <2> QED
      BY <2>1, Zenon DEF AnyReport
  <1>12. ReportIsBorneOut(Projection)
    <2>1. /\ Projection.mode = status /\ Projection.at = clock
          /\ Projection.healthy = run.values[2] /\ status \notin {"LOCAL", "BOOTSTRAP"}
          /\ kind # "boundary"
      BY <1>5, <1>9, <1>10
    <2> QED
      BY <1>8, <2>1, Zenon DEF ReportIsBorneOut, ups
  <1> QED
    BY <1>11, <1>12

\* An observation that qualifies is of one collection: its samples are too close to be
\* of two, and the mode is that of this collection (assess).
LEMMA BoundaryReport ==
  ASSUME LiveInv, kind = "boundary", run.reading, Len(run.values) = Len(QUERIES)
  PROVE  Projection \in AnyReport /\ ReportIsBorneOut(Projection)
  <1> DEFINE values == [k \in METRICS |-> Got(k)]
             times == [k \in METRICS |-> Got(TimeOf[k])]
             asked == run.start
             class == IF ~Fresh(values, times, asked) \/ Contradictory(values) THEN INSUFFICIENT
                      ELSE IF values["valid"] # 1 THEN INVALID_STATE ELSE QUALIFIED
             mode == IF class # QUALIFIED THEN "UNVERIFIED"
                     ELSE IF values["local"] = 1 THEN "LOCAL" ELSE "BOOTSTRAP"
  <1>1. /\ QUERIES = <<"collection", "collection_time", "valid", "valid_time",
                       "local", "local_time", "bootstrap", "bootstrap_time">>
        /\ ~Scrapes
        /\ Got("collection") = run.values[1] /\ Got("collection_time") = run.values[2]
        /\ Got("valid") = run.values[3] /\ Got("valid_time") = run.values[4]
        /\ Got("local") = run.values[5] /\ Got("local_time") = run.values[6]
        /\ Got("bootstrap") = run.values[7] /\ Got("bootstrap_time") = run.values[8]
    BY BoundaryAnswers
  <1>2. /\ run.start \in Nat /\ SeriesInv /\ One \in Sources /\ One \in Targets
        /\ \A i \in 1..8 : run.values[i] \in Int
    BY <1>1, AllAnswers, LiveAssumption DEF Sources, LiveInv
  <1>3. PICK d \in [1..8 -> Nat] : Answered(d)
    BY <1>1, AllAnswers
  <1>4. Projection = [at |-> asked, times |-> times, classification |-> class, mode |-> mode]
    BY DEF Projection, observe, assess
  <1>5. /\ values["collection"] = run.values[1] /\ values["valid"] = run.values[3]
        /\ values["local"] = run.values[5] /\ values["bootstrap"] = run.values[7]
    BY <1>1 DEF METRICS
  <1>6. /\ times["collection"] = run.values[2] /\ times["valid"] = run.values[4]
        /\ times["local"] = run.values[6] /\ times["bootstrap"] = run.values[8]
        /\ times \in [METRICS -> Int]
    BY <1>1, <1>2 DEF METRICS, TimeOf
  <1>7. class \in {QUALIFIED, INSUFFICIENT, INVALID_STATE}
        /\ mode \in {"UNVERIFIED", "LOCAL", "BOOTSTRAP"}
    OBVIOUS
  <1>8. class = QUALIFIED \/ mode = "UNVERIFIED"
    OBVIOUS
  <1>9. ASSUME class = QUALIFIED
        PROVE  /\ Fresh(values, times, asked)
               /\ values["valid"] = 1 /\ values["local"] + values["bootstrap"] = 1
               /\ mode = IF values["local"] = 1 THEN "LOCAL" ELSE "BOOTSTRAP"
    <2>1. INSUFFICIENT # QUALIFIED /\ INVALID_STATE # QUALIFIED
      BY DEF INSUFFICIENT, INVALID_STATE, QUALIFIED
    <2>2. /\ Fresh(values, times, asked) /\ ~Contradictory(values) /\ values["valid"] = 1
          /\ mode = IF values["local"] = 1 THEN "LOCAL" ELSE "BOOTSTRAP"
      BY <1>9, <2>1, Zenon
    <2> QED
      BY <2>2 DEF Contradictory
  <1> HIDE DEF values, times, class, mode
  <1>10. asked \in Int
    <2>1. run.start \in Nat
      BY <1>2
    <2>2. \A n \in Nat : n \in Int
      OBVIOUS
    <2> QED
      BY <2>1, <2>2, Zenon
  <1>11. Projection \in AnyReport
    <2>1. Projection \in [at : Int, times : [METRICS -> Int],
                          classification : {QUALIFIED, INSUFFICIENT, INVALID_STATE},
                          mode : {"UNVERIFIED", "LOCAL", "BOOTSTRAP"}]
      <3>1. asked \in Int /\ times \in [METRICS -> Int]
        BY <1>6, <1>10
      <3> HIDE DEF asked
      <3> QED
        BY <1>4, <1>7, <3>1
    <2> QED
      BY <2>1, Zenon DEF AnyReport
  <1>12. ASSUME class = QUALIFIED
         PROVE  /\ Behind(One, mode, asked, TTL_COLLECTION)
                /\ \A j, k \in METRICS : times[j] = times[k]
                /\ \E i \in DOMAIN series[One] :
                     series[One][i].shows = mode /\ series[One][i].at >= times["collection"]
    <2>1. /\ \A i \in 1..8 : run.values[i] # Missing
          /\ asked - run.values[1] <= TTL_COLLECTION
          /\ run.values[8] - run.values[2] <= MAX_SPREAD
      <3>1. /\ \A k \in METRICS : values[k] # Missing /\ times[k] # Missing
            /\ asked - values["collection"] \in -FUTURE_SECONDS..TTL_COLLECTION
            /\ \A j, k \in METRICS : times[j] - times[k] <= MAX_SPREAD
        BY <1>9, <1>12 DEF Fresh
      <3>2. {"collection", "valid", "local", "bootstrap"} = METRICS
        BY DEF METRICS
      <3>3. /\ run.values[1] # Missing /\ run.values[2] # Missing /\ run.values[3] # Missing
            /\ run.values[4] # Missing /\ run.values[5] # Missing /\ run.values[6] # Missing
            /\ run.values[7] # Missing /\ run.values[8] # Missing
        BY <1>5, <1>6, <3>1, <3>2
      <3>4. run.values[8] - run.values[2] <= MAX_SPREAD
        BY <1>6, <3>1, <3>2
      <3>5. asked - run.values[1] <= TTL_COLLECTION
        BY <1>2, <1>5, <3>1, ObservationAssumption
      <3> QED
        BY <3>3, <3>4, <3>5
    <2>2. \A i \in 1..8 : /\ d[i] \in DOMAIN series[One]
                          /\ run.values[i] = Metric(QUERIES[i], series[One][d[i]])
                          /\ \A k \in 1..8 : i <= k => d[i] <= d[k]
      BY <1>2, <1>3, <2>1, OfSample
    <2> DEFINE k == d[2]
    <2>3. d[8] = k
      <3>1. /\ run.values[2] = series[One][k].at /\ run.values[8] = series[One][d[8]].at
            /\ k \in DOMAIN series[One] /\ d[8] \in DOMAIN series[One] /\ k <= d[8]
        BY <1>1, <2>2 DEF Metric
      <3>2. series[One][d[8]].at - series[One][k].at <= Apart
        BY <1>1, <2>1, <3>1 DEF Apart
      <3> QED
        BY <1>2, <3>1, <3>2, Later
    <2>4. \A i \in 2..8 : d[i] = k
      <3>1. \A i \in 2..8 : i \in 1..8 /\ 2 <= i /\ i <= 8 /\ d[i] \in Nat
        BY <1>3, SMTT(30)
      <3>2. \A i \in 2..8 : k <= d[i] /\ d[i] <= k /\ k \in Nat
        BY <1>3, <2>2, <2>3, <3>1, SMTT(30)
      <3> QED
        BY <3>1, <3>2, SMTT(30)
    <2>5. /\ k \in DOMAIN series[One] /\ d[1] \in DOMAIN series[One] /\ d[1] <= k
          /\ run.values[1] = series[One][d[1]].collected
      BY <1>1, <2>2 DEF Metric
    <2>6. /\ run.values[2] = series[One][k].at /\ run.values[4] = series[One][k].at
          /\ run.values[6] = series[One][k].at /\ run.values[8] = series[One][k].at
      BY <1>1, <2>2, <2>4 DEF Metric
    <2>7. \A j \in METRICS : times[j] = series[One][k].at
      BY <1>6, <2>6 DEF METRICS
    <2>8. series[One][k].shows = mode
      <3>1. /\ run.values[5] \in {-1, 0, 1} /\ run.values[7] \in {-1, 0, 1}
            /\ run.values[5] = 1 => series[One][d[5]].shows = "LOCAL"
            /\ run.values[7] = 1 => series[One][d[7]].shows = "BOOTSTRAP"
        BY <1>1, <1>2, <1>3, OfFlag DEF Missing
      <3>2. run.values[5] + run.values[7] = 1
        BY <1>5, <1>9, <1>12
      <3>3. run.values[5] = 1 \/ run.values[7] = 1
        <4> DEFINE u == run.values[5]
                   v == run.values[7]
        <4>1. u \in {-1, 0, 1} /\ v \in {-1, 0, 1} /\ u + v = 1
          BY <3>1, <3>2
        <4> HIDE DEF u, v
        <4>2. u = 1 \/ v = 1
          BY <4>1, SMTT(30)
        <4> QED
          BY <4>2 DEF u, v
      <3>4. mode = IF run.values[5] = 1 THEN "LOCAL" ELSE "BOOTSTRAP"
        BY <1>5, <1>9, <1>12
      <3>5. d[5] = k /\ d[7] = k
        BY <2>4
      <3> QED
        BY <3>1, <3>3, <3>4, <3>5
    <2>9. Behind(One, mode, asked, TTL_COLLECTION)
      <3> DEFINE first == series[One][d[1]].collected
                 later == series[One][k].collected
      <3>1. /\ first \in Int /\ later \in Int /\ asked \in Int /\ TTL_COLLECTION \in Int
            /\ first <= later
        <4>1. first \in Int /\ later \in Int
          BY <1>2, <2>5, SampleTypes
        <4>2. first <= later
          BY <1>2, <2>5, Later
        <4>3. asked \in Int /\ TTL_COLLECTION \in Int
          BY <1>10, ObservationAssumption
        <4> QED
          BY <4>1, <4>2, <4>3
      <3>2. asked - first <= TTL_COLLECTION
        BY <2>1, <2>5
      <3>3. asked - later <= TTL_COLLECTION
        <4> HIDE DEF first, later, asked
        <4> QED
          BY <3>1, <3>2
      <3> QED
        BY <2>5, <2>8, <3>3, Zenon DEF Behind
    <2>10. times["collection"] = series[One][k].at /\ series[One][k].at \in Nat
      BY <1>2, <2>5, <2>7, SampleTypes DEF METRICS
    <2>11. series[One][k].at >= times["collection"]
      BY <2>10, SMTT(30)
    <2> QED
      BY <2>5, <2>7, <2>8, <2>9, <2>11, Zenon
  <1>13. ReportIsBorneOut(Projection)
    <2>1. /\ Projection.at = asked /\ Projection.times = times
          /\ Projection.classification = class /\ Projection.mode = mode
      BY <1>4
    <2>2. FreshLimit = TTL_COLLECTION
      BY DEF FreshLimit
    <2>3. mode \in {"LOCAL", "BOOTSTRAP"} => class = QUALIFIED
      BY <1>8
    <2> QED
      BY <1>1, <1>12, <2>1, <2>2, <2>3, Zenon DEF ReportIsBorneOut
  <1> QED
    BY <1>11, <1>13

LEMMA ReportKeepsInv ==
  ASSUME LiveInv, Report
  PROVE  LiveInv'
  <1>1. /\ run.reading /\ Len(run.values) = Len(QUERIES)
        /\ run' = Idle /\ reports' = Append(reports, Projection)
        /\ UNCHANGED <<clock, series, kind>>
    BY DEF Report
  <1>2. kind = "guard" \/ kind = "boundary" \/ Scrapes
    BY DEF LiveInv, Kinds, Scrapes
  <1>3. Projection \in AnyReport /\ ReportIsBorneOut(Projection)
    BY <1>1, <1>2, GuardReport, BoundaryReport, ScrapesReport
  <1> QED
    BY <1>1, <1>3, OneMoreReport

-----------------------------------------------------------------------------
(* The reader.                                                             *)

\* The invariant holds from the start of a reader, and every step keeps it.
THEOREM LiveInvariant == LiveSpec => []LiveInv
  <1>1. LiveInit => LiveInv
    <2> SUFFICES ASSUME LiveInit PROVE LiveInv
      OBVIOUS
    <2>1. /\ clock = 1 /\ series = [t \in Targets |-> <<>>] /\ kind \in Kinds
          /\ run = [reading |-> FALSE, start |-> 0, values |-> <<>>] /\ reports = <<>>
      BY DEF LiveInit, Idle
    <2>2. \A t \in Sources : DOMAIN series[t] = {}
      BY <2>1, LiveAssumption DEF Sources
    <2>3. SeriesInv
      BY <2>1, <2>2 DEF SeriesInv
    <2>4. ~run.reading /\ run \in [reading : BOOLEAN, start : Nat, values : Seq(Int)]
      BY <2>1
    <2>5. ReadInv /\ SampledInv /\ HealthyInv
      BY <2>4 DEF ReadInv, SampledInv, HealthyInv
    <2>6. ReportsInv
      BY <2>1 DEF ReportsInv
    <2> QED
      BY <2>1, <2>3, <2>5, <2>6 DEF LiveInv
  <1>2. LiveInv /\ [LiveNext]_lvars => LiveInv'
    <2> SUFFICES ASSUME LiveInv, [LiveNext]_lvars PROVE LiveInv'
      OBVIOUS
    <2>1. CASE LiveNext
      BY <2>1, PassKeepsInv, IngestKeepsInv, BeginKeepsInv, QueryKeepsInv,
         QueryFailsKeepsInv, ReportKeepsInv DEF LiveNext
    <2>2. CASE UNCHANGED lvars
      <3>1. UNCHANGED <<clock, series, kind>> /\ run' = run /\ reports' = reports
        BY <2>2 DEF lvars
      <3>2. /\ SeriesInv' /\ kind' \in Kinds /\ Sources' = Sources /\ Scrapes' = Scrapes
            /\ QUERIES' = QUERIES
            /\ \A q : ReportIsBorneOut(q) => ReportIsBorneOut(q)'
        BY <3>1, StillKeepsReports
      <3>3. ReadInv'
        BY <3>1, <3>2, Zenon DEF LiveInv, ReadInv
      <3>4. Moment' = Moment /\ \A d : Answered(d)' <=> Answered(d)
        BY <3>1, <3>2, Zenon DEF Answered, Moment
      <3>5. SampledInv' /\ HealthyInv'
        BY <3>1, <3>2, <3>4, Zenon DEF LiveInv, SampledInv, HealthyInv, Behind
      <3>6. ReportsInv'
        BY <3>1, <3>2 DEF LiveInv, ReportsInv
      <3> QED
        BY <3>2, <3>3, <3>5, <3>6 DEF LiveInv
    <2> QED
      BY <2>1, <2>2
  <1> QED
    BY <1>1, <1>2, PTL DEF LiveSpec

\* A mode that is claimed was that of DNS Guard at a collection younger than the
\* reader's limit, and as many targets as are called healthy were up within it, for
\* any series of samples and any interleaving of them with the queries.
THEOREM ClaimsAreFresh == LiveSpec => []ClaimIsFresh
  <1>1. LiveInv => ClaimIsFresh
    BY DEF LiveInv, ReportsInv, ReportIsBorneOut, ClaimIsFresh
  <1> QED
    BY <1>1, LiveInvariant, PTL

\* Two observations that compare calls distinct are of two collections: the mode of
\* the second was collected after everything that the first has seen.
THEOREM DistinctObservationsAreNewer == LiveSpec => []DistinctMeansNewer
  <1>1. ASSUME LiveInv PROVE DistinctMeansNewer
    <2> DEFINE first == reports[1]
               second == reports[2]
    <2> SUFFICES ASSUME kind = "boundary", Len(reports) = 2,
                        compare(first, second) = "TWO_DISTINCT"
                 PROVE  \E i \in DOMAIN series[One] :
                          /\ series[One][i].shows = second.mode
                          /\ \A k \in METRICS : series[One][i].at > first.times[k]
      BY DEF DistinctMeansNewer
    <2>1. /\ first.classification = QUALIFIED /\ second.classification = QUALIFIED
          /\ METRICS \subseteq Advanced(first, second)
      BY DEF compare
    <2>2. /\ 1 \in DOMAIN reports /\ 2 \in DOMAIN reports
          /\ first \in AnyReport /\ second \in AnyReport
          /\ ReportIsBorneOut(first) /\ ReportIsBorneOut(second)
      BY <1>1 DEF LiveInv, ReportsInv
    <2> HIDE DEF first, second
    <2>3. /\ \A j, k \in METRICS : first.times[j] = first.times[k]
          /\ second.times["collection"] > first.times["collection"]
      BY <2>1, <2>2 DEF ReportIsBorneOut, Advanced, METRICS
    <2>4. PICK i \in DOMAIN series[One] :
            /\ series[One][i].shows = second.mode
            /\ series[One][i].at >= second.times["collection"]
      BY <2>1, <2>2 DEF ReportIsBorneOut
    <2>5. /\ first.times["collection"] \in Int /\ second.times["collection"] \in Int
          /\ series[One][i].at \in Int
      <3>1. first.times \in [METRICS -> Int] /\ second.times \in [METRICS -> Int]
        <4>1. \A s \in Statuses : s # QUALIFIED
          BY DEF Statuses, QUALIFIED
        <4> QED
          BY <2>1, <2>2, <4>1 DEF AnyReport
      <3>2. series[One][i].at \in Nat
        BY <1>1, LiveAssumption, SampleTypes DEF LiveInv
      <3> QED
        BY <3>1, <3>2 DEF METRICS
    <2>6. series[One][i].at > first.times["collection"]
      BY <2>3, <2>4, <2>5
    <2>7. \A k \in METRICS : series[One][i].at > first.times[k]
      BY <2>3, <2>6, Zenon DEF METRICS
    <2> QED
      BY <2>4, <2>7
  <1> QED
    BY <1>1, LiveInvariant, PTL

-----------------------------------------------------------------------------
(* DnsEvents: the loop over the rows.                                      *)

Before == [events |-> <<>>, previous |-> <<>>, boot |-> NoWindow]

\* st has the state of the loop before the first row and after each of the first n.
IsLoop(st, input, n) ==
  st = [k \in 0..n |-> IF k = 0 THEN Before ELSE TakeRow(st[k - 1], input[k])]

LEMMA LoopExists ==
  ASSUME NEW input, NEW n \in Nat
  PROVE  \E st : IsLoop(st, input, n)
  <1> DEFINE bad == {k \in Nat : ~(\E st : IsLoop(st, input, k))}
  <1> SUFFICES ASSUME bad # {} PROVE FALSE
    OBVIOUS
  <1>1. PICK m \in bad : \A k \in bad : m <= k
    <2>1. bad \subseteq Nat
      OBVIOUS
    <2> HIDE DEF bad
    <2> QED
      BY <2>1, LeastNumber
  <1>2. m \in Nat /\ ~(\E st : IsLoop(st, input, m))
    OBVIOUS
  <1>3. CASE m = 0
    <2>1. IsLoop([k \in 0..0 |-> Before], input, 0)
      BY DEF IsLoop
    <2> QED
      BY <1>2, <1>3, <2>1
  <1>4. CASE m # 0
    <2>1. m - 1 \in Nat /\ m - 1 \notin bad
      BY <1>1, <1>2, <1>4
    <2>2. PICK st : IsLoop(st, input, m - 1)
      BY <2>1
    <2> DEFINE next == [k \in 0..m |-> IF k = m THEN TakeRow(st[m - 1], input[m]) ELSE st[k]]
    <2>3. \A k \in 0..(m - 1) : st[k] = IF k = 0 THEN Before ELSE TakeRow(st[k - 1], input[k])
      BY <2>2 DEF IsLoop
    <2>4. ASSUME NEW k \in 0..m
          PROVE  next[k] = IF k = 0 THEN Before ELSE TakeRow(next[k - 1], input[k])
      <3>1. CASE k = m
        <4>1. next[m] = TakeRow(st[m - 1], input[m]) /\ next[m - 1] = st[m - 1]
          BY <1>2, <1>4
        <4> QED
          BY <1>4, <3>1, <4>1
      <3>2. CASE k # m /\ k # 0
        <4>1. next[k] = st[k] /\ next[k - 1] = st[k - 1] /\ k \in 0..(m - 1)
          BY <1>2, <1>4, <3>2
        <4> HIDE DEF next
        <4> QED
          BY <2>3, <3>2, <4>1
      <3>3. CASE k # m /\ k = 0
        <4>1. next[k] = st[k] /\ k \in 0..(m - 1)
          BY <1>2, <1>4, <3>3
        <4> HIDE DEF next
        <4> QED
          BY <2>3, <3>3, <4>1
      <3> QED
        BY <3>1, <3>2, <3>3
    <2>5. next = [k \in 0..m |-> next[k]]
      OBVIOUS
    <2>6. IsLoop(next, input, m)
      <3> HIDE DEF next
      <3>1. [k \in 0..m |-> next[k]]
              = [k \in 0..m |-> IF k = 0 THEN Before ELSE TakeRow(next[k - 1], input[k])]
        BY <2>4
      <3> QED
        BY <2>5, <3>1, Zenon DEF IsLoop
    <2> QED
      BY <1>2, <2>6
  <1> QED
    BY <1>3, <1>4

LEMMA LoopSteps ==
  ASSUME NEW input, Len(input) \in Nat
  PROVE  /\ Loop(input)[0] = Before
         /\ \A n \in 1..Len(input) :
              Loop(input)[n] = TakeRow(Loop(input)[n - 1], input[n])
  <1> DEFINE st == CHOOSE st : IsLoop(st, input, Len(input))
  <1>1. IsLoop(st, input, Len(input))
    BY LoopExists, Zenon
  <1>2. Loop(input) = st
    BY Zenon DEF Loop, IsLoop, Before
  <1> HIDE DEF st
  <1>3. \A k \in 0..Len(input) :
          st[k] = IF k = 0 THEN Before ELSE TakeRow(st[k - 1], input[k])
    BY <1>1 DEF IsLoop
  <1>4. 0 \in 0..Len(input) /\ \A n \in 1..Len(input) : n \in 0..Len(input) /\ n # 0
    OBVIOUS
  <1> QED
    BY <1>2, <1>3, <1>4

-----------------------------------------------------------------------------
(* What the loop knows of the rows it has claims from.                     *)

AnyRow == [at : Nat, mode : {"LOCAL", "BOOTSTRAP", "INVALID"},
           last : Nat, since : Nat, total : Nat]

AnyEvent ==
  [kind : {"UNKNOWN"}, code : {"SAMPLE", "SAME", "ORDER", "RESET", "GAP", "MISSED"},
   from : {None}, to : Int]
  \cup [kind : {"BOOTSTRAP"}, from : Nat, to : Nat, reported : Int,
        code : {"UNCORROBORATED", "START_UNRECORDED", "OBSERVED"}]
  \cup [kind : {"LOCAL"}, from : Nat, to : Nat, reported : Int, lower : Int, upper : Int]

\* The rows of S show an operation on the provider's DNS that ends at to and began
\* between some row and the row first, with no change of the counter in between.
Opened(S, first, begin, total) ==
  /\ first.mode = "BOOTSTRAP" /\ first.total = total
  /\ begin # None => \E b \in S : b.mode = "LOCAL" /\ b.at < first.at /\ b.at = begin

EventHolds(S, e) ==
  e.kind # "UNKNOWN" =>
    \E p, r \in S :
      /\ p.mode # r.mode /\ r.mode = e.kind
      /\ p.mode \in {"LOCAL", "BOOTSTRAP"} /\ r.mode \in {"LOCAL", "BOOTSTRAP"}
      /\ p.at < r.at /\ e.from = p.at /\ e.to = r.at
      /\ e.kind = "LOCAL" /\ e.lower # None =>
           \E first \in S : \E begin \in Int :
             /\ Opened(S, first, begin, r.total)
             /\ first.at <= p.at /\ e.lower = p.at - first.at
             /\ e.upper = IF begin = None THEN None ELSE r.at - begin

WindowHolds(S, boot, p) ==
  boot # NoWindow =>
    /\ p.mode = "BOOTSTRAP"
    /\ \E first \in S : \E begin \in Int :
         /\ boot = <<begin, first.at, p.at>>
         /\ Opened(S, first, begin, p.total) /\ first.at <= p.at

PreviousHolds(S, st) ==
  \/ st.previous = <<>> /\ st.boot = NoWindow
  \/ \E p \in S : st.previous = <<p>> /\ _sample(p) /\ WindowHolds(S, st.boot, p)

LoopState == [events : Seq(AnyEvent), previous : Seq(AnyRow), boot : Seq(Int)]

StateHolds(S, st) ==
  /\ st \in LoopState
  /\ \A k \in DOMAIN st.events : EventHolds(S, st.events[k])
  /\ PreviousHolds(S, st)

LEMMA AppendedHolds ==
  ASSUME NEW S, NEW events \in Seq(AnyEvent), NEW e \in AnyEvent, EventHolds(S, e),
         \A k \in DOMAIN events : EventHolds(S, events[k])
  PROVE  /\ Append(events, e) \in Seq(AnyEvent)
         /\ \A k \in DOMAIN Append(events, e) : EventHolds(S, Append(events, e)[k])
  <1> DEFINE any == AnyEvent
  <1>1. events \in Seq(any) /\ e \in any
    OBVIOUS
  <1> HIDE DEF any
  <1>2. /\ Append(events, e) \in Seq(any) /\ Len(events) \in Nat
        /\ DOMAIN events = 1..Len(events)
        /\ DOMAIN Append(events, e) = 1..(Len(events) + 1)
        /\ \A k \in 1..(Len(events) + 1) :
             Append(events, e)[k] = IF k = Len(events) + 1 THEN e ELSE events[k]
    BY <1>1
  <1>3. ASSUME NEW k \in DOMAIN Append(events, e) PROVE EventHolds(S, Append(events, e)[k])
    <2>1. CASE k = Len(events) + 1
      BY <1>2, <2>1
    <2>2. CASE k # Len(events) + 1
      <3>1. k \in DOMAIN events /\ Append(events, e)[k] = events[k]
        BY <1>2, <2>2
      <3> QED
        BY <3>1
    <2> QED
      BY <2>1, <2>2
  <1> QED
    BY <1>2, <1>3 DEF any

\* What is not sure is an event of its own, and the loop begins again.
LEMMA UnsureHolds ==
  ASSUME NEW S, S \subseteq AnyRow, NEW st, StateHolds(S, st), NEW at \in Int,
         NEW code \in {"SAMPLE", "SAME", "ORDER", "RESET", "GAP", "MISSED"}
  PROVE  /\ StateHolds(S, Lose(st, Unsure(code, at)))
         /\ \A row \in S : _sample(row) => StateHolds(S, StartAgain(st, row, Unsure(code, at)))
  <1> DEFINE e == Unsure(code, at)
             events == Append(st.events, e)
  <1>1. e \in AnyEvent /\ e.kind = "UNKNOWN"
    BY DEF Unsure, AnyEvent, None
  <1> HIDE DEF e
  <1>2. st.events \in Seq(AnyEvent) /\ \A k \in DOMAIN st.events : EventHolds(S, st.events[k])
    BY DEF StateHolds, LoopState
  <1>3. events \in Seq(AnyEvent) /\ \A k \in DOMAIN events : EventHolds(S, events[k])
    <2>1. EventHolds(S, e)
      BY <1>1 DEF EventHolds
    <2> QED
      BY <1>1, <1>2, <2>1, AppendedHolds
  <1> HIDE DEF events
  <1>4. StateHolds(S, Lose(st, e))
    BY <1>3 DEF StateHolds, LoopState, Lose, PreviousHolds, NoWindow, events
  <1>5. ASSUME NEW row \in S, _sample(row) PROVE StateHolds(S, StartAgain(st, row, e))
    <2> DEFINE next == StartAgain(st, row, e)
    <2>1. next = [events |-> events, previous |-> <<row>>, boot |-> OpenWindow(row)]
      BY DEF StartAgain, events
    <2>2. row \in AnyRow /\ row.at \in Nat
      BY DEF AnyRow
    <2>3. /\ OpenWindow(row) \in Seq(Int)
          /\ WindowHolds(S, OpenWindow(row), row)
      <3>1. CASE row.mode = "BOOTSTRAP"
        <4>1. OpenWindow(row) = <<None, row.at, row.at>>
          BY <3>1 DEF OpenWindow
        <4>2. Opened(S, row, None, row.total) /\ None \in Int /\ row.at <= row.at
          BY <2>2, <3>1 DEF Opened, None
        <4> QED
          BY <2>2, <3>1, <4>1, <4>2 DEF WindowHolds
      <3>2. CASE row.mode # "BOOTSTRAP"
        BY <3>2 DEF OpenWindow, WindowHolds, NoWindow
      <3> QED
        BY <3>1, <3>2
    <2> HIDE DEF next
    <2>4. next \in LoopState
      BY <1>3, <2>1, <2>2, <2>3 DEF LoopState
    <2>5. PreviousHolds(S, next)
      BY <1>5, <2>1, <2>3 DEF PreviousHolds
    <2> QED
      BY <1>3, <2>1, <2>4, <2>5 DEF StateHolds, next
  <1> QED
    BY <1>4, <1>5 DEF e

\* A row of the mode before goes on with the window, if there is one.
LEMMA StayedHolds ==
  ASSUME NEW S, S \subseteq AnyRow, NEW st, StateHolds(S, st), NEW p \in S, NEW row \in S,
         st.previous = <<p>>, _sample(p), WindowHolds(S, st.boot, p), _sample(row),
         p.at < row.at, p.mode = row.mode, p.total = row.total
  PROVE  IF row.mode = "BOOTSTRAP"
           THEN StateHolds(S, StayedBack(st, p, row))
           ELSE StateHolds(S, [st EXCEPT !.previous = <<row>>])
  <1>1. /\ st \in LoopState /\ st.events \in Seq(AnyEvent)
        /\ \A k \in DOMAIN st.events : EventHolds(S, st.events[k])
    BY DEF StateHolds, LoopState
  <1>2. p \in AnyRow /\ row \in AnyRow /\ p.at \in Nat /\ row.at \in Nat
    BY DEF AnyRow
  <1>3. ASSUME NEW next, NEW boot \in Seq(Int), WindowHolds(S, boot, row),
               next = [events |-> st.events, previous |-> <<row>>, boot |-> boot]
        PROVE  StateHolds(S, next)
    <2>1. next \in LoopState
      BY <1>1, <1>2, <1>3 DEF LoopState
    <2>2. PreviousHolds(S, next)
      BY <1>3 DEF PreviousHolds
    <2> QED
      BY <1>1, <1>3, <2>1, <2>2 DEF StateHolds
  <1>4. CASE row.mode # "BOOTSTRAP"
    <2>1. st.boot = NoWindow
      BY <1>4 DEF WindowHolds
    <2>2. [st EXCEPT !.previous = <<row>>]
            = [events |-> st.events, previous |-> <<row>>, boot |-> NoWindow]
      BY <1>1, <2>1 DEF LoopState
    <2>3. WindowHolds(S, NoWindow, row) /\ NoWindow \in Seq(Int)
      BY DEF WindowHolds, NoWindow
    <2> QED
      BY <1>3, <1>4, <2>2, <2>3
  <1>5. CASE row.mode = "BOOTSTRAP"
    <2> DEFINE boot == IF st.boot = NoWindow THEN <<None, p.at, row.at>>
                       ELSE <<st.boot[1], st.boot[2], row.at>>
    <2>1. StayedBack(st, p, row)
            = [events |-> st.events, previous |-> <<row>>, boot |-> boot]
      BY DEF StayedBack
    <2>2. boot \in Seq(Int) /\ WindowHolds(S, boot, row)
      <3>1. CASE st.boot = NoWindow
        <4>1. boot = <<None, p.at, row.at>> /\ None \in Int
          BY <3>1 DEF None
        <4>2. Opened(S, p, None, row.total)
          BY <1>5 DEF Opened
        <4> QED
          BY <1>2, <1>5, <4>1, <4>2 DEF WindowHolds
      <3>2. CASE st.boot # NoWindow
        <4>1. PICK first \in S, begin \in Int :
                /\ st.boot = <<begin, first.at, p.at>>
                /\ Opened(S, first, begin, p.total) /\ first.at <= p.at
          BY <3>2 DEF WindowHolds
        <4>2. first.at \in Nat
          BY DEF AnyRow
        <4>3. boot = <<begin, first.at, row.at>> /\ first.at <= row.at
          BY <1>2, <3>2, <4>1, <4>2
        <4> HIDE DEF boot
        <4> QED
          BY <1>2, <1>5, <4>1, <4>2, <4>3 DEF WindowHolds
      <3> QED
        BY <3>1, <3>2
    <2> HIDE DEF boot
    <2> QED
      BY <1>3, <1>5, <2>1, <2>2
  <1> QED
    BY <1>4, <1>5

\* A change to BOOTSTRAP opens a window.
LEMMA FellBackHolds ==
  ASSUME NEW S, S \subseteq AnyRow, NEW st, StateHolds(S, st), NEW p \in S, NEW row \in S,
         _sample(p), _sample(row), p.at < row.at, p.mode = "LOCAL", row.mode = "BOOTSTRAP"
  PROVE  StateHolds(S, FellBack(st, p, row))
  <1>1. /\ st.events \in Seq(AnyEvent)
        /\ \A k \in DOMAIN st.events : EventHolds(S, st.events[k])
    BY DEF StateHolds, LoopState
  <1>2. /\ p \in AnyRow /\ row \in AnyRow /\ p.at \in Nat /\ row.at \in Nat
        /\ row.last \in Nat
    BY DEF AnyRow
  <1> DEFINE e == [kind |-> "BOOTSTRAP", from |-> p.at, to |-> row.at,
                   reported |-> Reported(p, row),
                   code |-> IF row.total # p.total + 1 THEN "UNCORROBORATED"
                            ELSE IF row.since = 0 THEN "START_UNRECORDED" ELSE "OBSERVED"]
             boot == <<p.at, row.at, row.at>>
             next == [events |-> Append(st.events, e), previous |-> <<row>>, boot |-> boot]
  <1>3. e \in AnyEvent
    <2>1. Reported(p, row) \in Int
      BY <1>2 DEF Reported, None
    <2> QED
      BY <1>2, <2>1 DEF AnyEvent
  <1>4. EventHolds(S, e)
    BY <1>2 DEF EventHolds
  <1>5. FellBack(st, p, row) = next
    BY DEF FellBack
  <1> HIDE DEF e
  <1>6. /\ Append(st.events, e) \in Seq(AnyEvent)
        /\ \A k \in DOMAIN Append(st.events, e) : EventHolds(S, Append(st.events, e)[k])
    BY <1>1, <1>3, <1>4, AppendedHolds
  <1>7. boot \in Seq(Int) /\ WindowHolds(S, boot, row)
    <2>1. Opened(S, row, p.at, row.total)
      BY <1>2 DEF Opened
    <2>2. row.at <= row.at /\ p.at \in Int
      BY <1>2
    <2> QED
      BY <1>2, <2>1, <2>2 DEF WindowHolds
  <1> HIDE DEF boot
  <1>8. next \in LoopState /\ PreviousHolds(S, next)
    BY <1>2, <1>6, <1>7 DEF LoopState, PreviousHolds
  <1> QED
    BY <1>5, <1>6, <1>8 DEF StateHolds

\* A change back to LOCAL closes it, with what was known of it.
LEMMA RestoredHolds ==
  ASSUME NEW S, S \subseteq AnyRow, NEW st, StateHolds(S, st), NEW p \in S, NEW row \in S,
         _sample(p), WindowHolds(S, st.boot, p), _sample(row), p.at < row.at,
         p.mode = "BOOTSTRAP", row.mode = "LOCAL", p.total = row.total
  PROVE  StateHolds(S, Restored(st, p, row))
  <1>1. /\ st.events \in Seq(AnyEvent)
        /\ \A k \in DOMAIN st.events : EventHolds(S, st.events[k])
    BY DEF StateHolds, LoopState
  <1>2. /\ p \in AnyRow /\ row \in AnyRow /\ p.at \in Nat /\ row.at \in Nat
        /\ row.last \in Nat
    BY DEF AnyRow
  <1> DEFINE lower == IF st.boot = NoWindow THEN None ELSE st.boot[3] - st.boot[2]
             upper == IF st.boot = NoWindow \/ st.boot[1] = None THEN None
                      ELSE row.at - st.boot[1]
             e == [kind |-> "LOCAL", from |-> p.at, to |-> row.at,
                   reported |-> Reported(p, row), lower |-> lower, upper |-> upper]
             next == [events |-> Append(st.events, e), previous |-> <<row>>,
                      boot |-> NoWindow]
  <1>3. /\ lower \in Int /\ upper \in Int
        /\ lower # None =>
             \E first \in S : \E begin \in Int :
               /\ Opened(S, first, begin, row.total)
               /\ first.at <= p.at /\ lower = p.at - first.at
               /\ upper = IF begin = None THEN None ELSE row.at - begin
    <2>1. CASE st.boot = NoWindow
      BY <2>1 DEF None
    <2>2. CASE st.boot # NoWindow
      <3>1. PICK first \in S, begin \in Int :
              /\ st.boot = <<begin, first.at, p.at>>
              /\ Opened(S, first, begin, p.total) /\ first.at <= p.at
        BY <2>2 DEF WindowHolds
      <3>2. first.at \in Nat
        BY DEF AnyRow
      <3>3. st.boot[1] = begin /\ st.boot[2] = first.at /\ st.boot[3] = p.at
        BY <3>1
      <3>4. lower = p.at - first.at /\ upper = IF begin = None THEN None ELSE row.at - begin
        BY <2>2, <3>3
      <3>5. lower \in Int /\ upper \in Int
        BY <1>2, <3>2, <3>4 DEF None
      <3> HIDE DEF lower, upper
      <3> QED
        BY <3>1, <3>4, <3>5
    <2> QED
      BY <2>1, <2>2
  <1>4. Restored(st, p, row) = next
    BY DEF Restored
  <1> HIDE DEF lower, upper
  <1>5. e \in AnyEvent
    <2>1. Reported(p, row) \in Int
      BY <1>2 DEF Reported, None
    <2> QED
      BY <1>2, <1>3, <2>1 DEF AnyEvent
  <1>6. EventHolds(S, e)
    BY <1>2, <1>3 DEF EventHolds
  <1> HIDE DEF e
  <1>7. /\ Append(st.events, e) \in Seq(AnyEvent)
        /\ \A k \in DOMAIN Append(st.events, e) : EventHolds(S, Append(st.events, e)[k])
    BY <1>1, <1>5, <1>6, AppendedHolds
  <1>8. next \in LoopState /\ PreviousHolds(S, next)
    BY <1>2, <1>7 DEF LoopState, PreviousHolds, WindowHolds, NoWindow
  <1> QED
    BY <1>4, <1>7, <1>8 DEF StateHolds

\* Compare, by what it finds.
LEMMA CompareHolds ==
  ASSUME NEW S, S \subseteq AnyRow, NEW st, StateHolds(S, st), NEW p \in S, NEW row \in S,
         st.previous = <<p>>, _sample(p), WindowHolds(S, st.boot, p), _sample(row)
  PROVE  StateHolds(S, Compare(st, p, row))
  <1>1. /\ p.at \in Nat /\ row.at \in Nat /\ p.total \in Nat /\ row.total \in Nat
        /\ p.mode \in {"LOCAL", "BOOTSTRAP"} /\ row.mode \in {"LOCAL", "BOOTSTRAP"}
    BY DEF AnyRow, _sample
  <1>2. \A code \in {"SAMPLE", "SAME", "ORDER", "RESET", "GAP", "MISSED"} :
          /\ StateHolds(S, Lose(st, Unsure(code, row.at)))
          /\ StateHolds(S, StartAgain(st, row, Unsure(code, row.at)))
    <2>1. row.at \in Int
      BY <1>1
    <2> QED
      BY <2>1, UnsureHolds, Zenon
  <1>3. CASE row = p
    <2>1. Compare(st, p, row) = st
      BY <1>1, <1>3 DEF Compare
    <2> QED
      BY <2>1
  <1>4. CASE row # p /\ row.at = p.at
    <2>1. Compare(st, p, row) = Lose(st, Unsure("SAME", row.at))
      BY <1>1, <1>4 DEF Compare
    <2> QED
      BY <1>2, <2>1
  <1>5. CASE row.at < p.at
    <2>1. Compare(st, p, row) = Lose(st, Unsure("ORDER", row.at))
      BY <1>1, <1>5 DEF Compare
    <2> QED
      BY <1>2, <2>1
  <1>6. CASE row.at > p.at
    <2> DEFINE next == Compare(st, p, row)
    <2>1. next = IF row.total < p.total THEN StartAgain(st, row, Unsure("RESET", row.at))
                 ELSE IF row.at - p.at > MAX_GAP
                   THEN StartAgain(st, row, Unsure("GAP", row.at))
                 ELSE IF Missed(p, row) THEN StartAgain(st, row, Unsure("MISSED", row.at))
                 ELSE IF row.mode = p.mode
                   THEN (IF row.mode = "BOOTSTRAP" THEN StayedBack(st, p, row)
                         ELSE [st EXCEPT !.previous = <<row>>])
                 ELSE IF row.mode = "BOOTSTRAP" THEN FellBack(st, p, row)
                 ELSE Restored(st, p, row)
      BY <1>1, <1>6 DEF Compare
    <2> SUFFICES StateHolds(S, next)
      OBVIOUS
    <2> HIDE DEF next
    <2>2. CASE row.total < p.total \/ row.at - p.at > MAX_GAP \/ Missed(p, row)
      BY <1>2, <2>1, <2>2
    <2>3. CASE ~(row.total < p.total \/ row.at - p.at > MAX_GAP \/ Missed(p, row))
      <3>1. row.mode = p.mode \/ row.mode = "LOCAL" => p.total = row.total
        BY <1>1, <2>3 DEF Missed
      <3>2. CASE row.mode = p.mode
        <4>1. IF row.mode = "BOOTSTRAP" THEN StateHolds(S, StayedBack(st, p, row))
              ELSE StateHolds(S, [st EXCEPT !.previous = <<row>>])
          BY <1>1, <1>6, <3>1, <3>2, StayedHolds
        <4> QED
          BY <2>1, <2>3, <3>2, <4>1
      <3>3. CASE row.mode # p.mode /\ row.mode = "BOOTSTRAP"
        <4>1. p.mode = "LOCAL"
          BY <1>1, <3>3
        <4>2. StateHolds(S, FellBack(st, p, row))
          BY <1>1, <1>6, <3>3, <4>1, FellBackHolds
        <4> QED
          BY <2>1, <2>3, <3>3, <4>2
      <3>4. CASE row.mode # p.mode /\ row.mode # "BOOTSTRAP"
        <4>1. p.mode = "BOOTSTRAP" /\ row.mode = "LOCAL"
          BY <1>1, <3>4
        <4>2. StateHolds(S, Restored(st, p, row))
          BY <1>1, <1>6, <3>1, <4>1, RestoredHolds
        <4> QED
          BY <2>1, <2>3, <3>4, <4>2
      <3> QED
        BY <3>2, <3>3, <3>4
    <2> QED
      BY <2>2, <2>3
  <1> QED
    BY <1>1, <1>3, <1>4, <1>5, <1>6

LEMMA TakeRowHolds ==
  ASSUME NEW S, S \subseteq AnyRow, NEW st, StateHolds(S, st), NEW row \in S
  PROVE  StateHolds(S, TakeRow(st, row))
  <1>1. CASE ~_sample(row)
    <2>1. TakeRow(st, row) = Lose(st, Unsure("SAMPLE", None))
      BY <1>1 DEF TakeRow
    <2> QED
      BY <2>1, UnsureHolds DEF None
  <1>2. CASE _sample(row) /\ st.previous = <<>>
    <2> DEFINE next == [events |-> st.events, previous |-> <<row>>, boot |-> OpenWindow(row)]
    <2>1. TakeRow(st, row) = next
      BY <1>2 DEF TakeRow, StateHolds, LoopState
    <2>2. StartAgain(st, row, Unsure("GAP", 0))
            = [events |-> Append(st.events, Unsure("GAP", 0)), previous |-> <<row>>,
               boot |-> OpenWindow(row)]
      BY DEF StartAgain
    <2> DEFINE other == StartAgain(st, row, Unsure("GAP", 0))
    <2>3. StateHolds(S, other)
      BY <1>2, UnsureHolds
    <2>4. other.previous = next.previous /\ other.boot = next.boot
      BY <2>2
    <2>5. PreviousHolds(S, other) /\ other \in LoopState
      BY <2>3 DEF StateHolds
    <2> HIDE DEF other
    <2>6. PreviousHolds(S, next)
      BY <2>4, <2>5 DEF PreviousHolds
    <2>7. next.previous \in Seq(AnyRow) /\ next.boot \in Seq(Int)
      BY <2>4, <2>5 DEF LoopState
    <2>8. next \in LoopState
      BY <2>7 DEF LoopState, StateHolds
    <2> QED
      BY <2>1, <2>6, <2>8 DEF StateHolds
  <1>3. CASE _sample(row) /\ st.previous # <<>>
    <2>1. PICK p \in S : st.previous = <<p>> /\ _sample(p) /\ WindowHolds(S, st.boot, p)
      BY <1>3 DEF StateHolds, PreviousHolds
    <2>2. TakeRow(st, row) = Compare(st, p, row)
      BY <1>3, <2>1 DEF TakeRow
    <2> QED
      BY <1>3, <2>1, <2>2, CompareHolds
  <1> QED
    BY <1>1, <1>2, <1>3

\* Every event of the loop holds of the rows that it was given.
LEMMA LoopHolds ==
  ASSUME NEW input \in Seq(AnyRow), NEW n \in 0..Len(input)
  PROVE  StateHolds({input[i] : i \in DOMAIN input}, Loop(input)[n])
  <1> DEFINE S == {input[i] : i \in DOMAIN input}
             holds(k) == StateHolds(S, Loop(input)[k])
  <1>1. S \subseteq AnyRow /\ Len(input) \in Nat
    OBVIOUS
  <1>2. holds(0)
    <2>1. Before \in LoopState /\ Before.events = <<>> /\ Before.previous = <<>>
          /\ Before.boot = NoWindow
      BY DEF Before, LoopState, NoWindow
    <2> QED
      BY <1>1, <2>1, LoopSteps DEF StateHolds, PreviousHolds
  <1>3. ASSUME NEW k \in 1..Len(input), holds(k - 1) PROVE holds(k)
    <2>1. input[k] \in S
      BY <1>1
    <2>2. Loop(input)[k] = TakeRow(Loop(input)[k - 1], input[k])
      BY <1>1, LoopSteps
    <2> HIDE DEF S
    <2> QED
      BY <1>1, <1>3, <2>1, <2>2, TakeRowHolds
  <1> HIDE DEF holds
  <1> DEFINE bad == {k \in 0..Len(input) : ~holds(k)}
  <1> SUFFICES ASSUME bad # {} PROVE FALSE
    BY DEF holds
  <1>4. bad \subseteq Nat
    BY <1>1
  <1>5. PICK m \in bad : \A k \in bad : m <= k
    <2> HIDE DEF bad
    <2> QED
      BY <1>4, LeastNumber
  <1>6. m \in 1..Len(input) /\ ~holds(m)
    BY <1>1, <1>2
  <1>7. m - 1 \in 0..Len(input) /\ m - 1 \notin bad
    BY <1>1, <1>5, <1>6
  <1> QED
    BY <1>3, <1>6, <1>7

-----------------------------------------------------------------------------
(* Where in the router's history a row is from: after how many switches s. *)

AtOf(s, k) == IF k = 0 THEN 0 ELSE s[k].at
ModeAfter(k) == IF k % 2 = 0 THEN "LOCAL" ELSE "BOOTSTRAP"
\* How many of the first k switches the counter counts.
Ups(k) == (k + 1) \div 2

AnySwitch == [at : Nat \ {0}, to : {"LOCAL", "BOOTSTRAP"}]
AnyRouter == [mode : {"LOCAL", "BOOTSTRAP"}, last : Nat, since : Nat, total : Nat]

RouterHolds(s, rt, t) ==
  /\ s \in Seq(AnySwitch) /\ rt \in AnyRouter /\ t \in Nat \ {0}
  /\ AtOf(s, Len(s)) <= rt.last /\ rt.mode = ModeAfter(Len(s)) /\ rt.last <= t
  /\ \A i \in 1..Len(s) : s[i].to = ModeAfter(i)
  /\ \A i, j \in 1..Len(s) : i < j => s[i].at < s[j].at

\* What it shows as the last record is a switch or a later restart.
Place(s, row, k) ==
  /\ AtOf(s, k) <= row.last /\ AtOf(s, k) <= row.at
  /\ \A j \in 1..Len(s) : k < j => row.at <= s[j].at /\ row.last < s[j].at
  /\ row.mode \in {"INVALID", ModeAfter(k)}

RowHolds(s, rt, t, row) ==
  /\ row \in AnyRow /\ row.at <= t /\ row.last <= rt.last
  /\ \E k \in 0..Len(s) : Place(s, row, k)

\* The counter counts the switches between two moments without a reset.
PairHolds(s, gone, p, r) ==
  \A i, j \in 0..Len(s) :
    /\ Place(s, p, i) /\ Place(s, r, j) /\ p.at <= r.at
    /\ \A t \in gone : t < p.at \/ t > r.at
    => r.total - p.total = Ups(j) - Ups(i)

CountHolds(s, gone, rt, now0, p) ==
  \A i \in 0..Len(s) :
    /\ Place(s, p, i)
    /\ \A t \in gone : t < p.at \/ t > now0
    => rt.total - p.total = Ups(Len(s)) - Ups(i)

RowsHold(s, gone, rt, t, input) ==
  /\ RouterHolds(s, rt, t) /\ gone \subseteq Nat
  /\ input \in Seq(AnyRow)
  /\ \A n \in 1..Len(input) :
       /\ RowHolds(s, rt, t, input[n]) /\ CountHolds(s, gone, rt, t, input[n])
       /\ \A m \in 1..Len(input) : PairHolds(s, gone, input[n], input[m])

EventsInv == RowsHold(switches, resets, router, now, rows)

LEMMA HistoryTypes ==
  ASSUME NEW s, NEW rt, NEW t, RouterHolds(s, rt, t)
  PROVE  /\ Len(s) \in Nat /\ \A i \in 1..Len(s) : s[i].at \in Nat /\ s[i].at > 0
         /\ \A k \in 0..Len(s) : AtOf(s, k) \in Nat
         /\ \A i, j \in 0..Len(s) : i < j => AtOf(s, i) < AtOf(s, j)
  <1>1. s \in Seq(AnySwitch) /\ Len(s) \in Nat
    BY DEF RouterHolds
  <1>2. \A i \in 1..Len(s) : s[i].at \in Nat /\ s[i].at > 0
    <2>1. ASSUME NEW i \in 1..Len(s) PROVE s[i].at \in Nat \ {0}
      <3>1. s[i] \in AnySwitch
        BY <1>1
      <3> QED
        BY <3>1 DEF AnySwitch
    <2> QED
      BY <2>1
  <1>3. \A k \in 0..Len(s) : AtOf(s, k) \in Nat
    BY <1>1, <1>2 DEF AtOf
  <1>4. \A i, j \in 1..Len(s) : i < j => s[i].at < s[j].at
    BY DEF RouterHolds
  <1>5. ASSUME NEW i \in 0..Len(s), NEW j \in 0..Len(s), i < j
        PROVE  AtOf(s, i) < AtOf(s, j)
    <2>1. CASE i = 0
      BY <1>1, <1>2, <1>5, <2>1 DEF AtOf
    <2>2. CASE i # 0
      <3>1. i \in 1..Len(s) /\ j \in 1..Len(s) /\ j # 0
        BY <1>1, <1>5, <2>2
      <3>2. AtOf(s, i) = s[i].at /\ AtOf(s, j) = s[j].at
        BY <2>2, <3>1 DEF AtOf
      <3> QED
        BY <1>4, <1>5, <3>1, <3>2
    <2> QED
      BY <2>1, <2>2
  <1> QED
    BY <1>1, <1>2, <1>3, <1>5

\* A row has one place.
LEMMA OnePlace ==
  ASSUME NEW s, NEW rt, NEW t, RouterHolds(s, rt, t), NEW row \in AnyRow,
         NEW i \in 0..Len(s), NEW j \in 0..Len(s), Place(s, row, i), Place(s, row, j)
  PROVE  i = j
  <1>1. Len(s) \in Nat /\ \A l \in 1..Len(s) : s[l].at \in Nat
    BY HistoryTypes
  <1>2. ASSUME NEW k \in 0..Len(s), NEW l \in 0..Len(s), Place(s, row, k), Place(s, row, l)
        PROVE  ~(k < l)
    <2> SUFFICES ASSUME k < l PROVE FALSE
      OBVIOUS
    <2>1. l \in 1..Len(s) /\ l # 0
      BY <1>1
    <2>2. row.last < s[l].at /\ s[l].at <= row.last
      BY <1>2, <2>1 DEF Place, AtOf
    <2> DEFINE a == s[l].at
               b == row.last
    <2>3. a \in Nat /\ b \in Nat /\ b < a /\ a <= b
      BY <1>1, <2>1, <2>2 DEF AnyRow
    <2> HIDE DEF a, b
    <2> QED
      BY <2>3
  <1> QED
    BY <1>1, <1>2

LEMMA UpsSteps ==
  ASSUME NEW k \in Nat
  PROVE  /\ Ups(k) \in Nat
         /\ ModeAfter(k) = "LOCAL" => ModeAfter(k + 1) = "BOOTSTRAP" /\ Ups(k + 1) = Ups(k) + 1
         /\ ModeAfter(k) = "BOOTSTRAP" => ModeAfter(k + 1) = "LOCAL" /\ Ups(k + 1) = Ups(k)
         /\ ModeAfter(k) \in {"LOCAL", "BOOTSTRAP"}
BY DEF Ups, ModeAfter

-----------------------------------------------------------------------------
(* Steps that leave the switches alone.                                    *)

LEMMA TimeKeeps ==
  ASSUME NEW s, NEW gone, NEW rt, NEW t, NEW input, RowsHold(s, gone, rt, t, input)
  PROVE  RowsHold(s, gone, rt, t + 1, input)
  <1>1. t \in Nat /\ gone \subseteq Nat /\ input \in Seq(AnyRow) /\ Len(input) \in Nat
    BY DEF RowsHold, RouterHolds
  <1>2. RouterHolds(s, rt, t + 1)
    BY DEF RowsHold, RouterHolds, AnyRouter
  <1>3. ASSUME NEW n \in 1..Len(input)
        PROVE  RowHolds(s, rt, t + 1, input[n]) /\ CountHolds(s, gone, rt, t + 1, input[n])
    <2>1. RowHolds(s, rt, t, input[n]) /\ CountHolds(s, gone, rt, t, input[n])
      BY DEF RowsHold
    <2>2. RowHolds(s, rt, t + 1, input[n])
      <3>1. input[n].at \in Nat /\ input[n].at <= t
        BY <2>1 DEF RowHolds, AnyRow
      <3>2. input[n].at <= t + 1
        BY <1>1, <3>1
      <3> QED
        BY <2>1, <3>2 DEF RowHolds
    <2>3. \A u \in gone : u > t + 1 => u > t
      BY <1>1
    <2> QED
      BY <2>1, <2>2, <2>3 DEF CountHolds
  <1> QED
    BY <1>1, <1>2, <1>3 DEF RowsHold

\* A restart in the same mode: the record is new, and so is the counter.
LEMMA RestartKeeps ==
  ASSUME NEW s, NEW gone, NEW rt, NEW t, NEW input, RowsHold(s, gone, rt, t, input),
         rt.last < t, NEW since \in Nat, NEW total \in Nat
  PROVE  RowsHold(s, gone \cup {t},
                  [mode |-> rt.mode, last |-> t, since |-> since, total |-> total], t, input)
  <1> DEFINE rt2 == [mode |-> rt.mode, last |-> t, since |-> since, total |-> total]
  <1>1. t \in Nat /\ gone \subseteq Nat /\ input \in Seq(AnyRow) /\ Len(input) \in Nat
    BY DEF RowsHold, RouterHolds
  <1>2. RouterHolds(s, rt, t) /\ rt.mode \in {"LOCAL", "BOOTSTRAP"} /\ rt.last \in Nat
    BY DEF RowsHold, RouterHolds, AnyRouter
  <1>3. rt2 \in AnyRouter /\ rt2.last = t /\ rt2.mode = rt.mode
    BY <1>1, <1>2 DEF AnyRouter
  <1> HIDE DEF rt2
  <1>4. RouterHolds(s, rt2, t)
    <2>1. AtOf(s, Len(s)) <= rt2.last /\ rt2.last <= t
      <3>1. Len(s) \in 0..Len(s) /\ AtOf(s, Len(s)) \in Nat
        BY <1>2, HistoryTypes
      <3> DEFINE a == AtOf(s, Len(s))
                 b == rt.last
      <3>2. a \in Nat /\ b \in Nat /\ a <= b /\ b < t
        BY <1>2, <3>1 DEF RouterHolds
      <3> HIDE DEF a, b
      <3>3. a <= t /\ t <= t
        BY <1>1, <3>2
      <3> QED
        BY <1>3, <3>3 DEF a
    <2> QED
      BY <1>2, <1>3, <2>1 DEF RouterHolds
  <1>5. ASSUME NEW n \in 1..Len(input)
        PROVE  /\ RowHolds(s, rt2, t, input[n])
               /\ CountHolds(s, gone \cup {t}, rt2, t, input[n])
               /\ \A m \in 1..Len(input) : PairHolds(s, gone \cup {t}, input[n], input[m])
    <2>1. /\ RowHolds(s, rt, t, input[n])
          /\ \A m \in 1..Len(input) : PairHolds(s, gone, input[n], input[m])
      BY DEF RowsHold
    <2>2. /\ input[n].at \in Nat /\ input[n].at <= t
          /\ input[n].last \in Nat /\ input[n].last <= rt.last
      BY <2>1 DEF RowHolds, AnyRow
    <2>3. RowHolds(s, rt2, t, input[n])
      <3>1. input[n].last <= rt2.last
        BY <1>1, <1>2, <1>3, <2>2
      <3> QED
        BY <2>1, <3>1 DEF RowHolds
    <2>4. ~(\A u \in gone \cup {t} : u < input[n].at \/ u > t)
      <3>1. t \in gone \cup {t} /\ ~(t < input[n].at \/ t > t)
        BY <1>1, <2>2
      <3> QED
        BY <3>1
    <2>5. CountHolds(s, gone \cup {t}, rt2, t, input[n])
      BY <2>4 DEF CountHolds
    <2>6. ASSUME NEW m \in 1..Len(input) PROVE PairHolds(s, gone \cup {t}, input[n], input[m])
      BY <2>1 DEF PairHolds
    <2> QED
      BY <2>3, <2>5, <2>6
  <1>6. RowsHold(s, gone \cup {t}, rt2, t, input)
    BY <1>1, <1>4, <1>5 DEF RowsHold
  <1> QED
    BY <1>6 DEF rt2

-----------------------------------------------------------------------------
(* A switch.                                                               *)

LEMMA SwitchHistory ==
  ASSUME NEW s, NEW rt, NEW t, RouterHolds(s, rt, t), rt.last < t,
         NEW to, to = ModeAfter(Len(s) + 1),
         NEW since \in Nat, NEW total \in Nat
  PROVE  /\ RouterHolds(Append(s, [at |-> t, to |-> to]),
                        [mode |-> to, last |-> t, since |-> since, total |-> total], t)
         /\ Len(Append(s, [at |-> t, to |-> to])) = Len(s) + 1
         /\ \A k \in 0..Len(s) : AtOf(Append(s, [at |-> t, to |-> to]), k) = AtOf(s, k)
         /\ \A i \in 1..(Len(s) + 1) :
              Append(s, [at |-> t, to |-> to])[i].at = IF i = Len(s) + 1 THEN t ELSE s[i].at
  <1> DEFINE new == [at |-> t, to |-> to]
             s2 == Append(s, new)
             any == AnySwitch
  <1>1. /\ t \in Nat \ {0} /\ AtOf(s, Len(s)) <= rt.last /\ s \in Seq(any) /\ Len(s) \in Nat
        /\ rt.last \in Nat
        /\ \A i \in 1..Len(s) : s[i].to = ModeAfter(i)
        /\ \A i, j \in 1..Len(s) : i < j => s[i].at < s[j].at
    BY DEF RouterHolds, AnyRouter
  <1>2. to \in {"LOCAL", "BOOTSTRAP"} /\ new \in any /\ new.at = t /\ new.to = to
    <2>1. to \in {"LOCAL", "BOOTSTRAP"}
      BY <1>1, UpsSteps
    <2> QED
      BY <1>1, <2>1 DEF AnySwitch
  <1> HIDE DEF any, new
  <1>3. /\ s2 \in Seq(any) /\ Len(s2) = Len(s) + 1
        /\ \A i \in 1..(Len(s) + 1) : s2[i] = IF i = Len(s) + 1 THEN new ELSE s[i]
    BY <1>1, <1>2
  <1> HIDE DEF s2
  <1>4. \A i \in 1..(Len(s) + 1) : s2[i].at = IF i = Len(s) + 1 THEN t ELSE s[i].at
    BY <1>2, <1>3
  <1>5. \A k \in 0..Len(s) : AtOf(s2, k) = AtOf(s, k)
    BY <1>1, <1>3 DEF AtOf
  <1>6. AtOf(s2, Len(s) + 1) = t
    BY <1>1, <1>4 DEF AtOf
  <1>7. \A i \in 1..Len(s) : s[i].at < t
    <2>1. ASSUME NEW i \in 1..Len(s) PROVE s[i].at < t
      <3> DEFINE a == s[i].at
                 b == s[Len(s)].at
                 last == rt.last
      <3>1. /\ b <= last /\ (i < Len(s) => a < b) /\ a \in Nat /\ b \in Nat
            /\ last \in Nat /\ i \in Nat
        BY <1>1, HistoryTypes DEF AtOf
      <3>2. i = Len(s) => a = b
        OBVIOUS
      <3>3. last < t
        OBVIOUS
      <3> HIDE DEF a, b, last
      <3> SUFFICES a < t
        BY DEF a
      <3> QED
        BY <1>1, <3>1, <3>2, <3>3
    <2> QED
      BY <2>1
  <1>8. \A i, j \in 1..Len(s2) : i < j => s2[i].at < s2[j].at
    <2> SUFFICES ASSUME NEW i \in 1..(Len(s) + 1), NEW j \in 1..(Len(s) + 1), i < j
                 PROVE  s2[i].at < s2[j].at
      BY <1>3
    <2>1. i \in 1..Len(s) /\ s2[i].at = s[i].at
      <3>1. i \in 1..Len(s) /\ i # Len(s) + 1
        BY <1>1
      <3> QED
        BY <1>4, <3>1
    <2>2. CASE j = Len(s) + 1
      BY <1>4, <1>7, <2>1, <2>2
    <2>3. CASE j # Len(s) + 1
      <3>1. j \in 1..Len(s)
        BY <1>1, <2>3
      <3>2. s2[j].at = s[j].at /\ s[i].at < s[j].at
        BY <1>1, <1>4, <2>1, <2>3, <3>1
      <3> QED
        BY <2>1, <3>2
    <2> QED
      BY <2>2, <2>3
  <1>9. \A i \in 1..Len(s2) : s2[i].to = ModeAfter(i)
    BY <1>1, <1>2, <1>3
  <1> DEFINE rt2 == [mode |-> to, last |-> t, since |-> since, total |-> total]
  <1>10. RouterHolds(s2, rt2, t)
    <2>1. rt2 \in AnyRouter /\ rt2.last = t /\ rt2.mode = to
      BY <1>1, <1>2 DEF AnyRouter
    <2> HIDE DEF rt2
    <2>2. t <= t /\ AtOf(s2, Len(s2)) <= t
      BY <1>1, <1>3, <1>6
    <2> QED
      BY <1>1, <1>3, <1>6, <1>8, <1>9, <2>1, <2>2 DEF RouterHolds, any
  <1> QED
    BY <1>3, <1>4, <1>5, <1>10 DEF s2, new

\* The rows keep their places.
LEMMA SwitchPlaces ==
  ASSUME NEW s, NEW rt, NEW t, RouterHolds(s, rt, t), NEW s2, Len(s2) = Len(s) + 1,
         \A k \in 0..Len(s) : AtOf(s2, k) = AtOf(s, k),
         \A i \in 1..(Len(s) + 1) : s2[i].at = IF i = Len(s) + 1 THEN t ELSE s[i].at,
         NEW row, RowHolds(s, rt, t, row), rt.last < t, NEW rt2, rt2.last = t
  PROVE  /\ RowHolds(s2, rt2, t, row)
         /\ \A k \in 0..Len(s2) : Place(s2, row, k) => k \in 0..Len(s) /\ Place(s, row, k)
  <1>1. /\ row \in AnyRow /\ row.at \in Nat /\ row.at <= t /\ t \in Nat
        /\ Len(s) \in Nat /\ row.last \in Nat /\ row.last < t
    <2>1. /\ row \in AnyRow /\ row.at <= t /\ row.last <= rt.last /\ t \in Nat
          /\ rt.last \in Nat
      BY DEF RowHolds, RouterHolds, AnyRouter
    <2>2. row.at \in Nat /\ row.last \in Nat
      BY <2>1 DEF AnyRow
    <2> QED
      BY <2>1, <2>2, HistoryTypes
  <1>2. PICK p \in 0..Len(s) : Place(s, row, p)
    BY DEF RowHolds
  <1>3. Place(s2, row, p)
    <2>1. \A j \in 1..Len(s2) : p < j => row.at <= s2[j].at /\ row.last < s2[j].at
      <3>1. \A j \in 1..Len(s) : p < j => row.at <= s[j].at /\ row.last < s[j].at
        BY <1>2 DEF Place
      <3> QED
        BY <1>1, <3>1
    <2> QED
      BY <1>2, <2>1 DEF Place
  <1>4. p \in 0..Len(s2)
    BY <1>1
  <1>5. ASSUME NEW k \in 0..Len(s2), Place(s2, row, k)
        PROVE  k \in 0..Len(s) /\ Place(s, row, k)
    <2>1. k \in 0..Len(s)
      <3>1. ASSUME k = Len(s) + 1 PROVE FALSE
        <4>1. t <= row.last
          BY <1>1, <1>5, <3>1 DEF Place, AtOf
        <4> QED
          BY <1>1, <4>1
      <3> QED
        BY <1>1, <3>1
    <2>2. \A j \in 1..Len(s) : k < j => row.at <= s[j].at /\ row.last < s[j].at
      <3>1. \A j \in 1..Len(s2) : k < j => row.at <= s2[j].at /\ row.last < s2[j].at
        BY <1>5 DEF Place
      <3> QED
        BY <1>1, <3>1
    <2> QED
      BY <1>5, <2>1, <2>2 DEF Place
  <1>6. row.last <= rt2.last
    BY <1>1
  <1> QED
    BY <1>1, <1>3, <1>4, <1>5, <1>6 DEF RowHolds

LEMMA Differences ==
  ASSUME NEW a \in Int, NEW b \in Int, NEW c \in Int, NEW d \in Int, NEW e \in Int,
         NEW f \in Int, f - e = b - a, e - d = a - c
  PROVE  f - d = b - c
OBVIOUS

\* A switch, or a restart in the other mode, which is not counted.
LEMMA SwitchKeeps ==
  ASSUME NEW s, NEW gone, NEW rt, NEW t, NEW input, RowsHold(s, gone, rt, t, input),
         rt.last < t, NEW to, to = IF rt.mode = "LOCAL" THEN "BOOTSTRAP" ELSE "LOCAL",
         NEW counted \in BOOLEAN, NEW since \in Nat, NEW total \in Nat,
         counted => total = rt.total + (IF to = "BOOTSTRAP" THEN 1 ELSE 0)
  PROVE  RowsHold(Append(s, [at |-> t, to |-> to]), IF counted THEN gone ELSE gone \cup {t},
                  [mode |-> to, last |-> t, since |-> since, total |-> total], t, input)
  <1> DEFINE s2 == Append(s, [at |-> t, to |-> to])
             gone2 == IF counted THEN gone ELSE gone \cup {t}
             rt2 == [mode |-> to, last |-> t, since |-> since, total |-> total]
  <1>1. /\ RouterHolds(s, rt, t) /\ t \in Nat /\ gone \subseteq Nat /\ input \in Seq(AnyRow)
        /\ Len(input) \in Nat /\ rt \in AnyRouter /\ Len(s) \in Nat /\ rt.mode = ModeAfter(Len(s))
    BY HistoryTypes DEF RowsHold, RouterHolds
  <1>2. rt.total \in Nat /\ total \in Nat
    BY <1>1 DEF AnyRouter
  <1>3. to = ModeAfter(Len(s) + 1)
    BY <1>1, UpsSteps
  <1>4. counted => total - rt.total = Ups(Len(s) + 1) - Ups(Len(s))
    <2>1. Ups(Len(s) + 1) = Ups(Len(s)) + (IF to = "BOOTSTRAP" THEN 1 ELSE 0)
      <3> DEFINE k == Len(s)
      <3>1. k \in Nat /\ rt.mode = ModeAfter(k) /\ rt.mode \in {"LOCAL", "BOOTSTRAP"}
        BY <1>1, UpsSteps
      <3> HIDE DEF k
      <3>2. CASE rt.mode = "LOCAL"
        <4>1. Ups(k + 1) = Ups(k) + 1 /\ to = "BOOTSTRAP"
          BY <3>1, <3>2, UpsSteps
        <4> QED
          BY <4>1 DEF k
      <3>3. CASE rt.mode = "BOOTSTRAP"
        <4>1. Ups(k + 1) = Ups(k) /\ to # "BOOTSTRAP" /\ Ups(k) \in Nat
          BY <3>1, <3>3, UpsSteps
        <4>2. Ups(k) = Ups(k) + 0
          BY <4>1
        <4> QED
          BY <4>1, <4>2 DEF k
      <3> QED
        BY <3>1, <3>2, <3>3
    <2>2. Ups(Len(s)) \in Nat
      BY <1>1, UpsSteps
    <2> DEFINE u == Ups(Len(s))
               v == Ups(Len(s) + 1)
    <2> HIDE DEF u, v
    <2>3. u \in Nat /\ v = u + (IF to = "BOOTSTRAP" THEN 1 ELSE 0)
      BY <2>1, <2>2 DEF u, v
    <2>4. counted => total - rt.total = v - u
      BY <1>2, <2>3
    <2> QED
      BY <2>4 DEF u, v
  <1>5. /\ RouterHolds(s2, rt2, t) /\ Len(s2) = Len(s) + 1
        /\ \A k \in 0..Len(s) : AtOf(s2, k) = AtOf(s, k)
        /\ \A i \in 1..(Len(s) + 1) : s2[i].at = IF i = Len(s) + 1 THEN t ELSE s[i].at
    BY <1>1, <1>2, <1>3, SwitchHistory
  <1>6. rt2.total = total /\ rt2.last = t
    OBVIOUS
  <1> HIDE DEF s2, rt2
  <1>7. gone \subseteq gone2 /\ gone2 \subseteq Nat
    BY <1>1
  <1>8. ASSUME NEW n \in 1..Len(input)
        PROVE  /\ RowHolds(s2, rt2, t, input[n]) /\ CountHolds(s2, gone2, rt2, t, input[n])
               /\ \A m \in 1..Len(input) : PairHolds(s2, gone2, input[n], input[m])
    <2>1. /\ RowHolds(s, rt, t, input[n]) /\ CountHolds(s, gone, rt, t, input[n])
          /\ \A m \in 1..Len(input) : /\ RowHolds(s, rt, t, input[m])
                                      /\ PairHolds(s, gone, input[n], input[m])
      BY DEF RowsHold
    <2>2. \A m \in 1..Len(input) :
            /\ RowHolds(s2, rt2, t, input[m])
            /\ \A k \in 0..Len(s2) :
                 Place(s2, input[m], k) => k \in 0..Len(s) /\ Place(s, input[m], k)
      BY <1>1, <1>5, <1>6, <2>1, SwitchPlaces
    <2>3. ASSUME NEW m \in 1..Len(input) PROVE PairHolds(s2, gone2, input[n], input[m])
      <3>1. PairHolds(s, gone, input[n], input[m])
        BY <2>1
      <3> HIDE DEF gone2
      <3> QED
        BY <1>7, <2>2, <3>1 DEF PairHolds
    <2>4. CountHolds(s2, gone2, rt2, t, input[n])
      <3> SUFFICES ASSUME NEW i \in 0..Len(s2), Place(s2, input[n], i),
                          \A u \in gone2 : u < input[n].at \/ u > t
                   PROVE  total - input[n].total = Ups(Len(s2)) - Ups(i)
        BY <1>6 DEF CountHolds
      <3>1. i \in 0..Len(s) /\ Place(s, input[n], i)
        BY <2>2
      <3>2. counted
        <4>1. input[n].at \in Nat /\ input[n].at <= t
          BY <2>1 DEF RowHolds, AnyRow
        <4>2. t \notin gone2
          <5> HIDE DEF gone2
          <5>1. ~(t < input[n].at \/ t > t)
            BY <1>1, <4>1
          <5> QED
            BY <5>1
        <4>3. ~counted => t \in gone2
          OBVIOUS
        <4> QED
          BY <4>2, <4>3
      <3>3. rt.total - input[n].total = Ups(Len(s)) - Ups(i)
        BY <1>7, <2>1, <3>1 DEF CountHolds
      <3>4. /\ input[n].total \in Nat /\ Ups(i) \in Nat /\ Ups(Len(s)) \in Nat
            /\ Ups(Len(s) + 1) \in Nat
        <4>1. i \in Nat /\ Len(s) \in Nat /\ Len(s) + 1 \in Nat
          BY <1>1, <3>1
        <4>2. input[n].total \in Nat
          BY <2>1 DEF RowHolds, AnyRow
        <4> QED
          BY <4>1, <4>2, UpsSteps
      <3> DEFINE a == Ups(Len(s))
                 b == Ups(Len(s) + 1)
                 c == Ups(i)
                 d == input[n].total
                 e == rt.total
      <3>5. /\ a \in Nat /\ b \in Nat /\ c \in Nat /\ d \in Nat /\ e \in Nat
            /\ total - e = b - a /\ e - d = a - c /\ Ups(Len(s2)) = b
        BY <1>2, <1>4, <1>5, <3>2, <3>3, <3>4
      <3> HIDE DEF a, b, c, d, e
      <3>6. total - d = b - c
        BY <1>2, <3>5, Differences
      <3> QED
        BY <3>5, <3>6 DEF c, d
    <2> QED
      BY <2>2, <2>3, <2>4
  <1> QED
    BY <1>1, <1>5, <1>7, <1>8 DEF RowsHold, s2, rt2

-----------------------------------------------------------------------------
(* A row.                                                                  *)

Fits(s, gone, rt, t, input, x) ==
  /\ RowHolds(s, rt, t, x) /\ CountHolds(s, gone, rt, t, x) /\ PairHolds(s, gone, x, x)
  /\ \A m \in 1..Len(input) :
       PairHolds(s, gone, x, input[m]) /\ PairHolds(s, gone, input[m], x)

LEMMA CurrentRowFits ==
  ASSUME NEW s, NEW gone, NEW rt, NEW t, NEW input, RowsHold(s, gone, rt, t, input),
         NEW x \in AnyRow, x.at = t, x.last = rt.last, x.total = rt.total,
         x.mode \in {"INVALID", rt.mode}
  PROVE  Fits(s, gone, rt, t, input, x)
  <1>1. /\ RouterHolds(s, rt, t) /\ t \in Nat /\ gone \subseteq Nat /\ input \in Seq(AnyRow)
        /\ Len(input) \in Nat /\ rt \in AnyRouter /\ Len(s) \in Nat /\ rt.mode = ModeAfter(Len(s))
        /\ AtOf(s, Len(s)) <= rt.last /\ rt.last <= t /\ rt.last \in Nat
    BY HistoryTypes DEF RowsHold, RouterHolds, AnyRouter
  <1>2. Len(s) \in 0..Len(s) /\ Place(s, x, Len(s))
    <2>1. Len(s) \in 0..Len(s) /\ AtOf(s, Len(s)) \in Nat
      BY <1>1, HistoryTypes
    <2>2. AtOf(s, Len(s)) <= x.at
      BY <1>1, <2>1
    <2>3. \A j \in 1..Len(s) : ~(Len(s) < j)
      BY <1>1
    <2> QED
      BY <1>1, <2>1, <2>2, <2>3 DEF Place
  <1>3. \A i \in 0..Len(s) : Place(s, x, i) => i = Len(s)
    <2>1. ASSUME NEW i \in 0..Len(s), Place(s, x, i) PROVE i = Len(s)
      BY <1>1, <1>2, <2>1, OnePlace
    <2> QED
      BY <2>1
  <1>4. RowHolds(s, rt, t, x)
    <2>1. x.at <= t /\ x.last <= rt.last
      BY <1>1
    <2> QED
      BY <1>1, <1>2, <2>1 DEF RowHolds
  <1>5. rt.total \in Nat /\ Ups(Len(s)) \in Nat
    BY <1>1, UpsSteps DEF AnyRouter
  <1>6. rt.total - rt.total = Ups(Len(s)) - Ups(Len(s))
    BY <1>5
  <1>7. CountHolds(s, gone, rt, t, x) /\ PairHolds(s, gone, x, x)
    BY <1>3, <1>6 DEF CountHolds, PairHolds
  <1>8. ASSUME NEW m \in 1..Len(input)
        PROVE  PairHolds(s, gone, x, input[m]) /\ PairHolds(s, gone, input[m], x)
    <2> DEFINE p == input[m]
    <2>1. /\ RowHolds(s, rt, t, p) /\ CountHolds(s, gone, rt, t, p)
      BY DEF RowsHold
    <2>2. p.at \in Nat /\ p.total \in Nat /\ p.at <= t
      BY <2>1 DEF RowHolds, AnyRow
    <2> HIDE DEF p
    <2>3. PairHolds(s, gone, p, x)
      BY <1>3, <2>1 DEF PairHolds, CountHolds
    <2>4. ASSUME NEW i \in 0..Len(s), NEW j \in 0..Len(s), Place(s, x, i), Place(s, p, j),
                 x.at <= p.at, \A u \in gone : u < x.at \/ u > p.at
          PROVE  p.total - x.total = Ups(j) - Ups(i)
      <3>1. i = Len(s) /\ p.at = t
        BY <1>1, <1>3, <2>2, <2>4
      <3>2. rt.total - p.total = Ups(Len(s)) - Ups(j)
        BY <2>1, <2>4, <3>1 DEF CountHolds
      <3>3. Ups(j) \in Nat
        BY UpsSteps
      <3> DEFINE a == Ups(j)
                 b == Ups(Len(s))
                 c == p.total
                 d == rt.total
      <3>4. a \in Int /\ b \in Int /\ c \in Int /\ d \in Int /\ d - c = b - a
        BY <1>5, <2>2, <3>2, <3>3
      <3> HIDE DEF a, b, c, d
      <3>5. c - d = a - b
        BY <3>4
      <3> QED
        BY <3>1, <3>5 DEF a, b, c, d
    <2>5. PairHolds(s, gone, x, p)
      BY <2>4 DEF PairHolds
    <2> QED
      BY <2>3, <2>5 DEF p
  <1> QED
    BY <1>4, <1>7, <1>8 DEF Fits

LEMMA OldRowFits ==
  ASSUME NEW s, NEW gone, NEW rt, NEW t, NEW input, RowsHold(s, gone, rt, t, input),
         NEW m \in 1..Len(input)
  PROVE  Fits(s, gone, rt, t, input, input[m])
BY DEF RowsHold, Fits

LEMMA AppendKeeps ==
  ASSUME NEW s, NEW gone, NEW rt, NEW t, NEW input, RowsHold(s, gone, rt, t, input),
         NEW x, Fits(s, gone, rt, t, input, x)
  PROVE  RowsHold(s, gone, rt, t, Append(input, x))
  <1> DEFINE input2 == Append(input, x)
             any == AnyRow
  <1>1. input \in Seq(any) /\ x \in any
    BY DEF RowsHold, Fits, RowHolds
  <1> HIDE DEF any
  <1>2. /\ Len(input) \in Nat /\ input2 \in Seq(any) /\ Len(input2) = Len(input) + 1
        /\ \A n \in 1..(Len(input) + 1) :
             input2[n] = IF n = Len(input) + 1 THEN x ELSE input[n]
    BY <1>1
  <1> HIDE DEF input2
  <1>3. \A n \in 1..Len(input2) : (n \in 1..Len(input) /\ input2[n] = input[n]) \/ input2[n] = x
    BY <1>2
  <1>4. ASSUME NEW n \in 1..Len(input2)
        PROVE  RowHolds(s, rt, t, input2[n]) /\ CountHolds(s, gone, rt, t, input2[n])
    BY <1>3 DEF RowsHold, Fits
  <1>5. ASSUME NEW n \in 1..Len(input2), NEW m \in 1..Len(input2)
        PROVE  PairHolds(s, gone, input2[n], input2[m])
    <2>1. CASE input2[n] = x
      BY <1>3, <2>1 DEF Fits
    <2>2. CASE n \in 1..Len(input) /\ input2[n] = input[n]
      BY <1>3, <2>2 DEF Fits, RowsHold
    <2> QED
      BY <1>3, <2>1, <2>2
  <1> QED
    BY <1>2, <1>4, <1>5 DEF RowsHold, any, input2

-----------------------------------------------------------------------------
(* The invariant.                                                          *)

LEMMA EventsInvInit == EventsInit => EventsInv
  <1> SUFFICES ASSUME EventsInit PROVE EventsInv
    OBVIOUS
  <1>1. /\ now = 1 /\ router = [mode |-> "LOCAL", last |-> 0, since |-> 0, total |-> 0]
        /\ switches = <<>> /\ resets = {} /\ rows = <<>>
    BY DEF EventsInit
  <1>2. router \in AnyRouter /\ Len(switches) = 0 /\ switches \in Seq(AnySwitch)
    BY <1>1 DEF AnyRouter
  <1>3. ModeAfter(0) = "LOCAL" /\ AtOf(switches, 0) = 0
    BY DEF ModeAfter, AtOf
  <1>4. RouterHolds(switches, router, now)
    BY <1>1, <1>2, <1>3 DEF RouterHolds
  <1> QED
    BY <1>1, <1>4 DEF EventsInv, RowsHold

LEMMA EventsInvStep == EventsInv /\ [EventsNext]_evars => EventsInv'
  <1> SUFFICES ASSUME EventsInv, [EventsNext]_evars PROVE EventsInv'
    OBVIOUS
  <1>0. RowsHold(switches, resets, router, now, rows) /\ RouterHolds(switches, router, now)
    BY DEF EventsInv, RowsHold
  <1> SUFFICES RowsHold(switches', resets', router', now', rows')
    BY DEF EventsInv
  <1>1. CASE Tick
    <2>1. /\ now' = now + 1 /\ switches' = switches /\ resets' = resets
          /\ router' = router /\ rows' = rows
      BY <1>1 DEF Tick
    <2> QED
      BY <1>0, <2>1, TimeKeeps
  <1> DEFINE other == IF router.mode = "LOCAL" THEN "BOOTSTRAP" ELSE "LOCAL"
  <1>a. ASSUME NEW to, NEW total
        PROVE  /\ Recorded(to, total)
                    = [mode |-> to, last |-> now,
                       since |-> IF to = "LOCAL" THEN 0 ELSE now, total |-> total]
               /\ (IF to = "LOCAL" THEN 0 ELSE now) \in Nat
    BY <1>0 DEF Recorded, RouterHolds
  <1>b. router.total \in Nat /\ router.mode \in {"LOCAL", "BOOTSTRAP"}
    BY <1>0 DEF RouterHolds, AnyRouter
  <1>2. CASE Switch
    <2>1. PICK counted \in BOOLEAN :
            /\ router' = Recorded(other, router.total
                                           + (IF other = "BOOTSTRAP" /\ counted THEN 1 ELSE 0))
            /\ switches' = Append(switches, [at |-> now, to |-> other])
            /\ resets' = IF counted THEN resets ELSE resets \cup {now}
      BY <1>2 DEF Switch
    <2>2. router.last < now /\ now' = now /\ rows' = rows
      BY <1>2 DEF Switch
    <2> DEFINE total == router.total + (IF other = "BOOTSTRAP" /\ counted THEN 1 ELSE 0)
    <2>3. /\ total \in Nat
          /\ counted => total = router.total + (IF other = "BOOTSTRAP" THEN 1 ELSE 0)
      BY <1>b
    <2> HIDE DEF total
    <2>4. router' = Recorded(other, total)
      BY <2>1 DEF total
    <2> DEFINE since == IF other = "LOCAL" THEN 0 ELSE now
    <2>5. /\ since \in Nat
          /\ router' = [mode |-> other, last |-> now, since |-> since, total |-> total]
      BY <1>a, <2>4
    <2>6. other = IF router.mode = "LOCAL" THEN "BOOTSTRAP" ELSE "LOCAL"
      OBVIOUS
    <2> HIDE DEF since, other
    <2>7. RowsHold(Append(switches, [at |-> now, to |-> other]),
                   IF counted THEN resets ELSE resets \cup {now},
                   [mode |-> other, last |-> now, since |-> since, total |-> total], now, rows)
      BY <1>0, <2>2, <2>3, <2>5, <2>6, SwitchKeeps
    <2> QED
      BY <2>1, <2>2, <2>5, <2>7
  <1>3. CASE Restart
    <2>1. PICK to \in {"LOCAL", "BOOTSTRAP"} :
            /\ router' = Recorded(to, IF to = "BOOTSTRAP" THEN 1 ELSE 0)
            /\ \/ to = router.mode /\ switches' = switches
               \/ /\ to # router.mode
                  /\ switches' = Append(switches, [at |-> now, to |-> to])
      BY <1>3 DEF Restart
    <2>2. router.last < now /\ now' = now /\ rows' = rows /\ resets' = resets \cup {now}
      BY <1>3 DEF Restart
    <2> DEFINE total == IF to = "BOOTSTRAP" THEN 1 ELSE 0
    <2>3. total \in Nat
      OBVIOUS
    <2>4. router' = Recorded(to, total)
      BY <2>1
    <2> HIDE DEF total
    <2> DEFINE since == IF to = "LOCAL" THEN 0 ELSE now
    <2>7. /\ since \in Nat
          /\ router' = [mode |-> to, last |-> now, since |-> since, total |-> total]
      BY <1>a, <2>4
    <2> HIDE DEF since
    <2>5. CASE to = router.mode /\ switches' = switches
      BY <1>0, <2>2, <2>3, <2>5, <2>7, RestartKeeps
    <2>6. CASE to # router.mode /\ switches' = Append(switches, [at |-> now, to |-> to])
      <3>1. to = IF router.mode = "LOCAL" THEN "BOOTSTRAP" ELSE "LOCAL"
        BY <1>b, <2>6
      <3> DEFINE counted == FALSE
      <3>2. /\ counted \in BOOLEAN
            /\ counted => total = router.total + (IF to = "BOOTSTRAP" THEN 1 ELSE 0)
            /\ (IF counted THEN resets ELSE resets \cup {now}) = resets \cup {now}
        OBVIOUS
      <3> HIDE DEF counted
      <3>3. RowsHold(Append(switches, [at |-> now, to |-> to]),
                     IF counted THEN resets ELSE resets \cup {now},
                     [mode |-> to, last |-> now, since |-> since, total |-> total], now, rows)
        BY <1>0, <2>2, <2>3, <2>7, <3>1, <3>2, SwitchKeeps
      <3> QED
        BY <2>2, <2>6, <2>7, <3>2, <3>3
    <2> QED
      BY <2>1, <2>5, <2>6
  <1>4. /\ Row \in AnyRow /\ Row.at = now /\ Row.last = router.last
        /\ Row.total = router.total /\ Row.mode = router.mode
    BY <1>0 DEF Row, RouterHolds, AnyRouter, AnyRow
  <1>5. CASE Collect
    <2>1. /\ now' = now /\ switches' = switches /\ resets' = resets
          /\ router' = router /\ rows' = Append(rows, Row)
      BY <1>5 DEF Collect
    <2>2. Fits(switches, resets, router, now, rows, Row)
      BY <1>0, <1>4, CurrentRowFits
    <2> QED
      BY <1>0, <2>1, <2>2, AppendKeeps
  <1>6. CASE BadRow
    <2>1. /\ now' = now /\ switches' = switches /\ resets' = resets /\ router' = router
      BY <1>6 DEF BadRow
    <2>2. CASE rows' = Append(rows, [Row EXCEPT !.mode = "INVALID"])
      <3> DEFINE x == [Row EXCEPT !.mode = "INVALID"]
      <3>1. /\ x \in AnyRow /\ x.at = now /\ x.last = router.last
            /\ x.total = router.total /\ x.mode = "INVALID"
        BY <1>4 DEF AnyRow
      <3> HIDE DEF x
      <3>2. Fits(switches, resets, router, now, rows, x)
        BY <1>0, <3>1, CurrentRowFits
      <3> QED
        BY <1>0, <2>1, <2>2, <3>2, AppendKeeps DEF x
    <2>3. CASE \E i \in 1..Len(rows) : rows' = Append(rows, rows[i])
      <3>1. PICK i \in 1..Len(rows) : rows' = Append(rows, rows[i])
        BY <2>3
      <3>2. Fits(switches, resets, router, now, rows, rows[i])
        BY <1>0, OldRowFits
      <3> QED
        BY <1>0, <2>1, <3>1, <3>2, AppendKeeps
    <2> QED
      BY <1>6, <2>2, <2>3 DEF BadRow
  <1>7. CASE UNCHANGED evars
    BY <1>0, <1>7 DEF evars
  <1> QED
    BY <1>1, <1>2, <1>3, <1>5, <1>6, <1>7 DEF EventsNext

LEMMA EventsInvariant == EventsSpec => []EventsInv
  <1> QED
    BY EventsInvInit, EventsInvStep, PTL DEF EventsSpec

-----------------------------------------------------------------------------
(* What the rows say of the switches between them.                         *)

LEMMA PlacesInOrder ==
  ASSUME NEW s, NEW rt, NEW t, RouterHolds(s, rt, t), NEW p \in AnyRow, NEW r \in AnyRow,
         NEW i \in 0..Len(s), NEW j \in 0..Len(s), Place(s, p, i), Place(s, r, j), p.at < r.at
  PROVE  i <= j
  <1> SUFFICES ASSUME j < i PROVE FALSE
    BY HistoryTypes
  <1>1. i \in 1..Len(s) /\ i # 0
    BY HistoryTypes
  <1>2. r.at <= s[i].at /\ s[i].at <= p.at
    BY <1>1 DEF Place, AtOf
  <1>3. s[i].at \in Nat /\ r.at \in Nat /\ p.at \in Nat
    BY <1>1, HistoryTypes DEF AnyRow
  <1> DEFINE a == s[i].at
             b == r.at
             c == p.at
  <1>4. a \in Nat /\ b \in Nat /\ c \in Nat /\ b <= a /\ a <= c /\ c < b
    BY <1>2, <1>3
  <1> HIDE DEF a, b, c
  <1> QED
    BY <1>4

\* Two rows of different modes have a switch to the second's between them.
LEMMA ChangedBetween ==
  ASSUME NEW s, NEW rt, NEW t, RouterHolds(s, rt, t), NEW p \in AnyRow, NEW r \in AnyRow,
         NEW i \in 0..Len(s), NEW j \in 0..Len(s), Place(s, p, i), Place(s, r, j), p.at < r.at,
         p.mode # r.mode, p.mode # "INVALID", r.mode # "INVALID"
  PROVE  /\ i < j /\ j \in 1..Len(s)
         /\ s[j].to = r.mode /\ p.at <= s[j].at /\ s[j].at <= r.at /\ s[j].at \in Nat
  <1>1. i <= j
    BY PlacesInOrder
  <1>2. i # j
    BY DEF Place
  <1>3. i < j /\ j \in 1..Len(s) /\ j # 0
    BY <1>1, <1>2, HistoryTypes
  <1>4. s[j].to = ModeAfter(j)
    BY <1>3 DEF RouterHolds
  <1> QED
    BY <1>3, <1>4, HistoryTypes DEF Place, AtOf

\* The row of a number.
LEMMA RowAt ==
  ASSUME EventsInv, NEW x \in {rows[n] : n \in DOMAIN rows}
  PROVE  \E n \in 1..Len(rows) : x = rows[n] /\ RowHolds(switches, router, now, x)
BY DEF EventsInv, RowsHold

LEMMA ClaimsHold ==
  ASSUME EventsInv, NEW e \in Claims
  PROVE  e.kind # "UNKNOWN" /\ EventHolds({rows[n] : n \in DOMAIN rows}, e)
  <1>1. rows \in Seq(AnyRow) /\ Len(rows) \in Nat
    BY DEF EventsInv, RowsHold
  <1> DEFINE st == Loop(rows)[Len(rows)]
             S == {rows[n] : n \in DOMAIN rows}
  <1>2. Len(rows) \in 0..Len(rows)
    BY <1>1
  <1>3. StateHolds(S, st)
    BY <1>1, <1>2, LoopHolds
  <1>4. timeline(rows) = st.events
    BY DEF timeline
  <1> HIDE DEF S, st
  <1>5. PICK k \in DOMAIN st.events : st.events[k].kind # "UNKNOWN" /\ e = st.events[k]
    BY <1>4 DEF Claims, Sure
  <1> QED
    BY <1>3, <1>5 DEF StateHolds, S

-----------------------------------------------------------------------------
(* The claims of the event model.                                          *)

\* Every transition that the model claims is one that the router made in the window
\* given for it, for any rows, whatever of them was lost, repeated or contradicted.
THEOREM ClaimedHappened == EventsSpec => []ClaimsHappened
  <1>1. ASSUME EventsInv PROVE ClaimsHappened
    <2> SUFFICES ASSUME NEW e \in Claims
                 PROVE  \E i \in 1..Len(switches) :
                          switches[i].to = e.kind /\ switches[i].at \in e.from..e.to
      BY DEF ClaimsHappened
    <2> DEFINE S == {rows[n] : n \in DOMAIN rows}
    <2>1. PICK p \in S, r \in S :
            /\ p.mode # r.mode /\ r.mode = e.kind
            /\ p.mode \in {"LOCAL", "BOOTSTRAP"} /\ r.mode \in {"LOCAL", "BOOTSTRAP"}
            /\ p.at < r.at /\ e.from = p.at /\ e.to = r.at
      <3>1. e.kind # "UNKNOWN" /\ EventHolds(S, e)
        BY <1>1, ClaimsHold
      <3> HIDE DEF S
      <3> QED
        BY <3>1 DEF EventHolds
    <2>2. RowHolds(switches, router, now, p) /\ RowHolds(switches, router, now, r)
      BY <1>1, RowAt
    <2>3. PICK i \in 0..Len(switches), j \in 0..Len(switches) :
            Place(switches, p, i) /\ Place(switches, r, j)
      BY <2>2 DEF RowHolds
    <2>4. RouterHolds(switches, router, now) /\ p \in AnyRow /\ r \in AnyRow
      BY <1>1, <2>2 DEF EventsInv, RowsHold, RowHolds
    <2>6. /\ j \in 1..Len(switches) /\ switches[j].to = r.mode
          /\ p.at <= switches[j].at /\ switches[j].at <= r.at /\ switches[j].at \in Nat
      BY <2>1, <2>3, <2>4, ChangedBetween
    <2>7. p.at \in Nat /\ r.at \in Nat
      BY <2>4 DEF AnyRow
    <2>8. switches[j].at \in p.at..r.at
      BY <2>6, <2>7
    <2> QED
      BY <2>1, <2>6, <2>8
  <1> QED
    BY <1>1, EventsInvariant, PTL

\* The numbers of LOCAL are even: no counted switch between an operation on the
\* provider's DNS and the return from it means that it is one operation.
LEMMA OneOperation ==
  ASSUME NEW i \in Nat, NEW j \in Nat, i < j,
         ModeAfter(i) = "BOOTSTRAP", ModeAfter(j) = "LOCAL"
  PROVE  /\ j - 1 \in Nat /\ i <= j - 1 /\ i # 0 /\ ModeAfter(j - 1) = "BOOTSTRAP"
         /\ Ups(i) = Ups(j) => i = j - 1
BY DEF ModeAfter, Ups

\* The bounds on the time that a fallback took, for a claimed return p to r that the
\* row first shows the fallback before.
LEMMA OperationBounds ==
  ASSUME EventsInv, NEW p, NEW r, NEW first,
         {p, r, first} \subseteq {rows[n] : n \in DOMAIN rows},
         p.mode = "BOOTSTRAP", r.mode = "LOCAL", first.mode = "BOOTSTRAP",
         first.total = r.total, p.at < r.at, first.at <= p.at
  PROVE  \E j \in 1..Len(switches) :
           /\ switches[j].to = "LOCAL" /\ switches[j].at \in p.at..r.at
           /\ j - 1 \in 1..Len(switches)
           /\ switches[j].at \in Nat /\ switches[j - 1].at \in Nat
           /\ (\A t \in resets : t < first.at \/ t > r.at) =>
                switches[j - 1].at <= first.at
           /\ \A b \in {rows[n] : n \in DOMAIN rows} :
                b.mode = "LOCAL" /\ b.at < first.at => b.at <= switches[j - 1].at
  <1> DEFINE s == switches
             S == {rows[n] : n \in DOMAIN rows}
  <1>1. /\ RouterHolds(s, router, now) /\ Len(s) \in Nat
        /\ \A x \in S : x \in AnyRow /\ x.at \in Nat /\ \E k \in 0..Len(s) : Place(s, x, k)
    <2>1. RouterHolds(s, router, now)
      BY DEF EventsInv, RowsHold
    <2>2. \A x \in S : RowHolds(s, router, now, x)
      BY RowAt
    <2> QED
      BY <2>1, <2>2, HistoryTypes DEF RowHolds, AnyRow
  <1>2. p \in AnyRow /\ r \in AnyRow /\ first \in AnyRow /\ p.at \in Nat /\ r.at \in Nat
        /\ first.at \in Nat /\ first.at < r.at
    BY <1>1
  <1> HIDE DEF S
  <1>3. PICK i \in 0..Len(s), j \in 0..Len(s), k \in 0..Len(s) :
          Place(s, p, i) /\ Place(s, r, j) /\ Place(s, first, k)
    BY <1>1 DEF S
  <1>4. /\ j \in 1..Len(s) /\ s[j].to = "LOCAL" /\ p.at <= s[j].at /\ s[j].at <= r.at
        /\ s[j].at \in Nat /\ i < j
    BY <1>1, <1>2, <1>3, ChangedBetween
  <1>5. k < j
    BY <1>1, <1>2, <1>3, ChangedBetween
  <1>6. ModeAfter(k) = "BOOTSTRAP" /\ ModeAfter(j) = "LOCAL"
    BY <1>3 DEF Place
  <1>7. /\ j - 1 \in 1..Len(s) /\ k <= j - 1 /\ k # 0
        /\ Ups(k) = Ups(j) => k = j - 1
    BY <1>1, <1>4, <1>5, <1>6, OneOperation
  <1>8. s[j - 1].at \in Nat
    BY <1>1, <1>7, HistoryTypes
  <1>9. ASSUME \A t \in resets : t < first.at \/ t > r.at PROVE s[j - 1].at <= first.at
    <2>1. PairHolds(s, resets, first, r)
      BY DEF EventsInv, RowsHold
    <2>2. r.total - first.total = Ups(j) - Ups(k)
      BY <1>2, <1>3, <1>9, <2>1 DEF PairHolds
    <2>3. r.total - first.total = 0
      BY <1>2 DEF AnyRow
    <2>4. Ups(j) \in Nat /\ Ups(k) \in Nat
      BY <1>4, <1>5, <1>7, UpsSteps
    <2>5. Ups(j) = Ups(k)
      BY <2>2, <2>3, <2>4
    <2> QED
      BY <1>3, <1>7, <2>5 DEF Place, AtOf
  <1>10. ASSUME NEW b \in S, b.mode = "LOCAL", b.at < first.at PROVE b.at <= s[j - 1].at
    <2>1. PICK l \in 0..Len(s) : Place(s, b, l)
      BY <1>1
    <2>2. l < k
      BY <1>1, <1>2, <1>3, <1>10, <2>1, ChangedBetween
    <2>3. l < j - 1
      BY <1>7, <2>1, <2>2
    <2> QED
      BY <1>7, <2>1, <2>3 DEF Place
  <1>11. s[j].at \in p.at..r.at
    BY <1>2, <1>4
  <1> HIDE DEF s
  <1>12. \E m \in 1..Len(s) :
           /\ s[m].to = "LOCAL" /\ s[m].at \in p.at..r.at
           /\ m - 1 \in 1..Len(s)
           /\ s[m].at \in Nat /\ s[m - 1].at \in Nat
           /\ (\A t \in resets : t < first.at \/ t > r.at) => s[m - 1].at <= first.at
           /\ \A b \in S : b.mode = "LOCAL" /\ b.at < first.at => b.at <= s[m - 1].at
    BY <1>4, <1>7, <1>8, <1>9, <1>10, <1>11
  <1> QED
    BY <1>12 DEF s, S

\* The bounds that the model gives for a fallback hold for the one that ended in
\* the window: the upper one always, the lower one while the counter was not reset
\* and missed no switch.
THEOREM DurationsBounded == EventsSpec => []DurationsAreBounds
  <1>1. ASSUME EventsInv PROVE DurationsAreBounds
    <2> DEFINE S == {rows[n] : n \in DOMAIN rows}
               Bounds(e, i) ==
                 LET began == switches[i - 1].at
                     lasted == switches[i].at - began IN
                 /\ e.upper # None => lasted <= e.upper
                 /\ (\A t \in resets : t < e.from - e.lower \/ t > e.to) => lasted >= e.lower
    <2> SUFFICES ASSUME NEW e \in Claims, e.kind = "LOCAL", e.lower # None
                 PROVE  \E i \in 1..Len(switches) :
                          /\ switches[i].to = "LOCAL" /\ switches[i].at \in e.from..e.to
                          /\ Bounds(e, i)
      BY DEF DurationsAreBounds
    <2>1. EventHolds(S, e) /\ e.kind # "UNKNOWN"
      BY <1>1, ClaimsHold
    <2> HIDE DEF S
    <2>2. PICK p \in S, r \in S :
            /\ p.mode # r.mode /\ r.mode = "LOCAL"
            /\ p.mode \in {"LOCAL", "BOOTSTRAP"}
            /\ p.at < r.at /\ e.from = p.at /\ e.to = r.at
            /\ \E first \in S : \E begin \in Int :
                 /\ Opened(S, first, begin, r.total)
                 /\ first.at <= p.at /\ e.lower = p.at - first.at
                 /\ e.upper = IF begin = None THEN None ELSE r.at - begin
      BY <2>1 DEF EventHolds
    <2>3. PICK first \in S, begin \in Int :
            /\ Opened(S, first, begin, r.total)
            /\ first.at <= p.at /\ e.lower = p.at - first.at
            /\ e.upper = IF begin = None THEN None ELSE r.at - begin
      BY <2>2
    <2>4. p.mode = "BOOTSTRAP" /\ first.mode = "BOOTSTRAP" /\ first.total = r.total
      BY <2>2, <2>3 DEF Opened
    <2>5. PICK j \in 1..Len(switches) :
            /\ switches[j].to = "LOCAL" /\ switches[j].at \in p.at..r.at
            /\ switches[j].at \in Nat /\ switches[j - 1].at \in Nat
            /\ (\A t \in resets : t < first.at \/ t > r.at) =>
                 switches[j - 1].at <= first.at
            /\ \A b \in S : b.mode = "LOCAL" /\ b.at < first.at => b.at <= switches[j - 1].at
      <3>1. {p, r, first} \subseteq S
        OBVIOUS
      <3> QED
        BY <1>1, <2>2, <2>3, <2>4, <3>1, OperationBounds DEF S
    <2>6. p.at \in Nat /\ r.at \in Nat /\ first.at \in Nat
      <3>1. p \in AnyRow /\ r \in AnyRow /\ first \in AnyRow
        BY <1>1, RowAt DEF S, RowHolds
      <3> QED
        BY <3>1 DEF AnyRow
    <2> DEFINE began == switches[j - 1].at
               ended == switches[j].at
    <2>7. began \in Nat /\ ended \in Nat /\ p.at <= ended /\ ended <= r.at
      BY <2>5, <2>6
    <2> HIDE DEF began, ended
    <2>8. e.upper # None => ended - began <= e.upper
      <3> SUFFICES ASSUME e.upper # None PROVE ended - began <= e.upper
        OBVIOUS
      <3>1. begin # None /\ e.upper = r.at - begin
        BY <2>3
      <3>2. PICK b \in S : b.mode = "LOCAL" /\ b.at < first.at /\ b.at = begin
        BY <2>3, <3>1 DEF Opened
      <3>3. begin <= began
        BY <2>5, <3>2 DEF began
      <3> DEFINE last == r.at
      <3>4. last \in Nat /\ ended <= last /\ e.upper = last - begin
        BY <2>6, <2>7, <3>1
      <3> HIDE DEF last
      <3> QED
        BY <2>7, <3>3, <3>4
    <2>9. ASSUME \A t \in resets : t < e.from - e.lower \/ t > e.to
          PROVE  ended - began >= e.lower
      <3> DEFINE f == first.at
                 u == p.at
                 last == r.at
      <3>1. f \in Nat /\ u \in Nat /\ last \in Nat /\ e.lower = u - f /\ e.from = u /\ e.to = last
        BY <2>2, <2>3, <2>6
      <3>2. u - (u - f) = f
        BY <3>1
      <3>3. \A t \in resets : t < f \/ t > last
        BY <2>9, <3>1, <3>2
      <3>4. began <= f
        BY <2>5, <3>3 DEF began
      <3>5. u <= ended
        BY <2>7
      <3> HIDE DEF f, u, last
      <3>6. ended - began >= u - f
        BY <2>7, <3>1, <3>4, <3>5
      <3> QED
        BY <3>1, <3>6
    <2>10. Bounds(e, j)
      BY <2>8, <2>9 DEF began, ended
    <2> HIDE DEF Bounds
    <2> QED
      BY <2>2, <2>5, <2>10
  <1> QED
    BY <1>1, EventsInvariant, PTL

-----------------------------------------------------------------------------
(* A verified archive: what it means that every event is sure.             *)

Clean(st) == \A k \in DOMAIN st.events : st.events[k].kind # "UNKNOWN"

\* No step takes an event back, and an unsure one is an event.
LEMMA EventsStay ==
  ASSUME NEW st \in LoopState, NEW e, NEW next,
         next.events = Append(st.events, e), Clean(next)
  PROVE  Clean(st) /\ e.kind # "UNKNOWN"
  <1> DEFINE any == AnyEvent \cup {e}
             events == st.events
             n == Len(events)
  <1>1. events \in Seq(any) /\ e \in any
    <2>1. events \in Seq(AnyEvent)
      BY DEF LoopState
    <2> DEFINE some == AnyEvent
    <2> HIDE DEF some
    <2>2. events \in Seq(some)
      BY <2>1 DEF some
    <2>3. events \in Seq(some \cup {e})
      BY <2>2
    <2> QED
      BY <2>3 DEF some
  <1> HIDE DEF any, events
  <1>2. /\ n \in Nat /\ DOMAIN events = 1..n /\ DOMAIN next.events = 1..(n + 1)
        /\ next.events[n + 1] = e /\ \A k \in 1..n : next.events[k] = events[k]
    BY <1>1 DEF events
  <1>3. e.kind # "UNKNOWN"
    <2>1. n + 1 \in DOMAIN next.events
      BY <1>2
    <2> QED
      BY <1>2, <2>1 DEF Clean
  <1>4. ASSUME NEW k \in DOMAIN events PROVE events[k].kind # "UNKNOWN"
    <2>1. k \in DOMAIN next.events /\ next.events[k] = events[k]
      BY <1>2
    <2> QED
      BY <2>1 DEF Clean
  <1> QED
    BY <1>3, <1>4 DEF Clean, events

LEMMA UnsureIsNotClean ==
  ASSUME NEW st \in LoopState, NEW at \in Int, NEW row,
         NEW code \in {"SAMPLE", "SAME", "ORDER", "RESET", "GAP", "MISSED"}
  PROVE  ~Clean(Lose(st, Unsure(code, at))) /\ ~Clean(StartAgain(st, row, Unsure(code, at)))
  <1> DEFINE e == Unsure(code, at)
  <1>1. e \in AnyEvent /\ e.kind = "UNKNOWN"
    BY DEF Unsure, AnyEvent, None
  <1> HIDE DEF e
  <1>2. /\ Lose(st, e).events = Append(st.events, e)
        /\ StartAgain(st, row, e).events = Append(st.events, e)
    BY DEF Lose, StartAgain
  <1> QED
    BY <1>1, <1>2, EventsStay DEF e

\* Two rows that the loop has nothing against.
Follows(p, r) ==
  /\ _sample(p) /\ _sample(r) /\ p.total <= r.total /\ ~Missed(p, r)

LEMMA CleanStep ==
  ASSUME NEW S, S \subseteq AnyRow, NEW st, StateHolds(S, st), NEW p \in S, NEW row \in S,
         p.at < row.at, st.previous = <<p>>, Clean(TakeRow(st, row))
  PROVE  /\ Clean(st) /\ TakeRow(st, row).previous = <<row>> /\ Follows(p, row)
  <1>1. /\ st \in LoopState /\ p.at \in Nat /\ row.at \in Nat
        /\ p.total \in Nat /\ row.total \in Nat
    BY DEF StateHolds, AnyRow
  <1>2. _sample(p) /\ WindowHolds(S, st.boot, p)
    <2>1. st.previous # <<>>
      OBVIOUS
    <2>2. PICK q \in S : st.previous = <<q>> /\ _sample(q) /\ WindowHolds(S, st.boot, q)
      BY <2>1 DEF StateHolds, PreviousHolds
    <2>3. q = p
      BY <2>2
    <2> QED
      BY <2>2, <2>3
  <1>3. _sample(row)
    <2>1. ASSUME ~_sample(row) PROVE FALSE
      <3>1. TakeRow(st, row) = Lose(st, Unsure("SAMPLE", None))
        BY <2>1 DEF TakeRow
      <3> QED
        BY <1>1, <3>1, UnsureIsNotClean DEF None
    <2> QED
      BY <2>1
  <1> DEFINE next == TakeRow(st, row)
  <1>4. next = Compare(st, p, row)
    BY <1>3 DEF TakeRow
  <1>5. next = IF row.total < p.total THEN StartAgain(st, row, Unsure("RESET", row.at))
               ELSE IF row.at - p.at > MAX_GAP
                 THEN StartAgain(st, row, Unsure("GAP", row.at))
               ELSE IF Missed(p, row) THEN StartAgain(st, row, Unsure("MISSED", row.at))
               ELSE IF row.mode = p.mode
                 THEN (IF row.mode = "BOOTSTRAP" THEN StayedBack(st, p, row)
                       ELSE [st EXCEPT !.previous = <<row>>])
               ELSE IF row.mode = "BOOTSTRAP" THEN FellBack(st, p, row)
               ELSE Restored(st, p, row)
    <2>1. row # p /\ row.at # p.at /\ ~(row.at < p.at) /\ row.at > p.at
      BY <1>1
    <2> QED
      BY <1>4, <2>1 DEF Compare
  <1>6. Clean(next)
    OBVIOUS
  <1> SUFFICES Clean(st) /\ next.previous = <<row>> /\ Follows(p, row)
    OBVIOUS
  <1> HIDE DEF next
  <1>7. \A code \in {"SAMPLE", "SAME", "ORDER", "RESET", "GAP", "MISSED"} :
          next # StartAgain(st, row, Unsure(code, row.at))
    <2>1. row.at \in Int
      BY <1>1
    <2> QED
      BY <1>1, <1>6, <2>1, UnsureIsNotClean
  <1>8. ~(row.total < p.total) /\ ~(row.at - p.at > MAX_GAP) /\ ~Missed(p, row)
    BY <1>5, <1>7
  <1>9. Follows(p, row)
    BY <1>1, <1>2, <1>3, <1>8 DEF Follows
  <1>10. next \in {StayedBack(st, p, row), [st EXCEPT !.previous = <<row>>],
                   FellBack(st, p, row), Restored(st, p, row)}
    BY <1>5, <1>8
  <1>11. /\ StayedBack(st, p, row).events = st.events
         /\ StayedBack(st, p, row).previous = <<row>>
         /\ [st EXCEPT !.previous = <<row>>].events = st.events
         /\ [st EXCEPT !.previous = <<row>>].previous = <<row>>
         /\ FellBack(st, p, row).previous = <<row>>
         /\ Restored(st, p, row).previous = <<row>>
    BY <1>1 DEF StayedBack, FellBack, Restored, LoopState
  <1>12. next.previous = <<row>>
    BY <1>10, <1>11
  <1>13. Clean(st)
    <2>1. CASE next.events = st.events
      BY <1>6, <2>1 DEF Clean
    <2>2. CASE next.events # st.events
      <3>1. next \in {FellBack(st, p, row), Restored(st, p, row)}
        BY <1>10, <1>11, <2>2
      <3>2. \E e : next.events = Append(st.events, e)
        <4>1. \E e : FellBack(st, p, row).events = Append(st.events, e)
          BY Zenon DEF FellBack
        <4>2. \E e : Restored(st, p, row).events = Append(st.events, e)
          BY Zenon DEF Restored
        <4> QED
          BY <3>1, <4>1, <4>2
      <3> QED
        BY <1>1, <1>6, <3>2, EventsStay
    <2> QED
      BY <2>1, <2>2
  <1> QED
    BY <1>9, <1>12, <1>13

LEMMA CleanBefore ==
  ASSUME NEW S, S \subseteq AnyRow, NEW st, StateHolds(S, st), NEW row \in S,
         Clean(TakeRow(st, row))
  PROVE  /\ Clean(st)
         /\ st.previous = <<>> => _sample(row) /\ TakeRow(st, row).previous = <<row>>
  <1>1. st \in LoopState
    BY DEF StateHolds
  <1>2. _sample(row)
    <2>1. ASSUME ~_sample(row) PROVE FALSE
      <3>1. TakeRow(st, row) = Lose(st, Unsure("SAMPLE", None))
        BY <2>1 DEF TakeRow
      <3> QED
        BY <1>1, <3>1, UnsureIsNotClean DEF None
    <2> QED
      BY <2>1
  <1>3. CASE st.previous = <<>>
    <2>1. TakeRow(st, row) = [st EXCEPT !.previous = <<row>>, !.boot = OpenWindow(row)]
      BY <1>2, <1>3 DEF TakeRow
    <2>2. TakeRow(st, row).events = st.events /\ TakeRow(st, row).previous = <<row>>
      BY <1>1, <2>1 DEF LoopState
    <2> QED
      BY <1>2, <2>2 DEF Clean
  <1>4. CASE st.previous # <<>>
    <2>1. PICK p \in S : st.previous = <<p>> /\ _sample(p) /\ WindowHolds(S, st.boot, p)
      BY <1>4 DEF StateHolds, PreviousHolds
    <2>2. TakeRow(st, row) = Compare(st, p, row)
      BY <1>2, <1>4, <2>1 DEF TakeRow
    <2>3. p.at \in Nat /\ row.at \in Nat /\ row.at \in Int
      BY DEF AnyRow
    <2>4. CASE row = p
      <3>1. Compare(st, p, row) = st
        BY <2>3, <2>4 DEF Compare
      <3> QED
        BY <1>4, <2>2, <3>1
    <2>5. CASE row # p /\ row.at = p.at
      <3>1. Compare(st, p, row) = Lose(st, Unsure("SAME", row.at))
        BY <2>3, <2>5 DEF Compare
      <3> QED
        BY <1>1, <2>2, <2>3, <3>1, UnsureIsNotClean
    <2>6. CASE row.at < p.at
      <3>1. Compare(st, p, row) = Lose(st, Unsure("ORDER", row.at))
        BY <2>3, <2>6 DEF Compare
      <3> QED
        BY <1>1, <2>2, <2>3, <3>1, UnsureIsNotClean
    <2>7. CASE p.at < row.at
      BY <1>4, <2>1, <2>7, CleanStep
    <2> QED
      BY <2>3, <2>4, <2>5, <2>6, <2>7
  <1> QED
    BY <1>3, <1>4

\* In increasing rows without an unsure event each row follows the one before.
LEMMA RowsFollow ==
  ASSUME NEW input \in Seq(AnyRow), Increasing(input), Clean(Loop(input)[Len(input)]),
         NEW n \in 1..(Len(input) - 1)
  PROVE  input[n].at < input[n + 1].at /\ Follows(input[n], input[n + 1])
  <1> DEFINE S == {input[i] : i \in DOMAIN input}
             L == Loop(input)
             N == Len(input)
  <1>1. S \subseteq AnyRow /\ N \in Nat /\ \A i \in 1..N : input[i] \in S
    OBVIOUS
  <1>2. \A i \in 0..N : StateHolds(S, L[i])
    BY LoopHolds
  <1>3. L[0] = Before /\ \A i \in 1..N : L[i] = TakeRow(L[i - 1], input[i])
    BY <1>1, LoopSteps
  <1>4. \A i \in 1..(N - 1) : input[i].at < input[i + 1].at
    BY DEF Increasing
  <1> HIDE DEF S, L
  <1>5. \A i \in 1..N : Clean(L[i]) => Clean(L[i - 1])
    <2>1. ASSUME NEW i \in 1..N, Clean(L[i]) PROVE Clean(L[i - 1])
      <3>1. i - 1 \in 0..N /\ input[i] \in S /\ L[i] = TakeRow(L[i - 1], input[i])
        BY <1>1, <1>3
      <3>2. StateHolds(S, L[i - 1]) /\ Clean(TakeRow(L[i - 1], input[i]))
        BY <1>2, <2>1, <3>1
      <3> QED
        BY <1>1, <3>1, <3>2, CleanBefore, Zenon
    <2> QED
      BY <2>1
  <1>6. ASSUME NEW i \in 0..N PROVE Clean(L[i])
    <2> SUFFICES ASSUME ~Clean(L[i]) PROVE FALSE
      OBVIOUS
    <2> DEFINE good == {k \in i..N : Clean(L[k])}
    <2>1. good \subseteq Nat /\ N \in good
      BY <1>1 DEF L
    <2>2. PICK m \in good : \A k \in good : m <= k
      <3> HIDE DEF good
      <3> QED
        BY <2>1, LeastNumber
    <2>3. m \in 1..N /\ m # i /\ Clean(L[m]) /\ m \in i..N
      BY <1>1
    <2>4. Clean(L[m - 1])
      BY <1>5, <2>3
    <2>5. m - 1 \in good
      BY <1>1, <2>3, <2>4
    <2> HIDE DEF good
    <2>6. m <= m - 1
      BY <2>2, <2>5
    <2> QED
      BY <1>1, <2>3, <2>6
  <1>7. ASSUME NEW i \in 1..(N - 1), L[i].previous = <<input[i]>>
        PROVE  L[i + 1].previous = <<input[i + 1]>> /\ Follows(input[i], input[i + 1])
    <2>1. /\ i \in 0..N /\ i + 1 \in 1..N /\ i + 1 \in 0..N /\ (i + 1) - 1 = i
          /\ input[i] \in S /\ input[i + 1] \in S
      BY <1>1
    <2>2. L[i + 1] = TakeRow(L[i], input[i + 1]) /\ Clean(L[i + 1])
      BY <1>3, <1>6, <2>1
    <2>3. /\ StateHolds(S, L[i]) /\ Clean(TakeRow(L[i], input[i + 1]))
          /\ input[i].at < input[i + 1].at
      BY <1>2, <1>4, <2>1, <2>2
    <2>4. TakeRow(L[i], input[i + 1]).previous = <<input[i + 1]>>
          /\ Follows(input[i], input[i + 1])
      <3> DEFINE st == L[i]
                 p == input[i]
                 r == input[i + 1]
      <3>1. /\ S \subseteq AnyRow /\ StateHolds(S, st) /\ p \in S /\ r \in S /\ p.at < r.at
            /\ st.previous = <<p>> /\ Clean(TakeRow(st, r))
        BY <1>1, <1>7, <2>1, <2>3
      <3> HIDE DEF st, p, r
      <3>2. TakeRow(st, r).previous = <<r>> /\ Follows(p, r)
        BY <3>1, CleanStep
      <3> QED
        BY <3>2 DEF st, p, r
    <2> QED
      BY <2>2, <2>4
  <1>8. ASSUME 1 <= N PROVE L[1].previous = <<input[1]>>
    <2>1. 1 \in 1..N /\ 1 \in 0..N /\ 0 \in 0..N /\ 1 - 1 = 0 /\ input[1] \in S
      BY <1>1, <1>8
    <2>2. L[1] = TakeRow(L[0], input[1]) /\ Clean(L[1]) /\ L[0].previous = <<>>
      BY <1>3, <1>6, <2>1 DEF Before
    <2>3. StateHolds(S, L[0]) /\ Clean(TakeRow(L[0], input[1]))
      BY <1>2, <2>1, <2>2
    <2>4. TakeRow(L[0], input[1]).previous = <<input[1]>>
      <3> DEFINE st == L[0]
                 r == input[1]
      <3>1. /\ S \subseteq AnyRow /\ StateHolds(S, st) /\ r \in S
            /\ st.previous = <<>> /\ Clean(TakeRow(st, r))
        BY <1>1, <2>1, <2>2, <2>3
      <3> HIDE DEF st, r
      <3>2. TakeRow(st, r).previous = <<r>>
        BY <3>1, CleanBefore
      <3> QED
        BY <3>2 DEF st, r
    <2> QED
      BY <2>2, <2>4
  <1>9. L[n].previous = <<input[n]>>
    <2> DEFINE bad == {k \in 1..(N - 1) : L[k].previous # <<input[k]>>}
    <2> SUFFICES ASSUME bad # {} PROVE FALSE
      OBVIOUS
    <2>1. bad \subseteq Nat
      OBVIOUS
    <2>2. PICK m \in bad : \A k \in bad : m <= k
      <3> HIDE DEF bad
      <3> QED
        BY <2>1, LeastNumber
    <2>3. m # 1
      BY <1>1, <1>8
    <2>4. m - 1 \in 1..(N - 1) /\ m - 1 \notin bad /\ (m - 1) + 1 = m
      <3>1. m \in 1..(N - 1)
        OBVIOUS
      <3>2. ~(m <= m - 1)
        BY <1>1, <3>1
      <3>3. m - 1 \notin bad
        <4> HIDE DEF bad
        <4> QED
          BY <2>2, <3>2
      <3> QED
        BY <1>1, <2>3, <3>1, <3>3
    <2> QED
      BY <1>7, <2>4
  <1> QED
    BY <1>4, <1>7, <1>9

-----------------------------------------------------------------------------
(* A verified archive: how many switches it can leave out.                 *)

LEMMA FewSwitches ==
  ASSUME NEW i \in Nat, NEW j \in Nat, i <= j, Ups(j) - Ups(i) \in {0, 1},
         Ups(j) - Ups(i) = 1 => ModeAfter(i) = "LOCAL" /\ ModeAfter(j) = "BOOTSTRAP"
  PROVE  IF ModeAfter(i) = ModeAfter(j) THEN j = i ELSE j = i + 1
BY DEF ModeAfter, Ups

\* Between two rows that follow each other there was at most one switch.
LEMMA FollowersPlaces ==
  ASSUME EventsInv, NEW p, NEW r, {p, r} \subseteq {rows[n] : n \in DOMAIN rows},
         p.at < r.at, Follows(p, r), \A t \in resets : t < p.at \/ t > r.at,
         NEW i \in 0..Len(switches), NEW j \in 0..Len(switches),
         Place(switches, p, i), Place(switches, r, j)
  PROVE  IF p.mode = r.mode THEN j = i ELSE j = i + 1
  <1>1. RouterHolds(switches, router, now) /\ PairHolds(switches, resets, p, r)
    BY DEF EventsInv, RowsHold
  <1>2. p \in AnyRow /\ r \in AnyRow
    BY RowAt DEF RowHolds
  <1>3. i \in Nat /\ j \in Nat /\ i <= j
    BY <1>1, <1>2, PlacesInOrder
  <1>4. p.mode = ModeAfter(i) /\ r.mode = ModeAfter(j)
    BY DEF Follows, _sample, Place
  <1> DEFINE a == p.total
             b == r.total
             u == Ups(i)
             v == Ups(j)
  <1>5. a \in Nat /\ b \in Nat /\ u \in Nat /\ v \in Nat /\ a <= b
    BY <1>2, <1>3, UpsSteps DEF AnyRow, Follows
  <1>6. b - a = v - u
    <2>1. p.at <= r.at
      BY <1>2 DEF AnyRow
    <2> QED
      BY <1>1, <2>1 DEF PairHolds
  <1>7. ~(b - a > 1) /\ (b - a > 0 => r.mode # p.mode /\ r.mode # "LOCAL")
    BY DEF Follows, Missed
  <1> HIDE DEF a, b, u, v
  <1>8. v - u \in {0, 1} /\ (v - u = 1 => b - a > 0)
    BY <1>5, <1>6, <1>7
  <1>9. v - u = 1 => ModeAfter(i) = "LOCAL" /\ ModeAfter(j) = "BOOTSTRAP"
    BY <1>3, <1>4, <1>7, <1>8, UpsSteps
  <1> QED
    BY <1>3, <1>4, <1>8, <1>9, FewSwitches DEF u, v

\* A verified archive has a window for every switch between its first and its last
\* sample, unless a restart or a lost count hid one from the counter.
THEOREM VerifiedComplete == EventsSpec => []VerifiedIsComplete
  <1>1. ASSUME EventsInv PROVE VerifiedIsComplete
    <2> DEFINE N == Len(rows)
               S == {rows[n] : n \in DOMAIN rows}
               between == {i \in DOMAIN switches :
                             rows[1].at < switches[i].at /\ switches[i].at < rows[N].at}
               C == Changes(rows)
    <2> SUFFICES ASSUME NEW windows \in Archive(rows),
                        \A t \in resets : t < rows[1].at \/ t > rows[N].at
                 PROVE  Cardinality(between) <= Len(windows)
      BY DEF VerifiedIsComplete
    <2>1. /\ windows = TransitionWindows(rows)
          /\ Increasing(rows) /\ N >= 2 /\ corroborated(rows)
      <3>1. Archive(rows) # {}
        OBVIOUS
      <3> QED
        BY <3>1 DEF Archive
    <2>2. rows \in Seq(AnyRow) /\ N \in Nat /\ switches \in Seq(AnySwitch) /\ Len(switches) \in Nat
          /\ RouterHolds(switches, router, now) /\ resets \subseteq Nat
      BY <1>1, HistoryTypes DEF EventsInv, RowsHold, RouterHolds
    <2>3. IsFiniteSet(C) /\ Cardinality(C) \in Nat /\ Len(windows) = Cardinality(C)
      <3>1. C \subseteq 1..(N - 1) /\ IsFiniteSet(1..(N - 1))
        <4>1. C \subseteq 1..(N - 1)
          BY DEF Changes
        <4>2. N - 1 \in Int /\ 1 \in Int
          BY <2>2
        <4> QED
          BY <4>1, <4>2, FS_Interval
      <3>2. IsFiniteSet(C) /\ Cardinality(C) \in Nat
        BY <3>1, FS_Subset, FS_CardinalityType
      <3> QED
        BY <2>1, <3>2 DEF TransitionWindows
    <2>4. ASSUME NEW n \in 1..(N - 1)
          PROVE  rows[n].at < rows[n + 1].at /\ Follows(rows[n], rows[n + 1])
      <3>1. Clean(Loop(rows)[N])
        BY <2>1 DEF corroborated, Sure, timeline, Clean
      <3> QED
        BY <2>1, <2>2, <3>1, RowsFollow
    <2>5. \A n \in 1..N : /\ RowHolds(switches, router, now, rows[n]) /\ rows[n].at \in Nat
      BY <1>1, <2>2 DEF EventsInv, RowsHold, RowHolds, AnyRow
    <2>6. \A m, n \in 1..N : m < n => rows[m].at < rows[n].at
      <3> SUFFICES ASSUME NEW m \in 1..N PROVE \A n \in 1..N : m < n => rows[m].at < rows[n].at
        OBVIOUS
      <3> DEFINE late == {n \in 1..N : m < n /\ ~(rows[m].at < rows[n].at)}
      <3> SUFFICES ASSUME late # {} PROVE FALSE
        OBVIOUS
      <3>1. PICK n \in late : \A k \in late : n <= k
        <4>1. late \subseteq Nat
          OBVIOUS
        <4> HIDE DEF late
        <4> QED
          BY <4>1, LeastNumber
      <3>2. n \in 1..N /\ m < n /\ ~(rows[m].at < rows[n].at)
        OBVIOUS
      <3>3. n - 1 \in 1..(N - 1) /\ n - 1 \in 1..N /\ (n - 1) + 1 = n
        BY <2>2, <3>2
      <3>4. rows[n - 1].at < rows[n].at
        BY <2>4, <3>3
      <3>5. n - 1 \notin late
        <4>1. ~(n <= n - 1)
          BY <3>2
        <4> HIDE DEF late
        <4> QED
          BY <3>1, <4>1
      <3>6. m = n - 1 \/ rows[m].at < rows[n - 1].at
        BY <3>2, <3>3, <3>5
      <3>7. rows[m].at \in Nat /\ rows[n - 1].at \in Nat /\ rows[n].at \in Nat
        BY <2>5, <3>2, <3>3
      <3> DEFINE x == rows[m].at
                 y == rows[n - 1].at
                 z == rows[n].at
      <3>8. (x = y \/ x < y) /\ y < z /\ ~(x < z) /\ x \in Nat /\ y \in Nat /\ z \in Nat
        BY <3>2, <3>4, <3>6, <3>7
      <3> HIDE DEF x, y, z
      <3> QED
        BY <3>8
    <2> DEFINE at == [n \in 1..N |-> CHOOSE k \in 0..Len(switches) : Place(switches, rows[n], k)]
    <2>7. \A n \in 1..N : at[n] \in 0..Len(switches) /\ Place(switches, rows[n], at[n])
      BY <2>5 DEF RowHolds
    <2> HIDE DEF at
    <2>8. ASSUME NEW n \in 1..(N - 1)
          PROVE  IF rows[n].mode = rows[n + 1].mode THEN at[n + 1] = at[n]
                                                    ELSE at[n + 1] = at[n] + 1
      <3>1. n \in 1..N /\ n + 1 \in 1..N /\ {rows[n], rows[n + 1]} \subseteq S
        BY <2>2
      <3>2. \A t \in resets : t < rows[n].at \/ t > rows[n + 1].at
        <4> SUFFICES ASSUME NEW t \in resets PROVE t < rows[n].at \/ t > rows[n + 1].at
          OBVIOUS
        <4> DEFINE a == rows[1].at
                   b == rows[n].at
                   c == rows[n + 1].at
                   e == rows[N].at
        <4>1. 1 \in 1..N /\ N \in 1..N /\ (n = 1 \/ 1 < n) /\ (n + 1 = N \/ n + 1 < N)
          BY <2>1, <2>2, <3>1
        <4>2. /\ a \in Nat /\ b \in Nat /\ c \in Nat /\ e \in Nat /\ t \in Nat
              /\ (a = b \/ a < b) /\ (c = e \/ c < e) /\ (t < a \/ t > e)
          <5>1. t < a \/ t > e
            OBVIOUS
          <5>2. (a = b \/ a < b) /\ (c = e \/ c < e)
            BY <2>6, <3>1, <4>1
          <5>3. a \in Nat /\ b \in Nat /\ c \in Nat /\ e \in Nat /\ t \in Nat
            BY <2>2, <2>5, <3>1, <4>1
          <5> QED
            BY <5>1, <5>2, <5>3
        <4> SUFFICES t < b \/ t > c
          OBVIOUS
        <4> HIDE DEF a, b, c, e
        <4> QED
          BY <4>2
      <3> DEFINE p == rows[n]
                 r == rows[n + 1]
                 i == at[n]
                 j == at[n + 1]
      <3>3. /\ EventsInv /\ {p, r} \subseteq {rows[k] : k \in DOMAIN rows}
            /\ p.at < r.at /\ Follows(p, r) /\ \A t \in resets : t < p.at \/ t > r.at
            /\ i \in 0..Len(switches) /\ j \in 0..Len(switches)
            /\ Place(switches, p, i) /\ Place(switches, r, j)
        BY <1>1, <2>4, <2>7, <3>1, <3>2
      <3> SUFFICES IF p.mode = r.mode THEN j = i ELSE j = i + 1
        OBVIOUS
      <3> HIDE DEF p, r, i, j
      <3> QED
        BY <3>3, FollowersPlaces
    <2>9. ASSUME NEW d \in between PROVE \E n \in C : at[n + 1] = d
      <3> DEFINE past == {n \in 1..N : d <= at[n]}
                 x == AtOf(switches, at[1])
                 y == AtOf(switches, d)
      <3>1. /\ d \in 1..Len(switches) /\ d \in 0..Len(switches) /\ y = switches[d].at
            /\ rows[1].at < y /\ y < rows[N].at /\ 1 \in 1..N /\ N \in 1..N
        BY <2>1, <2>2 DEF AtOf
      <3>2. \A n \in 1..N : at[n] \in Int
        BY <2>2, <2>7
      <3>3. ~(d <= at[1])
        <4>1. x \in Nat /\ y \in Nat /\ rows[1].at \in Nat /\ x <= rows[1].at
          BY <2>2, <2>5, <2>7, <3>1, HistoryTypes DEF Place
        <4>2. ASSUME d <= at[1] PROVE y <= x
          <5>1. d = at[1] \/ d < at[1]
            BY <3>1, <3>2, <4>2
          <5>2. \A i, j \in 0..Len(switches) : i < j => AtOf(switches, i) < AtOf(switches, j)
            BY <2>2, HistoryTypes
          <5>3. at[1] \in 0..Len(switches)
            BY <2>7, <3>1
          <5>4. y = x \/ y < x
            BY <3>1, <5>1, <5>2, <5>3
          <5> QED
            BY <4>1, <5>4
        <4> DEFINE z == rows[1].at
        <4>3. z < y
          BY <3>1
        <4> HIDE DEF x, y, z
        <4> QED
          BY <4>1, <4>2, <4>3 DEF z
      <3>4. d <= at[N]
        <4>1. at[N] < d => rows[N].at <= switches[d].at
          BY <2>7, <3>1 DEF Place
        <4>2. switches[d].at \in Nat /\ rows[N].at \in Nat
          BY <2>2, <2>5, <3>1, HistoryTypes
        <4> DEFINE z == rows[N].at
                   w == switches[d].at
        <4>3. w \in Nat /\ z \in Nat /\ w < z /\ (at[N] < d => z <= w)
          BY <3>1, <4>1, <4>2
        <4> HIDE DEF z, w
        <4>4. ~(at[N] < d)
          BY <4>3
        <4> QED
          BY <3>1, <3>2, <4>4
      <3>5. PICK n \in past : \A k \in past : n <= k
        <4>1. past \subseteq Nat /\ N \in past
          BY <3>1, <3>4
        <4> HIDE DEF past
        <4> QED
          BY <4>1, LeastNumber
      <3>6. n \in 1..N /\ d <= at[n] /\ n # 1
        BY <3>3
      <3>7. n - 1 \in 1..(N - 1) /\ n - 1 \in 1..N /\ (n - 1) + 1 = n
        BY <2>2, <3>6
      <3>8. ~(d <= at[n - 1])
        <4>1. ~(n <= n - 1)
          BY <3>6
        <4>2. n - 1 \notin past
          <5> HIDE DEF past
          <5> QED
            BY <3>5, <4>1
        <4> QED
          BY <3>7, <4>2
      <3> DEFINE p == rows[n - 1]
                 r == rows[n]
                 i == at[n - 1]
                 j == at[n]
      <3>9. /\ i \in Int /\ j \in Int /\ d \in Int /\ d <= j /\ ~(d <= i)
            /\ IF p.mode = r.mode THEN j = i ELSE j = i + 1
        BY <2>8, <3>1, <3>2, <3>6, <3>7, <3>8
      <3>10. Follows(p, r)
        BY <2>4, <3>7
      <3>11. n - 1 \in C <=> RawMode(p) # RawMode(r)
        BY <3>7 DEF Changes
      <3> HIDE DEF p, r, i, j
      <3>12. j = d /\ p.mode # r.mode
        BY <3>9
      <3>13. RawMode(p) # RawMode(r)
        BY <3>10, <3>12 DEF Follows, _sample, RawMode
      <3> QED
        BY <3>7, <3>11, <3>12, <3>13 DEF j
    <2> DEFINE f == [d \in between |-> CHOOSE n \in C : at[n + 1] = d]
    <2>10. \A d \in between : f[d] \in C /\ at[f[d] + 1] = d
      BY <2>9
    <2> HIDE DEF f, between, C
    <2>11. f \in Injection(between, C)
      <3>1. f \in [between -> C]
        BY <2>10 DEF f
      <3>2. \A d, e \in between : f[d] = f[e] => d = e
        BY <2>10
      <3>3. IsInjective(f)
        BY <3>1, <3>2 DEF IsInjective
      <3> QED
        BY <3>1, <3>3 DEF Injection
    <2> QED
      BY <2>3, <2>11, FS_Injection
  <1> QED
    BY <1>1, EventsInvariant, PTL

=============================================================================
