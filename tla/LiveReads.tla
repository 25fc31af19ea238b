----------------------------- MODULE LiveReads -----------------------------
(***************************************************************************)
(* The readers of live metrics: the summary of scrape targets (V0.2), DNS  *)
(* Guard's telemetry (V0.3), the router's DNS probe (V0.4), and the pair   *)
(* of observations of the local agent (C.63.8.1 and C.63.9).  Each makes   *)
(* its fixed queries one after the other while samples arrive and time     *)
(* passes, and joins the answers to one claim.  VictoriaMetrics is what    *)
(* the queries show of it: the newest sample that is not too old.          *)
(***************************************************************************)
EXTENDS Observation, Sequences, FiniteSets

CONSTANTS
  Targets,          \* of the scrapes; the other metrics have one source
  One,              \* that one
  TTL_SECONDS,      \* of V0.2 and V0.4
  MAX_COLLECTION_AGE, \* of V0.3
  LOOKBACK,         \* of an instant query
  MAX_SPAN,         \* between two observations
  LastMoment,       \* bound: when the clock stops
  MaxSamples        \* bound: samples

ASSUME LiveAssumption ==
  /\ IsFiniteSet(Targets) /\ One \in Targets
  /\ TTL_SECONDS \in Nat /\ MAX_COLLECTION_AGE \in Nat /\ LOOKBACK \in Nat
  /\ MAX_SPAN \in Nat \ {0} /\ LastMoment \in Nat /\ MaxSamples \in Nat

VARIABLES
  clock,   \* the time, of VictoriaMetrics and of the readers
  series,  \* the samples of each source, oldest first
  kind,    \* which reader this is
  run,     \* when it started and what it has read
  reports  \* what it has reported

lvars == <<clock, series, kind, run, reports>>

Kinds == {"summary", "guard", "probe", "boundary"}
Sources == IF kind = "summary" THEN Targets ELSE {One}
Scrapes == kind \in {"summary", "probe"}
Shows == IF Scrapes THEN {"UP", "DOWN"} ELSE {"LOCAL", "BOOTSTRAP", "INVALID"}

Idle == [reading |-> FALSE, start |-> 0, values |-> <<>>]

Finished == run = Idle /\ Len(reports) = (IF kind = "boundary" THEN 2 ELSE 1)

LiveInit ==
  /\ clock = 1
  /\ series = [t \in Targets |-> <<>>]
  /\ kind \in Kinds
  /\ run = Idle
  /\ reports = <<>>

-----------------------------------------------------------------------------
(* VictoriaMetrics, and what is written to it.                             *)

\* A read is over within a step of the clock: every query has a timeout.
Pass ==
  /\ clock < LastMoment /\ ~Finished
  /\ run.reading => clock = run.start
  /\ clock' = clock + 1
  /\ UNCHANGED <<series, kind, run, reports>>

Samples == {p \in Sources \X (1..MaxSamples) : p[2] \in DOMAIN series[p[1]]}

\* DNS Guard is collected once a minute, which is longer than the spread allowed
\* between the samples of one observation (dns-guard-monitoring.timer).
Apart == IF Scrapes THEN 0 ELSE MAX_SPREAD

\* One import, or one scrape: all metrics of a collection come together, a
\* little after it was made.
Ingest(source) ==
  LET old == series[source] IN
  /\ Cardinality(Samples) < MaxSamples /\ ~Finished
  /\ \E what \in Shows, late \in (IF Scrapes THEN {0} ELSE 0..1) :
       LET new == [at |-> clock, collected |-> clock - late, shows |-> what] IN
       /\ \A i \in 1..Len(old) :
            new.at - old[i].at > Apart /\ old[i].collected < new.collected
       /\ series' = [series EXCEPT ![source] = Append(old, new)]
  /\ UNCHANGED <<clock, kind, run, reports>>

\* What an instant query for a moment finds, in a set of at most one.
At(source, moment) ==
  LET seen == {i \in DOMAIN series[source] :
                 /\ series[source][i].at <= moment
                 /\ moment - series[source][i].at <= LOOKBACK} IN
  {series[source][i] : i \in {j \in seen : \A k \in seen : k <= j}}

-----------------------------------------------------------------------------
(* The queries, in order, and their answers.                               *)

Queries(reader) ==
  [summary  |-> <<"total", "healthy", "age">>,
   probe    |-> <<"total", "healthy", "age">>,
   guard    |-> <<"collection", "valid", "local", "bootstrap">>,
   boundary |-> <<"collection", "collection_time", "valid", "valid_time",
                  "local", "local_time", "bootstrap", "bootstrap_time">>][reader]

\* Mutant: the flags are read before the collection they are dated by.
QUERIES_CollectionLast ==
  LET q == Queries(kind) IN
  CASE kind = "guard" -> <<q[2], q[3], q[4], q[1]>>
    [] kind = "boundary" -> <<q[3], q[4], q[5], q[6], q[7], q[8], q[1], q[2]>>
    [] OTHER -> q

QUERIES == Queries(kind)

Flag(condition) == IF condition THEN 1 ELSE 0

\* Of a metric of one source: its value, or the time of its sample.
Metric(query, sample) ==
  IF query = "collection" THEN sample.collected
  ELSE IF query = "valid" THEN Flag(sample.shows # "INVALID")
  ELSE IF query = "local" THEN Flag(sample.shows = "LOCAL")
  ELSE IF query = "bootstrap" THEN Flag(sample.shows = "BOOTSTRAP")
  ELSE sample.at

\* Of an aggregate over the sources.
Aggregate(query) ==
  LET found == {t \in Sources : At(t, clock) # {}} IN
  IF query = "total" THEN Cardinality(found)
  ELSE IF query = "healthy"
    THEN Cardinality({t \in found : \E s \in At(t, clock) : s.shows = "UP"})
  ELSE CHOOSE a \in 0..LOOKBACK :
         /\ \E t \in found : \E s \in At(t, clock) : clock - s.at = a
         /\ \A t \in found : \A s \in At(t, clock) : clock - s.at <= a

\* The observations of C.63.8.1 are for the moment at which they started.
Moment == IF kind = "boundary" THEN run.start ELSE clock

Empty == \A t \in Sources : At(t, Moment) = {}

Answer(query) ==
  IF Empty THEN Missing
  ELSE IF Scrapes THEN Aggregate(query)
  ELSE Metric(query, CHOOSE s \in At(One, Moment) : TRUE)

Got(query) == run.values[CHOOSE i \in DOMAIN QUERIES : QUERIES[i] = query]

-----------------------------------------------------------------------------
(* The projections.                                                        *)

Unknown == "UNKNOWN"

\* V0.2: project_aggregates.
project_aggregates ==
  IF ~(Got("total") >= 1 /\ Got("healthy") <= Got("total")) THEN Unknown
  ELSE IF Got("age") > TTL_SECONDS THEN "STALE"
  ELSE IF Got("healthy") = Got("total") THEN "OK"
  ELSE IF Got("healthy") = 0 THEN "DOWN" ELSE "DEGRADED"

\* V0.3: snapshot, as far as the mode goes.
snapshot ==
  IF Got("collection") <= 0 \/ Got("collection") > clock THEN Unknown
  ELSE IF clock - Got("collection") > MAX_COLLECTION_AGE THEN "STALE"
  ELSE IF Got("valid") # 1 \/ Got("local") + Got("bootstrap") # 1 THEN Unknown
  ELSE IF Got("local") = 1 THEN "LOCAL" ELSE "BOOTSTRAP"

\* V0.4: collect and project_live.
project_live ==
  IF Got("total") # 1 \/ Got("healthy") \notin {0, 1} THEN Unknown
  ELSE IF Got("age") > TTL_SECONDS THEN "STALE"
  ELSE IF Got("healthy") = 1 THEN "OK" ELSE "DEGRADED"

TimeOf == [collection |-> "collection_time", valid |-> "valid_time",
           local |-> "local_time", bootstrap |-> "bootstrap_time"]

observe ==
  assess([k \in METRICS |-> Got(k)], [k \in METRICS |-> Got(TimeOf[k])], run.start)

Plain(status) == [at |-> clock, classification |-> status, mode |-> status, healthy |-> 0]

Projection ==
  IF kind = "guard" THEN Plain(snapshot)
  ELSE IF kind = "boundary" THEN observe
  ELSE [Plain(IF kind = "summary" THEN project_aggregates ELSE project_live)
          EXCEPT !.healthy = Got("healthy")]

-----------------------------------------------------------------------------
(* compare(first, second) of C.63.9.                                       *)

Advanced(first, second) == {k \in METRICS : second.times[k] > first.times[k]}
Known(first, second) == {k \in METRICS : first.times[k] # Missing /\ second.times[k] # Missing}

\* Mutant: two qualified observations are two distinct ones.
compare_AnyTwo(first, second) ==
  IF first.classification = QUALIFIED /\ second.classification = QUALIFIED
    THEN "TWO_DISTINCT" ELSE "NOT_QUALIFIED"

compare(first, second) ==
  LET known == Known(first, second) IN
  IF \E k \in known : second.times[k] < first.times[k] THEN "REGRESSION"
  ELSE IF second.classification # QUALIFIED THEN "SECOND_NOT_QUALIFIED"
  ELSE IF first.classification # QUALIFIED THEN "UNQUALIFIED_THEN_FRESH"
  ELSE IF known \cap Advanced(first, second) = METRICS THEN "TWO_DISTINCT"
  ELSE IF \A k \in METRICS : k \in known /\ second.times[k] = first.times[k] THEN "SAME"
  ELSE "PARTIAL"

-----------------------------------------------------------------------------
(* A reader.                                                               *)

\* At once, and for the second observation after a fixed time.
Begin ==
  /\ ~run.reading /\ ~Finished
  /\ reports # <<>> => clock - reports[1].at \in 1..MAX_SPAN
  /\ run' = [reading |-> TRUE, start |-> clock, values |-> <<>>]
  /\ UNCHANGED <<clock, series, kind, reports>>

Query ==
  /\ run.reading /\ Len(run.values) < Len(QUERIES)
  /\ kind = "boundary" \/ ~Empty
  /\ run' = [run EXCEPT !.values = Append(@, Answer(QUERIES[Len(@) + 1]))]
  /\ UNCHANGED <<clock, series, kind, reports>>

\* No answer, or none that is well formed, an empty one included where one
\* row is required.  The observations of the agent end in Hold, unreported.
QueryFails ==
  /\ run.reading /\ Len(run.values) < Len(QUERIES)
  /\ kind # "boundary"
  /\ run' = Idle
  /\ reports' = Append(reports, Plain(Unknown))
  /\ UNCHANGED <<clock, series, kind>>

Report ==
  /\ run.reading /\ Len(run.values) = Len(QUERIES)
  /\ run' = Idle
  /\ reports' = Append(reports, Projection)
  /\ UNCHANGED <<clock, series, kind>>

LiveNext ==
  \/ Pass \/ \E t \in Sources : Ingest(t)
  \/ Begin \/ Query \/ QueryFails \/ Report

LiveSpec == LiveInit /\ [][LiveNext]_lvars

-----------------------------------------------------------------------------
\* How old a sample behind a claim may be.  The age of a scrape is asked for
\* last and may be that of a newer sample, so only the lookback bounds it.
FreshLimit ==
  IF kind = "guard" THEN MAX_COLLECTION_AGE
  ELSE IF kind = "boundary" THEN TTL_COLLECTION ELSE LOOKBACK + 1

\* Somebody collected what is claimed, and not long before.
Behind(source, what, moment, limit) ==
  \E i \in DOMAIN series[source] :
    series[source][i].shows = what /\ moment - series[source][i].collected <= limit

\* A mode that is claimed was that of DNS Guard at a collection younger than
\* the reader's limit, and as many targets as are called healthy were up
\* within it, although the answers are of different moments.
ClaimIsFresh ==
  \A i \in DOMAIN reports :
    LET report == reports[i] IN
    report.at = clock =>
      /\ report.mode \in {"LOCAL", "BOOTSTRAP"} =>
           Behind(One, report.mode, report.at, FreshLimit)
      /\ Scrapes /\ report.mode \in {"OK", "DEGRADED"} =>
           Cardinality({t \in Sources : Behind(t, "UP", report.at, FreshLimit)}) >= report.healthy

\* Two observations that are called distinct: the mode of the second is one
\* collected after everything that the first has seen.
DistinctMeansNewer ==
  kind = "boundary" /\ Len(reports) = 2 /\ compare(reports[1], reports[2]) = "TWO_DISTINCT" =>
    \E i \in DOMAIN series[One] :
      /\ series[One][i].shows = reports[2].mode
      /\ \A k \in METRICS : series[One][i].at > reports[1].times[k]

=============================================================================
