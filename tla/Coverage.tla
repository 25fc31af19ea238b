------------------------------ MODULE Coverage ------------------------------
(***************************************************************************)
(* How much of a time window the samples of DNS Guard cover: the reader of *)
(* the exported series (v06_history_source.py), the analysis of them       *)
(* (v06_coverage_model.py), and the check of the report by the process     *)
(* that started the reader (v06_b3b2_source_supervisor.py) and once more   *)
(* by the one that answers with it (v06_b3b2b_manual_http.py).             *)
(***************************************************************************)
EXTENDS Integers, Sequences, FiniteSets

CONSTANTS
  Window,           \* its length, from 0
  Names,            \* the series
  MAX_SKEW,         \* between samples that belong together
  MAX_DELAY,        \* between the collection of a row and its sample
  MAX_AHEAD,        \* of the router's own times, after its collection
  GAP_THRESHOLD,    \* what is longer is a gap
  MAX_OUTPUT_ITEMS, \* gaps, and segments, in a report
  Exports,          \* what the source may answer: a stream of samples a name
  Forgeries         \* reports that some other child might print

\* batch is the collection a sample is of, which the code does not see.
Sample == [at : Int, batch : Int, value : Int]
Positions == {"LEADING", "INTERNAL", "TRAILING"}
CoverageReport == [rows : Int, invalid : Int, certain : BOOLEAN,
                   gaps : Seq([position : Positions, from : Int, to : Int]),
                   segments : Seq([from : Int, to : Int, rows : Int])]

ASSUME CoverageAssumption ==
  /\ Window \in Nat \ {0} /\ MAX_SKEW \in Nat /\ MAX_DELAY \in Nat /\ MAX_AHEAD \in Nat
  /\ GAP_THRESHOLD \in Nat \ {0}
  /\ MAX_OUTPUT_ITEMS \in Nat \ {0}
  /\ {"mode_local", "mode_bootstrap", "state_valid", "last_transition", "fallback_since",
      "collection"} \subseteq Names
  /\ \A s \in Exports : s \in [Names -> Seq(Sample)]
  /\ \A f \in Forgeries : f \in CoverageReport

\* DNS Guard is collected once a minute and MAX_SKEW_MS is 5 s: samples that are
\* close are of one collection, where a series may have lost some.
ASSUME CollectionsAreApart ==
  \A s \in Exports :
    \/ \A n, m \in Names : \A i \in 1..Len(s[n]), j \in 1..Len(s[m]) :
         s[n][i].at - s[m][j].at \in -MAX_SKEW..MAX_SKEW => s[n][i].batch = s[m][j].batch
    \/ \A n, m \in Names :
         Len(s[n]) = Len(s[m]) /\ \A i \in 1..Len(s[n]) : s[n][i].batch = s[m][i].batch

VARIABLES
  stage,   \* how far the report is
  streams, \* what was read
  printed, \* the child's report, in a set of one; empty for UNKNOWN
  answer   \* the answer, likewise

cvars == <<stage, streams, printed, answer>>

NoStreams == [n \in Names |-> <<>>]
UNKNOWN == {}

-----------------------------------------------------------------------------
(* parse_chunks and analyze.                                               *)

Ordered(stream) ==
  /\ \A i \in 1..Len(stream) : stream[i].at \in 0..Window
  /\ \A i \in 1..(Len(stream) - 1) : stream[i].at < stream[i + 1].at

\* Mutant: the series are taken as aligned when they are as long.
Aligned_ByLength(s) == \A n \in Names : Len(s[n]) = Len(s["mode_bootstrap"])

Aligned(s) ==
  /\ \A n \in Names : Len(s[n]) = Len(s["mode_bootstrap"])
  /\ \A n \in Names : \A i \in 1..Len(s[n]) :
       s[n][i].at - s["mode_bootstrap"][i].at \in -MAX_SKEW..MAX_SKEW

Collected(s) ==
  \A i \in 1..Len(s["collection"]) :
    s["mode_bootstrap"][i].at - s["collection"][i].value \in -MAX_DELAY..MAX_DELAY

\* No row reports a transition or a fallback from after its collection.
NoneAhead(s) ==
  \A i \in 1..Len(s["collection"]), n \in {"last_transition", "fallback_since"} :
    s[n][i].value <= s["collection"][i].value + MAX_AHEAD

Times(s) == [i \in 1..Len(s["mode_bootstrap"]) |-> s["mode_bootstrap"][i].at]

\* is_valid: in one mode, and since when only if that is BOOTSTRAP.
Valid(s) ==
  [i \in 1..Len(s["state_valid"]) |->
     /\ s["state_valid"][i].value = 1
     /\ s["mode_local"][i].value + s["mode_bootstrap"][i].value = 1
     /\ s["mode_bootstrap"][i].value = 1 \/ s["fallback_since"][i].value = 0]

\* The ends of the window stand before the first sample and after the last.
Bound(times, i) ==
  IF i = 0 THEN 0 ELSE IF i = Len(times) + 1 THEN Window ELSE times[i]
Position(times, i) ==
  IF i = 1 THEN "LEADING" ELSE IF i = Len(times) + 1 THEN "TRAILING" ELSE "INTERNAL"

gap(gaps, from, to, position) ==
  IF to - from > GAP_THRESHOLD
    THEN Append(gaps, [position |-> position, from |-> from, to |-> to]) ELSE gaps

\* The gaps found before each sample, and before the end of the window.
GapLoop(times) ==
  LET gaps[i \in 0..(Len(times) + 1)] ==
        IF i = 0 THEN <<>>
        ELSE gap(gaps[i - 1], Bound(times, i - 1), Bound(times, i), Position(times, i)) IN
  gaps

Gaps(times) == GapLoop(times)[Len(times) + 1]

Segment(times, first, last) ==
  [from |-> times[first], to |-> times[last], rows |-> last - first + 1]

\* run is the first sample of the run that goes on, or 0.
close_run(times, st, last) ==
  IF st.run = 0 THEN st
  ELSE [run |-> 0, found |-> Append(st.found, Segment(times, st.run, last))]

\* Mutant: a run of samples is closed by an invalid one only.
TakeSample_OverGaps(times, valid, st, i) ==
  LET closed == IF ~valid[i] THEN close_run(times, st, i - 1) ELSE st IN
  IF valid[i] /\ closed.run = 0 THEN [closed EXCEPT !.run = i] ELSE closed

\* A run goes on while samples are valid and no gap comes between.
TakeSample(times, valid, st, i) ==
  LET broken == ~valid[i] \/ (i > 1 /\ times[i] - times[i - 1] > GAP_THRESHOLD)
      closed == IF broken THEN close_run(times, st, i - 1) ELSE st IN
  IF valid[i] /\ closed.run = 0 THEN [closed EXCEPT !.run = i] ELSE closed

SegmentLoop(times, valid) ==
  LET st[i \in 0..Len(times)] ==
        IF i = 0 THEN [run |-> 0, found |-> <<>>]
                 ELSE TakeSample(times, valid, st[i - 1], i) IN
  st

Segments(times, valid) ==
  close_run(times, SegmentLoop(times, valid)[Len(times)], Len(times)).found

analyze(s) ==
  IF \/ \E n \in Names : ~Ordered(s[n])
     \/ Len(s["mode_bootstrap"]) = 0
     \/ ~Aligned(s) \/ ~Collected(s) \/ ~NoneAhead(s)
    THEN UNKNOWN
    ELSE LET times == Times(s)
             gaps == Gaps(times)
             segments == Segments(times, Valid(s))
             invalid == Cardinality({i \in 1..Len(times) : ~Valid(s)[i]}) IN
         IF Len(gaps) > MAX_OUTPUT_ITEMS \/ Len(segments) > MAX_OUTPUT_ITEMS
           THEN UNKNOWN
           ELSE {[rows |-> Len(times), invalid |-> invalid,
                  gaps |-> gaps, segments |-> segments,
                  certain |-> gaps = <<>> /\ invalid = 0]}

-----------------------------------------------------------------------------
(* _project: the report of a child, believed only as far as it adds up.    *)

\* Mutant: two gaps may not meet at a sample.
GapsInOrder_Apart(gaps) ==
  /\ \A i \in 1..Len(gaps) :
       gaps[i].from >= 0 /\ gaps[i].to <= Window /\ gaps[i].to - gaps[i].from > GAP_THRESHOLD
  /\ \A i \in 1..(Len(gaps) - 1) : gaps[i + 1].from > gaps[i].to
  /\ \A i \in 2..Len(gaps) : gaps[i].position # "LEADING"
  /\ \A i \in 1..(Len(gaps) - 1) : gaps[i].position # "TRAILING"

GapsInOrder(gaps) ==
  /\ \A i \in 1..Len(gaps) :
       gaps[i].from >= 0 /\ gaps[i].to <= Window /\ gaps[i].to - gaps[i].from > GAP_THRESHOLD
  /\ \A i \in 1..(Len(gaps) - 1) : gaps[i + 1].from >= gaps[i].to
  /\ \A i \in 2..Len(gaps) : gaps[i].position # "LEADING"
  /\ \A i \in 1..(Len(gaps) - 1) : gaps[i].position # "TRAILING"

\* The rows of the first segments.
valid_sum(segments) ==
  LET sum[k \in 0..Len(segments)] == IF k = 0 THEN 0 ELSE sum[k - 1] + segments[k].rows IN
  sum

SegmentsInOrder(report) ==
  LET segments == report.segments IN
  /\ \A i \in 1..Len(segments) :
       /\ segments[i].from >= 0 /\ segments[i].to <= Window
       /\ segments[i].from <= segments[i].to
       /\ segments[i].rows \in 1..report.rows
       /\ \A k \in 1..Len(report.gaps) :
            ~(report.gaps[k].from < segments[i].to /\ segments[i].from < report.gaps[k].to)
  /\ \A i \in 1..(Len(segments) - 1) : segments[i].to < segments[i + 1].from
  /\ valid_sum(segments)[Len(segments)] = report.rows - report.invalid

\* Mutant: a segment may be longer than its rows can bridge.
Possible_AnyLength(segment) == segment.to - segment.from >= segment.rows - 1

Possible(segment) ==
  segment.to - segment.from \in (segment.rows - 1)..((segment.rows - 1) * GAP_THRESHOLD)

\* Without invalid rows gaps and segments must meet exactly.  What is internal
\* lies between a leading gap, if there is one, and a trailing one.
Joined(report) ==
  LET gaps == report.gaps
      segments == report.segments
      n == Len(segments)
      has(position) == \E k \in 1..Len(gaps) : gaps[k].position = position
      internal == Cardinality({k \in 1..Len(gaps) : gaps[k].position = "INTERNAL"})
      leading == IF has("LEADING") THEN 1 ELSE 0 IN
  /\ n = internal + 1
  /\ IF has("LEADING") THEN gaps[1].from = 0 /\ gaps[1].to = segments[1].from
                       ELSE segments[1].from <= GAP_THRESHOLD
  /\ IF has("TRAILING")
       THEN gaps[Len(gaps)].from = segments[n].to /\ gaps[Len(gaps)].to = Window
       ELSE Window - segments[n].to <= GAP_THRESHOLD
  /\ \A k \in 1..internal :
       /\ gaps[leading + k].from = segments[k].to
       /\ gaps[leading + k].to = segments[k + 1].from
  /\ \A k \in 1..n : Possible(segments[k])

_project(report) ==
  IF /\ report.rows >= 1 /\ report.invalid \in 0..report.rows
     /\ Len(report.gaps) <= MAX_OUTPUT_ITEMS /\ Len(report.segments) <= MAX_OUTPUT_ITEMS
     /\ GapsInOrder(report.gaps)
     /\ SegmentsInOrder(report)
     /\ report.certain = (report.gaps = <<>> /\ report.invalid = 0)
     /\ report.invalid = 0 => Joined(report)
    THEN {report} ELSE UNKNOWN

-----------------------------------------------------------------------------
(* The way of a report.                                                    *)

CoverageInit ==
  /\ answer = UNKNOWN
  /\ \/ stage = "read" /\ streams \in Exports /\ printed = UNKNOWN
     \/ stage = "printed" /\ streams = NoStreams /\ printed \in {{f} : f \in Forgeries}

read_local ==
  /\ stage = "read"
  /\ printed' = analyze(streams)
  /\ stage' = "printed"
  /\ UNCHANGED <<streams, answer>>

Accept ==
  /\ stage = "printed"
  /\ answer' = UNION {_project(report) : report \in printed}
  /\ stage' = "accepted"
  /\ UNCHANGED <<streams, printed>>

sanitize_result ==
  /\ stage = "accepted"
  /\ answer' = UNION {_project(report) : report \in answer}
  /\ stage' = "answered"
  /\ UNCHANGED <<streams, printed>>

CoverageNext == read_local \/ Accept \/ sanitize_result
CoverageSpec == CoverageInit /\ [][CoverageNext]_cvars

-----------------------------------------------------------------------------
FromSource == streams # NoStreams

\* The report says exactly what the samples cover: its gaps are the stretches
\* of the window over the threshold without a sample, its segments the longest
\* runs of valid samples with no gap inside, with as many rows as they have samples.
ReportIsExact ==
  FromSource => \A report \in printed :
    LET times == Times(streams)
        samples == DOMAIN times
        at == {times[i] : i \in samples} \cup {0, Window}
        empty(a, b) == \A i \in samples : times[i] <= a \/ times[i] >= b
        run(i, j) ==
          /\ i <= j /\ \A k \in i..j : Valid(streams)[k]
          /\ \A k \in (i + 1)..j : times[k] - times[k - 1] <= GAP_THRESHOLD
        runs == {p \in samples \X samples : run(p[1], p[2])}
        longest == {p \in runs : \A q \in runs : q[1] <= p[1] /\ p[2] <= q[2] => q = p} IN
    /\ {<<report.gaps[k].from, report.gaps[k].to>> : k \in DOMAIN report.gaps} =
         {p \in at \X at : p[2] - p[1] > GAP_THRESHOLD /\ empty(p[1], p[2])}
    /\ {report.segments[k] : k \in DOMAIN report.segments} =
         {[from |-> times[p[1]], to |-> times[p[2]], rows |-> p[2] - p[1] + 1] : p \in longest}

\* Whatever the reader prints of the source is answered, as it is: the two
\* checks on the way, which do not see the samples, never refuse it.
ReportsAreAnswered ==
  stage = "answered" /\ FromSource => answer = printed

\* A report without invalid rows that is answered, whoever printed it, is the
\* report of some series of samples.
AnsweredIsPossible ==
  stage = "answered" => \A report \in answer :
    report.invalid = 0 =>
      \E times \in [1..report.rows -> 0..Window] :
        /\ \A i \in 1..(report.rows - 1) : times[i] < times[i + 1]
        /\ Gaps(times) = report.gaps
        /\ Segments(times, [i \in 1..report.rows |-> TRUE]) = report.segments

\* The values put in one row were collected together, though each series is
\* read by a request of its own and may have lost samples of its own.
RowsAreOneCollection ==
  FromSource => \A report \in printed :
    \A i \in DOMAIN Times(streams) : \A n \in Names :
      streams[n][i].batch = streams["mode_bootstrap"][i].batch

\* What is reported is exact, and of rows that belong together.
ReportIsSound == ReportIsExact /\ RowsAreOneCollection

=============================================================================
