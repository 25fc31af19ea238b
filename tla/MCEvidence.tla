----------------------------- MODULE MCEvidence -----------------------------
(***************************************************************************)
(* Coverage, DnsEvents and LiveReads for TLC: a behaviour is one of one of *)
(* them.                                                                   *)
(***************************************************************************)
EXTENDS Coverage, DnsEvents, LiveReads, SequencesExt

VARIABLE part \* which of the three runs

MCNames == {"mode_local", "mode_bootstrap", "state_valid", "last_transition",
            "fallback_since", "collection"}
MCWindow == 6

\* What a collection at t shows, in BOOTSTRAP at odd times; a bad one is invalid,
\* is in both modes, is LOCAL since then, or knows a transition that is to come.
Value(name, t, bad) ==
  LET odd == t % 2 IN
  CASE name = "collection" -> t
    [] name = "state_valid" -> IF bad = "state" THEN 0 ELSE 1
    [] name = "mode_local" -> IF bad = "modes" THEN 1 ELSE 1 - odd
    [] name = "mode_bootstrap" -> IF bad = "modes" THEN 1 ELSE odd
    [] name = "fallback_since" -> IF bad = "since" \/ odd = 1 THEN t + 1 ELSE 0
    [] name = "last_transition" -> IF bad = "ahead" THEN t + 2 ELSE t + 1

\* Collections at these times, which are good at those and bad in one way at the
\* others, one sample of a series lost or none (-1), and one written a little later.
Stream(times, good, bad, name, lost, late) ==
  LET all == [i \in 1..Len(times) |->
               [at |-> times[i] + late, batch |-> times[i],
                value |-> Value(name, times[i], IF times[i] \in good THEN "none" ELSE bad)]] IN
  SelectSeq(all, LAMBDA row : row.batch # lost /\ row.at <= MCWindow)

Sorted(S) == SelectSeq([i \in 1..(MCWindow + 1) |-> i - 1], LAMBDA t : t \in S)

\* Every pattern of samples, and patterns with losses when collections are
\* further apart than the skew that is allowed: the series that are not Losing
\* lose what state_valid loses.
Whole ==
  UNION {{[n \in MCNames |-> Stream(Sorted(times), good, "state", n, -1, 0)] :
            good \in SUBSET times}
         \cup {[n \in MCNames |-> Stream(Sorted(times), times \ {t}, bad, n, -1, 0)] :
                  t \in times, bad \in {"modes", "since", "ahead"}} :
           times \in SUBSET (0..MCWindow) \ {{}}}

Spaced == {S \in SUBSET (0..MCWindow) \ {{}} :
              \A a, b \in S : a # b => b - a \notin -2..2}
Losing == {"mode_bootstrap", "state_valid", "collection"}
Lossy ==
  UNION {{[n \in MCNames |-> Stream(Sorted(times), good, "state", n,
                                    lost[IF n \in Losing THEN n ELSE "state_valid"],
                                    IF n = late THEN 1 ELSE 0)] :
            good \in SUBSET times, late \in {"state_valid", "none"},
            lost \in [Losing -> times \cup {-1}]} : times \in Spaced}

MCExports == Whole \cup Lossy

\* Reports with at most one gap and two segments.
AnyGap == {<<>>} \cup
  {<<[position |-> p, from |-> a, to |-> b]>> :
     p \in {"LEADING", "INTERNAL", "TRAILING"}, a \in 0..2, b \in 3..MCWindow}
AnySegment == {s \in [from : 0..MCWindow, to : 0..MCWindow, rows : 1..2] : s.from <= s.to}
AnySegments == {<<>>} \cup {<<s>> : s \in AnySegment} \cup
  {<<p[1], p[2]>> : p \in {q \in AnySegment \X AnySegment : q[1].to < q[2].from}}
Rows(segments) == FoldLeft(LAMBDA sum, s : sum + s.rows, 0, segments)
MCForgeries ==
  {[rows |-> Rows(segments) + invalid, invalid |-> invalid, gaps |-> gaps,
    segments |-> segments, certain |-> gaps = <<>> /\ invalid = 0] :
     gaps \in AnyGap, segments \in AnySegments, invalid \in 0..1}

NoCoverage == stage = "idle" /\ streams = NoStreams /\ printed = UNKNOWN /\ answer = UNKNOWN

EvidenceInit ==
  /\ EventsInit /\ LiveInit
  /\ \/ part = "coverage" /\ CoverageInit /\ kind = "summary"
     \/ part = "events" /\ NoCoverage /\ kind = "summary"
     \/ part = "live" /\ NoCoverage

EvidenceNext ==
  \/ part = "coverage" /\ CoverageNext /\ UNCHANGED <<part, evars, lvars>>
  \/ part = "events" /\ EventsNext /\ UNCHANGED <<part, cvars, lvars>>
  \/ part = "live" /\ LiveNext /\ UNCHANGED <<part, cvars, evars>>

EvidenceSpec == EvidenceInit /\ [][EvidenceNext]_<<part, cvars, evars, lvars>>
=============================================================================
