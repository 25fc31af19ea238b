----------------------------- MODULE DnsEvents -----------------------------
(***************************************************************************)
(* What the HomeLab Control Center says of DNS Guard's past: the samples   *)
(* of a router that switches its resolver and sometimes restarts, the      *)
(* event model over them (dns_guard_event_model_v01.py), the join of the   *)
(* exported series (dns_guard_history_join_v01.py) and the archive it is   *)
(* projected on (v05_history_archive.py).  The router is history: the code *)
(* sees the rows only.                                                     *)
(***************************************************************************)
EXTENDS Integers, Sequences, FiniteSets

CONSTANTS
  MAX_GAP,    \* MAX_GAP_SECONDS, in steps of the clock
  MAX_EVENTS, \* events an archive may have
  MaxTime,    \* bound: when the clock stops
  MaxRows,    \* bound: rows
  MaxSwitches \* bound: switches; and one restart or lost count

ASSUME EventsAssumption ==
  /\ MAX_GAP \in Nat \ {0} /\ MAX_EVENTS \in Nat /\ MaxTime \in Nat /\ MaxRows \in Nat
  /\ MaxSwitches \in Nat

VARIABLES
  now,      \* the clock of both
  router,   \* DNS Guard's state: mode, last, since, total
  switches, \* history: its switches, in order
  resets,   \* history: when it restarted, and when a switch was not counted
  rows      \* the rows of the collector, in source order

evars == <<now, router, switches, resets, rows>>

EventsInit ==
  /\ now = 1
  /\ router = [mode |-> "LOCAL", last |-> 0, since |-> 0, total |-> 0]
  /\ switches = <<>>
  /\ resets = {}
  /\ rows = <<>>

-----------------------------------------------------------------------------
(* The router and the collector.                                           *)

Tick ==
  /\ now < MaxTime
  /\ now' = now + 1
  /\ UNCHANGED <<router, switches, resets, rows>>

\* record_resolver_mode of a mode that is not the one on record.
Recorded(to, total) ==
  [mode |-> to, last |-> now, since |-> IF to = "LOCAL" THEN 0 ELSE now, total |-> total]

\* One record a moment; the counter may not be written.
Switch ==
  /\ Len(switches) < MaxSwitches /\ router.last < now
  /\ \E counted \in BOOLEAN :
       LET to == IF router.mode = "LOCAL" THEN "BOOTSTRAP" ELSE "LOCAL" IN
       /\ counted \/ resets = {}
       /\ router' = Recorded(to, router.total + (IF to = "BOOTSTRAP" /\ counted THEN 1 ELSE 0))
       /\ switches' = Append(switches, [at |-> now, to |-> to])
       /\ resets' = IF counted THEN resets ELSE resets \cup {now}
  /\ UNCHANGED <<now, rows>>

\* A reboot empties /tmp: whatever the mode is then, it is recorded as a new one.
Restart ==
  /\ resets = {} /\ router.last < now
  /\ \E to \in {"LOCAL", "BOOTSTRAP"} :
       /\ router' = Recorded(to, IF to = "BOOTSTRAP" THEN 1 ELSE 0)
       /\ \/ to = router.mode /\ UNCHANGED switches
          \/ /\ to # router.mode /\ Len(switches) < MaxSwitches
             /\ switches' = Append(switches, [at |-> now, to |-> to])
  /\ resets' = resets \cup {now}
  /\ UNCHANGED <<now, rows>>

Row == [at |-> now, mode |-> router.mode, last |-> router.last,
        since |-> router.since, total |-> router.total]

Collect ==
  /\ Len(rows) < MaxRows
  /\ \A i \in 1..Len(rows) : rows[i].at < now
  /\ rows' = Append(rows, Row)
  /\ UNCHANGED <<now, router, switches, resets>>

\* A row whose flags contradict each other, or one delivered again.
BadRow ==
  /\ Len(rows) < MaxRows
  /\ \/ rows' = Append(rows, [Row EXCEPT !.mode = "INVALID"])
     \/ \E i \in 1..Len(rows) : rows' = Append(rows, rows[i])
  /\ UNCHANGED <<now, router, switches, resets>>

EventsNext == Tick \/ Switch \/ Restart \/ Collect \/ BadRow
EventsSpec == EventsInit /\ [][EventsNext]_evars

-----------------------------------------------------------------------------
(* timeline(rows): one row after the other.                                *)

None == -1
Unsure(code, at) == [kind |-> "UNKNOWN", code |-> code, from |-> None, to |-> at]

\* boot_window: the last LOCAL before, the first and the last BOOTSTRAP sample.
NoWindow == <<>>
OpenWindow(row) == IF row.mode = "BOOTSTRAP" THEN <<None, row.at, row.at>> ELSE NoWindow

Lose(st, event) ==
  [events |-> Append(st.events, event), previous |-> <<>>, boot |-> NoWindow]
StartAgain(st, row, event) ==
  [events |-> Append(st.events, event), previous |-> <<row>>, boot |-> OpenWindow(row)]

_sample(row) ==
  /\ row.mode \in {"LOCAL", "BOOTSTRAP"}
  /\ row.last <= row.at /\ row.since <= row.at
  /\ row.mode = "LOCAL" => row.since = 0

Reported(previous, row) ==
  IF previous.at < row.last /\ row.last <= row.at THEN row.last ELSE None

\* LOCAL to BOOTSTRAP.
FellBack(st, previous, row) ==
  [events |-> Append(st.events,
     [kind |-> "BOOTSTRAP", from |-> previous.at, to |-> row.at,
      reported |-> Reported(previous, row),
      code |-> IF row.total # previous.total + 1 THEN "UNCORROBORATED"
               ELSE IF row.since = 0 THEN "START_UNRECORDED" ELSE "OBSERVED"]),
   previous |-> <<row>>, boot |-> <<previous.at, row.at, row.at>>]

\* Mutant: the upper bound counts from the first BOOTSTRAP sample.
Restored_ShortUpper(st, previous, row) ==
  [events |-> Append(st.events,
     [kind |-> "LOCAL", from |-> previous.at, to |-> row.at,
      reported |-> Reported(previous, row),
      lower |-> IF st.boot = NoWindow THEN None ELSE st.boot[3] - st.boot[2],
      upper |-> IF st.boot = NoWindow \/ st.boot[1] = None THEN None
                ELSE row.at - st.boot[2]]),
   previous |-> <<row>>, boot |-> NoWindow]

\* BOOTSTRAP to LOCAL, with the bounds of how long that lasted.
Restored(st, previous, row) ==
  [events |-> Append(st.events,
     [kind |-> "LOCAL", from |-> previous.at, to |-> row.at,
      reported |-> Reported(previous, row),
      lower |-> IF st.boot = NoWindow THEN None ELSE st.boot[3] - st.boot[2],
      upper |-> IF st.boot = NoWindow \/ st.boot[1] = None THEN None
                ELSE row.at - st.boot[1]]),
   previous |-> <<row>>, boot |-> NoWindow]

StayedBack(st, previous, row) ==
  [events |-> st.events, previous |-> <<row>>,
   boot |-> IF st.boot = NoWindow THEN <<None, previous.at, row.at>>
            ELSE <<st.boot[1], st.boot[2], row.at>>]

\* The counter says that something happened between two samples.
Missed(previous, row) ==
  LET delta == row.total - previous.total IN
  \/ delta > 1
  \/ delta > 0 /\ (row.mode = previous.mode \/ row.mode = "LOCAL")

\* Mutant: a late row is compared like any other.
Compare_AnyOrder(st, previous, row) ==
  CASE row = previous -> st
    [] row # previous /\ row.at = previous.at -> Lose(st, Unsure("SAME", row.at))
    [] row.at # previous.at ->
         IF row.total # previous.total THEN StartAgain(st, row, Unsure("MISSED", row.at))
         ELSE IF row.mode = previous.mode THEN [st EXCEPT !.previous = <<row>>]
         ELSE IF row.mode = "BOOTSTRAP" THEN FellBack(st, previous, row)
         ELSE Restored(st, previous, row)

Compare(st, previous, row) ==
  CASE row = previous -> st
    [] row # previous /\ row.at = previous.at -> Lose(st, Unsure("SAME", row.at))
    [] row.at < previous.at -> Lose(st, Unsure("ORDER", row.at))
    [] row.at > previous.at ->
         IF row.total < previous.total THEN StartAgain(st, row, Unsure("RESET", row.at))
         ELSE IF row.at - previous.at > MAX_GAP
           THEN StartAgain(st, row, Unsure("GAP", row.at))
         ELSE IF Missed(previous, row) THEN StartAgain(st, row, Unsure("MISSED", row.at))
         ELSE IF row.mode = previous.mode
           THEN (IF row.mode = "BOOTSTRAP" THEN StayedBack(st, previous, row)
                 ELSE [st EXCEPT !.previous = <<row>>])
         ELSE IF row.mode = "BOOTSTRAP" THEN FellBack(st, previous, row)
         ELSE Restored(st, previous, row)

TakeRow(st, row) ==
  IF ~_sample(row) THEN Lose(st, Unsure("SAMPLE", None))
  ELSE IF st.previous = <<>>
    THEN [st EXCEPT !.previous = <<row>>, !.boot = OpenWindow(row)]
  ELSE Compare(st, st.previous[1], row)

\* The state before the first row and after each.
Loop(input) ==
  LET st[n \in 0..Len(input)] ==
        IF n = 0 THEN [events |-> <<>>, previous |-> <<>>, boot |-> NoWindow]
                 ELSE TakeRow(st[n - 1], input[n]) IN
  st

timeline(input) == Loop(input)[Len(input)].events

-----------------------------------------------------------------------------
(* reconcile(series) and project(report).                                  *)

Increasing(input) == \A i \in 1..(Len(input) - 1) : input[i].at < input[i + 1].at

\* The raw mode samples, whatever the model thinks of them.
RawMode(row) == IF row.mode = "BOOTSTRAP" THEN "BOOTSTRAP" ELSE "LOCAL"
Changes(input) ==
  {i \in 1..(Len(input) - 1) : RawMode(input[i]) # RawMode(input[i + 1])}

\* The kth window is that of the change with k changes up to it.
TransitionWindows(input) ==
  [k \in 1..Cardinality(Changes(input)) |->
     LET i == CHOOSE c \in Changes(input) :
                Cardinality({d \in Changes(input) : d <= c}) = k IN
     [kind |-> RawMode(input[i + 1]), from |-> input[i].at, to |-> input[i + 1].at]]

Sure(events) == {k \in DOMAIN events : events[k].kind # "UNKNOWN"}

\* Mutant: as many events as changes will do, unknown ones or not.
corroborated_CountOnly(input) ==
  Len(TransitionWindows(input)) = Cardinality(Sure(timeline(input)))

corroborated(input) ==
  /\ Sure(timeline(input)) = DOMAIN timeline(input)
  /\ Len(TransitionWindows(input)) = Len(timeline(input))

\* UNKNOWN is the empty set, a verified archive the set of its one list.
Archive(input) ==
  LET windows == TransitionWindows(input)
      events == timeline(input) IN
  IF /\ Increasing(input) /\ Len(input) >= 2
     /\ corroborated(input)
     /\ Len(windows) <= MAX_EVENTS
     /\ \A k \in 1..Len(windows) :
          /\ events[k].kind = windows[k].kind
          /\ windows[k].to - windows[k].from <= MAX_GAP
          /\ events[k].from = windows[k].from /\ events[k].to = windows[k].to
          /\ events[k].reported = None
               \/ events[k].reported \in windows[k].from..windows[k].to
     /\ \A k \in 1..(Len(windows) - 1) : windows[k].to <= windows[k + 1].from
    THEN {windows} ELSE {}

-----------------------------------------------------------------------------
Claims == {timeline(rows)[k] : k \in Sure(timeline(rows))}

\* No invented transition: one that is claimed happened, in that direction,
\* in the window given for it, whatever was lost, repeated or contradicted.
ClaimsHappened ==
  \A e \in Claims :
    \E i \in 1..Len(switches) :
      switches[i].to = e.kind /\ switches[i].at \in e.from..e.to

\* Bounds on a fallback hold for the one that ended in the window, unless the
\* counter was reset or missed a switch while the samples said BOOTSTRAP.
DurationsAreBounds ==
  \A e \in Claims :
    e.kind = "LOCAL" /\ e.lower # None =>
      \E i \in 1..Len(switches) :
        /\ switches[i].to = "LOCAL" /\ switches[i].at \in e.from..e.to
        /\ LET began == switches[i - 1].at
               lasted == switches[i].at - began IN
           /\ e.upper # None => lasted <= e.upper
           /\ (\A t \in resets : t < e.from - e.lower \/ t > e.to) => lasted >= e.lower

\* A verified archive has every switch between its first and its last sample,
\* those that a restart or a lost count hides from the counter excepted.
VerifiedIsComplete ==
  \A windows \in Archive(rows) :
    LET between == {i \in DOMAIN switches :
                      rows[1].at < switches[i].at /\ switches[i].at < rows[Len(rows)].at} IN
    (\A t \in resets : t < rows[1].at \/ t > rows[Len(rows)].at) =>
      Cardinality(between) <= Len(windows)

=============================================================================
