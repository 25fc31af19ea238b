------------------------------ MODULE QueryLog ------------------------------
(***************************************************************************)
(* What monitoring/pihole-dns-collector.py promises to the readers of      *)
(* queries.ndjson: the log of queries only grows, in order, with every     *)
(* query Pi-hole knows of once and none left out.                          *)
(***************************************************************************)
EXTENDS Naturals, Sequences

VARIABLES
  known, \* queries Pi-hole has answered: their ids are 1..known
  log    \* ids collected for good

LogInit == known = 0 /\ log = <<>>

Answer ==
  /\ known' = known + 1
  /\ UNCHANGED log

\* A batch: every query up to some known one that the log does not have yet.
Collect ==
  /\ \E m \in Len(log)..known : log' = log \o [i \in 1..(m - Len(log)) |-> Len(log) + i]
  /\ UNCHANGED known

LogNext == Answer \/ Collect

LogSpec == LogInit /\ [][LogNext]_<<known, log>>
=============================================================================
