---------------------------- MODULE MCCollector ----------------------------
(***************************************************************************)
(* Collector for TLC, with a budget for what may go wrong.                 *)
(***************************************************************************)
EXTENDS Collector

CONSTANT MaxTrouble \* kills, failures and power losses in one behaviour

VARIABLE trouble

MCInit == CollectorInit /\ trouble = 0

MCNext ==
  \/ (Begin \/ Run \/ QueryAnswered \/ Flush \/ Forget) /\ UNCHANGED trouble
  \/ /\ trouble < MaxTrouble
     /\ Aborts \/ PowerFails
     /\ trouble' = trouble + 1

mcvars == <<cvars, trouble>>

\* The timer starts the collector again and again and a run goes on.  Pi-hole need
\* not answer, flush or forget anything.
MCSpec ==
  /\ MCInit /\ [][MCNext]_mcvars
  /\ WF_mcvars((Begin \/ Run) /\ UNCHANGED trouble)
=============================================================================
