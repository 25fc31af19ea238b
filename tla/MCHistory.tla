----------------------------- MODULE MCHistory -----------------------------
(***************************************************************************)
(* The history server for TLC.                                             *)
(***************************************************************************)
EXTENDS HistoryServer
=============================================================================
