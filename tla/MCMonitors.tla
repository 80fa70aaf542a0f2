----------------------------- MODULE MCMonitors -----------------------------
(***************************************************************************)
(* Monitors with four ticks to the hour, a little more than two hours, and *)
(* posts enough for one spike.                                             *)
(***************************************************************************)
EXTENDS MonitorProofs
=============================================================================
