-------------------------- MODULE MCMetricsCollector --------------------------
(***************************************************************************)
(* Instance of MetricsCollector for TLC: points fall out of the window     *)
(* while others of the same series stay, and the snapshots overflow.       *)
(***************************************************************************)
EXTENDS MetricsCollector

MCAgents == {"react"}
MCLatencies == {100}
MCSnapshots == [ok : BOOLEAN, loops : {FALSE}]
=============================================================================
