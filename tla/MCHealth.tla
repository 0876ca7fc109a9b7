------------------------------ MODULE MCHealth ------------------------------
(* The thresholds of HealthConfig::default() and two interfaces. *)
EXTENDS HealthHistory
CONSTANTS eth1, eth2
=============================================================================
