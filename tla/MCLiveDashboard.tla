-------------------------- MODULE MCLiveDashboard --------------------------
(* Constants for TLC: see LiveDashboard.cfg.                               *)
EXTENDS LiveDashboard
=============================================================================
