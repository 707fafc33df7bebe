-------------------------- MODULE MCDashboardStream --------------------------
(* An instance of DashboardStream for TLC.                                  *)
EXTENDS DashboardStream
=============================================================================
