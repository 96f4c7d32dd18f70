---------------------------- MODULE MCDashboard ----------------------------
(***************************************************************************)
(* Model checking of Dashboard.                                            *)
(***************************************************************************)
EXTENDS Dashboard, TLC

=============================================================================
