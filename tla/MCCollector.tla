---------------------------- MODULE MCCollector ----------------------------
(***************************************************************************)
(* Model checking of Collector: hosts are interchangeable in the runs that *)
(* check only safety.                                                      *)
(***************************************************************************)
EXTENDS Collector, TLC

HostSymmetry == Permutations(Hosts)

=============================================================================
