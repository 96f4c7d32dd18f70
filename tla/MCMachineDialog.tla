--------------------------- MODULE MCMachineDialog ---------------------------
(***************************************************************************)
(* Model checking of MachineDialog with SSHKeys.                           *)
(***************************************************************************)
EXTENDS MachineDialog, TLC

Symmetry == Permutations(Calls) \union Permutations(Hosts) \union Permutations(Tests)
            \union Permutations(Machines) \union Permutations(PrivateKeys)

=============================================================================
