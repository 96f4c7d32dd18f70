-------------------------- MODULE MCContainerCache --------------------------
(***************************************************************************)
(* Model checking of ContainerCache: handlers are interchangeable, and so  *)
(* are Docker ids.                                                         *)
(***************************************************************************)
EXTENDS ContainerCache, TLC

Symmetry == Permutations(Requests) \union Permutations(Containers)

=============================================================================
