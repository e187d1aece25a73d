--------------------------- MODULE MCNodeRemoval ---------------------------
(***************************************************************************)
(* The names of machines and hosts are interchangeable; no property of the *)
(* run is a liveness property.                                             *)
(***************************************************************************)
EXTENDS NodeRemoval, TLC

NamesSymmetry == Permutations(Machines) \cup Permutations(Hosts)

=============================================================================
