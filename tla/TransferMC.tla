----------------------------- MODULE TransferMC -----------------------------
(***************************************************************************)
(* Two interchangeable handlers on a lattice of two branches, for TLC. A   *)
(* behaviour either has up to three nodes and two exports and no import,   *)
(* or two nodes, one export and one import: an import touches nothing that *)
(* the other operations use, so the large instance needs none.             *)
(***************************************************************************)
EXTENDS Transfer, TLC

VARIABLE scenario

Symmetry == Permutations(Handlers)

MCInit == TransferInit /\ scenario \in {"exports", "imports"}

WithinScenario ==
    IF scenario = "exports"
    THEN forks' = <<>>
    ELSE Cardinality({n \in Nodes : branchOf'[n] /= Null}) <= 2 /\ Len(packages') <= 1

MCNext == TransferNext /\ WithinScenario /\ UNCHANGED scenario

MCSpec == MCInit /\ [][MCNext]_<<vars, scenario>>

=============================================================================
