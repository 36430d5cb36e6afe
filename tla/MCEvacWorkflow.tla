--------------------------- MODULE MCEvacWorkflow ---------------------------
(* Instances of EvacWorkflow for TLC.                                       *)
EXTENDS EvacWorkflow, TLC

\* Villages and approvers are interchangeable: no action tells them apart.
Symmetry == Permutations(Community) \cup Permutations(Approver)

=============================================================================
