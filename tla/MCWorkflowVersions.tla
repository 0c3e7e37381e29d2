------------------------- MODULE MCWorkflowVersions -------------------------
(* Instances of WorkflowVersions for TLC; clients are interchangeable, and *)
(* so are definitions.                                                     *)
EXTENDS WorkflowVersions, TLC

Symmetry == Permutations(Clients) \cup Permutations(Definitions)
=============================================================================
