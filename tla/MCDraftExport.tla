---------------------------- MODULE MCDraftExport ----------------------------
(* The sets whose members are interchangeable. *)
EXTENDS DraftExport, TLC

Symmetry == Permutations(Sessions) \cup Permutations(Snapshots) \cup Permutations(Candidates)
=============================================================================
