--------------------------- MODULE MCEvidenceSealing ---------------------------
(* Small instances of EvidenceSealing: sets, members and decisions only matter  *)
(* up to renaming.                                                            *)
EXTENDS EvidenceSealing, TLC

Renamings == Permutations(Members) \cup Permutations(Decisions) \cup Permutations(Sets)
==============================================================================
