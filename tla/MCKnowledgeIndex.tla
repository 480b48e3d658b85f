-------------------------- MODULE MCKnowledgeIndex --------------------------
(* Small instances of KnowledgeIndex for TLC. *)
EXTENDS KnowledgeIndex, TLC

\* The pods run the same code.  The paths and the contents are interchangeable
\* too, as long as no content is singled out as unstorable.
PodSymmetry == Permutations(Pods)
Symmetry == Permutations(Pods) \cup Permutations(Paths)
=============================================================================
