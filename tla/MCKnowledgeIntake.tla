------------------------- MODULE MCKnowledgeIntake -------------------------
(* Small instances of KnowledgeIntake for TLC. *)
EXTENDS KnowledgeRead, TLC

MCRevisions == 1..2
\* Callers and versions of the content are interchangeable.
Symmetry == Permutations(Callers) \union Permutations(Contents)

=============================================================================
