-------------------------- MODULE MCAnswerTerminal --------------------------
(* Small instances of AnswerTerminal for TLC. *)
EXTENDS AnswerTerminal, TLC

\* Asks and Answer IDs are interchangeable.
Symmetry == Permutations(Asks) \union Permutations(Ids)

=============================================================================
