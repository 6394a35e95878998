-------------------------- MODULE MCLocalPdfIntake --------------------------
(* Symmetric processes, PDFs and Works for TLC.                             *)
EXTENDS LocalPdfIntake, TLC

\* A PDF comes with the DOI or with the citation.
MCNameSets == {{d} : d \in Strong} \union {{c} : c \in Weak}

\* A PDF comes with the DOI or without any name.
MCBareOrDoi == {{}} \union {{d} : d \in Strong}

Symmetry ==
  Permutations(Adders) \union Permutations(Sources) \union Permutations(WorkIds)

=============================================================================
