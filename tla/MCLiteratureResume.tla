------------------------- MODULE MCLiteratureResume -------------------------
(* Small instances of LiteratureResume for TLC. *)
EXTENDS LiteratureResume
=============================================================================
