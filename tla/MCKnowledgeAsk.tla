--------------------------- MODULE MCKnowledgeAsk ---------------------------
(* A small instance of KnowledgeAsk for TLC. *)
EXTENDS KnowledgeAsk
=============================================================================
