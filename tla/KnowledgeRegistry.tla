------------------------- MODULE KnowledgeRegistry -------------------------
(***************************************************************************)
(* What Knowledge promises to Literature about Reviewed Handoffs.  The     *)
(* Registry is a history of Handoffs.  A Candidate's history starts with   *)
(* an accept, its review revisions only grow and all its accepts carry the *)
(* same content.  A caller is told that a Handoff is applied only once it  *)
(* is recorded, and nothing that is recorded is taken back.                *)
(***************************************************************************)
EXTENDS Naturals

CONSTANTS Candidates, Revisions, Contents, Callers, None

VARIABLES
  recorded,   \* the Handoffs in the Registry
  answers     \* the Handoff each caller holds an acknowledgement of

registryVars == <<recorded, answers>>

\* A withdraw is a tombstone, it carries no content.
Accepts   == [candidate : Candidates, revision : Revisions,
              action : {"accept"}, content : Contents]
Withdraws == [candidate : Candidates, revision : Revisions,
              action : {"withdraw"}, content : {None}]
Handoffs  == Accepts \union Withdraws

History(c) == {h \in recorded : h.candidate = c}

Recordable(h) ==
  /\ \A g \in History(h.candidate) : g.revision < h.revision
  /\ IF h.action = "accept"
       THEN \A g \in History(h.candidate) : g.action = "accept" => g.content = h.content
       ELSE \E g \in History(h.candidate) : g.action = "accept"

\* A Registry is new, or holds what an earlier release accepted of one Candidate.
RegistryInit ==
  /\ recorded \in SUBSET Accepts
  /\ \A g, h \in recorded : g.candidate = h.candidate /\ g.content = h.content
                           /\ (g.revision = h.revision => g = h)
  /\ answers = [p \in Callers |-> None]

Record(h) ==
  /\ Recordable(h)
  /\ recorded' = recorded \union {h}
  /\ UNCHANGED answers

Answer(p) ==
  /\ \E h \in recorded \union {None} : answers' = [answers EXCEPT ![p] = h]
  /\ UNCHANGED recorded

RegistryNext == (\E h \in Handoffs : Record(h)) \/ (\E p \in Callers : Answer(p))

RegistrySpec == RegistryInit /\ [][RegistryNext]_registryVars

=============================================================================
