--------------------------- MODULE KnowledgeRead ---------------------------
(***************************************************************************)
(* The reads of Knowledge, search and show of _knowledge_read.py, over the *)
(* Registry that KnowledgeIntake keeps writing.  A read only looks: it is  *)
(* an operator of what it sees.  Search and show see one SQLite snapshot;  *)
(* show then reads evidence files, which the snapshot does not cover, so   *)
(* the evidence e it finds may be later than its Registry.                 *)
(*                                                                         *)
(* A refusal is the reason the report gives, None for a success.  What the *)
(* full-text branches find, their bm25 order and the fusion of the ranks   *)
(* are any set of searchable Candidates.                                   *)
(***************************************************************************)
EXTENDS KnowledgeIntake

Blocks == [
  search |-> {"invalid_query", "query_too_large", "query_too_complex",
    "configuration_invalid", "configuration_incompatible", "data_root_unavailable",
    "data_root_unsafe", "data_root_identity_unavailable", "registry_unavailable",
    "registry_incompatible", "fts5_unavailable", "result_too_large"},
  show |-> {"invalid_candidate_id",
    "configuration_invalid", "configuration_incompatible", "data_root_unavailable",
    "data_root_unsafe", "data_root_identity_unavailable", "registry_unavailable",
    "registry_incompatible", "candidate_not_found", "result_too_large"}]
Fails == [
  search |-> {"data_root_integrity_lost", "registry_corrupt", "retrieval_query_failed",
    "retrieval_materialization_failed"},
  show |-> {"data_root_integrity_lost", "registry_corrupt", "registry_read_failed",
    "candidate_corrupt", "evidence_corrupt"}]
ASSUME ReadAssumption ==
  \A command \in {"search", "show"} : None \notin Blocks[command] \union Fails[command]

\* run_search and run_show
ExitCode(command, refusal) ==
  IF refusal = None THEN 0 ELSE IF refusal \in Blocks[command] THEN 2 ELSE 1

-----------------------------------------------------------------------------
(* What both reads require of the Registry.                                *)

\* _validate_current_projection_v1
Known == {c \in Candidates : content[c] # None}
SameMembers == Known = {c \in Candidates : current[c] # None}
Active == {c \in Known : current[c] # None /\ current[c].action = "accept"}

\* _validate_registry_for_search_v1
SearchRegistry ==
  IF schema = "none" THEN "registry_unavailable"
  ELSE IF schema \in {"empty", "base"} THEN "registry_incompatible"
  ELSE IF GenerationMatches /\ bound = generation /\ SameMembers /\ searchable = Active
    THEN None
  ELSE "registry_corrupt"

\* _validate_registry_for_show_v1: the four base tables are enough.
ShowRegistry ==
  IF schema = "none" THEN "registry_unavailable"
  ELSE IF schema = "empty" THEN "registry_incompatible"
  ELSE IF GenerationMatches /\ SameMembers THEN None
  ELSE "registry_corrupt"

-----------------------------------------------------------------------------
(* The two reads.                                                          *)

\* _branch_rows_v1: an unrefused search may find any of these.
Findable == searchable \intersect Active

\* _materialize_search_candidate_v1: the newest recorded revision must be the
\* accept that is current.
Materializes(c) == /\ current[c].action = "accept"
                   /\ History(c) # {} /\ Latest(History(c)) = current[c]

SearchRefusal(found) ==
  IF SearchRegistry # None THEN SearchRegistry
  ELSE IF \A c \in found : Materializes(c) THEN None
  ELSE "retrieval_materialization_failed"

\* _read_handoff_v1: whole and formal, or the evidence is corrupt.
Published(h, e) == e[HandoffId(h)].place = "formal"

\* The bindings of _show_candidate_v1, row by row against the files.
BindingsAgree(c, e) ==
  LET contentImport == source[c]  statusImport == current[c] IN
    /\ Published(contentImport, e) /\ Published(statusImport, e)
    /\ e[HandoffId(contentImport)].bytes = contentImport
    /\ e[HandoffId(statusImport)].bytes = statusImport
    /\ contentImport.action = "accept" /\ contentImport.candidate = c
    /\ statusImport.candidate = c
    /\ e[HandoffId(contentImport)].bytes.content = content[c]

\* Active, or withdrawn since.
GovernanceAgrees(contentImport, statusImport) ==
  \/ statusImport.action = "accept" /\ statusImport = contentImport
  \/ statusImport.action = "withdraw" /\ statusImport.revision > contentImport.revision

\* _show_candidate_v1
ShowRefusal(c, e) ==
  IF ShowRegistry # None THEN ShowRegistry
  ELSE IF c \notin Known THEN "candidate_not_found"
  ELSE IF History(c) = {} \/ Latest(History(c)).revision # current[c].revision
    THEN "candidate_corrupt"
  ELSE IF AcceptsOf(History(c)) = {} \/ source[c] # Latest(AcceptsOf(History(c)))
    THEN "evidence_corrupt"
  ELSE IF ~({source[c], current[c]} \subseteq rows) THEN "candidate_corrupt"
  ELSE IF ~BindingsAgree(c, e) THEN "evidence_corrupt"
  ELSE IF ~GovernanceAgrees(source[c], current[c]) THEN "candidate_corrupt"
  ELSE None

\* What a successful show prints, all of it from the evidence.
Shown(c, e) == [contentImport |-> e[HandoffId(source[c])].bytes,
                statusImport  |-> e[HandoffId(current[c])].bytes]
\* _validate_show_result_v1: the result the report seal accepts.
ResultAccepted(shown) ==
  /\ shown.contentImport.action = "accept"
  /\ GovernanceAgrees(shown.contentImport, shown.statusImport)

\* _search_in_root_v1 and _show_in_root_v1: a refusal, or a success that may be too
\* large, is overridden by a snapshot that cannot be released and that by a Data Root
\* whose identity is lost.  Nothing that happens at the end makes a success of it.
Unreleased == [search |-> "retrieval_query_failed", show |-> "registry_read_failed"]
LastWords(command, refusal) ==
  {"data_root_integrity_lost", Unreleased[command],
   IF refusal = None THEN "result_too_large" ELSE refusal, refusal}
\* validate_knowledge_read_report_v1: a report outside of the matrix ends the process.
Reportable(command, refusals) ==
  \A r \in refusals \ {None} : r \in Blocks[command] \union Fails[command]

-----------------------------------------------------------------------------

\* What the writers leave behind, at every moment and through every crash between two
\* steps, is what the readers accept.  A read of a Registry that only the program wrote
\* never calls it, a Candidate or its evidence corrupt, also when show opened its
\* snapshot before the step that changed the evidence.  The one exception is show on an
\* earlier release's Registry whose content is not bound to the latest accept.  Show
\* says unavailable or incompatible only while nothing is recorded: there is no file, or
\* the empty one that comes before its tables.  Search says so as well, and on an
\* earlier release's Registry.  Search can find a Candidate iff the greatest revision
\* accepted it, show then shows it as active, and what is shown is the latest accept and
\* the latest decision of the whole history.
ReadsFaithfully(e) ==
  /\ \A found \in SUBSET Findable :
       /\ SearchRefusal(found) \in {None, "registry_unavailable", "registry_incompatible"}
       /\ SearchRefusal(found) = None <=> schema = "search"
       /\ Reportable("search", LastWords("search", SearchRefusal(found)))
  /\ \A c \in Candidates :
       LET H == History(c)  refusal == ShowRefusal(c, e)  shown == Shown(c, e) IN
         /\ Reportable("show", LastWords("show", refusal))
         /\ H = {} <=> refusal \in {"registry_unavailable", "registry_incompatible",
                                     "candidate_not_found"}
         /\ refusal \in {"registry_unavailable", "registry_incompatible"} =>
              rows = {} /\ SearchRefusal({}) = refusal
         /\ schema = "search" =>
              /\ H # {} => refusal = None
              /\ c \in Findable <=> H # {} /\ Latest(H).action = "accept"
         /\ refusal = "evidence_corrupt" =>
              schema = "base" /\ source[c] # Latest(AcceptsOf(H))
         /\ refusal = None =>
              /\ ResultAccepted(shown)
              /\ shown = [contentImport |-> Latest(AcceptsOf(H)), statusImport |-> Latest(H)]
              /\ \A g \in AcceptsOf(H) : g.content = shown.contentImport.content
              /\ ExitCode("show", refusal) = 0
         /\ refusal \in {None, "evidence_corrupt", "registry_unavailable",
                         "registry_incompatible", "candidate_not_found"}
ReadsAreFaithful ==
  [][/\ evidence' # evidence => ReadsFaithfully(evidence')
     /\ registry' # registry => ReadsFaithfully(evidence)']_vars

=============================================================================
