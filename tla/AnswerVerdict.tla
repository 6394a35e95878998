---------------------------- MODULE AnswerVerdict ----------------------------
(***************************************************************************)
(* Which terminal requests the publication accepts (_answer_terminal.py):  *)
(* the closed matrices between the status of an Answer, its error, how far *)
(* its assets reach, and the Codex attempts behind it; and what is         *)
(* accepted when the committed Answer is read back.  A request is          *)
(*   [status, code, view, candidates, pair, attempts]                      *)
(* where code is "none" without an error, view tells what the audit says   *)
(* of the Retrieval View ("none" without an audit), pair whether there are *)
(* a prompt and a Schema, and an attempt is [class, sound]: its failure    *)
(* class, and whether its record and its events asset agree.               *)
(***************************************************************************)
EXTENDS Naturals, Sequences

CONSTANT None

StatusOfError ==
  [fts5_unavailable |-> "blocked", retrieval_view_too_large |-> "blocked",
   retrieval_query_failed |-> "failed", retrieval_materialization_failed |-> "failed",
   codex_runtime_unavailable |-> "blocked", codex_timeout_exhausted |-> "blocked",
   synthesis_input_invalid |-> "failed", codex_process_failed |-> "failed",
   answer_output_invalid |-> "failed", citation_link_construction_failed |-> "failed",
   answer_rendering_failed |-> "failed"]

AfterProvider ==
  {"answer_output_invalid", "citation_link_construction_failed", "answer_rendering_failed"}

\* The configuration, the question and the query are always there.
PrefixLevel(r) == CASE r.view = "none" -> 2 [] r.view = "too_large" -> 3 [] OTHER -> 4

\* The record of an attempt and its events asset agree.  The events are "completed" (a
\* turn.completed and no failure), "failed" (turn.failed or error), "open" (neither),
\* "invalid" (not parsed) or "capped" (cut off at the capacity).
RecordAccepted(class, exit) == class = "none" => exit = 0
EventsAccepted(class, events) ==
  /\ events \in {"invalid", "capped"} => class = "process_error"
  /\ class = "none" => events = "completed"
EvidenceAccepted(class, exit, events) ==
  RecordAccepted(class, exit) /\ EventsAccepted(class, events)

\* _request_assets
PresenceAccepted(r) ==
  /\ IF r.status \in {"blocked", "failed"}
       THEN r.code \in DOMAIN StatusOfError /\ StatusOfError[r.code] = r.status
       ELSE r.code = "none"
  /\ (r.candidates # None) <=> PrefixLevel(r) = 4
  /\ PrefixLevel(r) = 3 => r.status = "interrupted" \/ r.code # "retrieval_materialization_failed"
  /\ r.pair => r.candidates # None /\ r.candidates \in 1..12
  /\ r.attempts # <<>> => r.pair
  /\ Len(r.attempts) <= 3
  /\ \A i \in 1..Len(r.attempts) : r.attempts[i].sound
  /\ r.status = "succeeded" =>
       /\ r.candidates # None
       /\ (r.candidates > 0) <=> r.pair
       /\ r.pair <=> r.attempts # <<>>
  /\ r.code = "retrieval_view_too_large" => r.view = "too_large"

\* _validate_root_terminal_matrix_v1
RootMatrixAccepts(r) ==
  LET bare        == ~r.pair /\ r.candidates = None /\ r.attempts = <<>>
      zero        == PrefixLevel(r) = 4 /\ ~r.pair /\ r.candidates = 0 /\ r.attempts = <<>>
      some        == PrefixLevel(r) = 4 /\ r.candidates # None /\ r.candidates \in 1..12
      withoutCall == some /\ ~r.pair /\ r.attempts = <<>>
      called      == some /\ r.pair
      tried       == called /\ Len(r.attempts) \in 1..3
  IN CASE r.status = "succeeded" -> zero \/ tried
       [] r.status = "interrupted" ->
            \/ PrefixLevel(r) \in 0..3 /\ bare
            \/ zero \/ withoutCall
            \/ called /\ Len(r.attempts) \in 0..3
       [] r.code \in {"fts5_unavailable", "retrieval_query_failed"} -> PrefixLevel(r) = 2 /\ bare
       [] r.code = "retrieval_view_too_large" -> PrefixLevel(r) = 3 /\ bare
       [] r.code = "retrieval_materialization_failed" -> PrefixLevel(r) \in 0..3 /\ bare
       [] r.code = "synthesis_input_invalid" -> withoutCall
       [] r.code = "codex_runtime_unavailable" -> called /\ r.attempts = <<>>
       [] r.code \in {"codex_timeout_exhausted", "codex_process_failed"} -> tried
       [] r.code \in AfterProvider -> zero \/ tried
       [] OTHER -> FALSE

\* _validate_attempt_terminal_matrix_v1
AttemptMatrixAccepts(r) ==
  LET last == r.attempts[Len(r.attempts)].class
  IN IF r.attempts = <<>>
       THEN /\ r.code \notin {"codex_timeout_exhausted", "codex_process_failed"}
            /\ r.code \in AfterProvider => r.candidates = 0
       ELSE /\ r.candidates # None /\ r.candidates > 0
            /\ \A i \in 1..(Len(r.attempts) - 1) : r.attempts[i].class = "timeout"
            /\ CASE r.status = "succeeded" -> last = "none"
                 [] r.status = "interrupted" ->
                      last \in {"none", "interrupted"} \/ (last = "timeout" /\ Len(r.attempts) < 3)
                 [] r.code = "codex_timeout_exhausted" -> last = "timeout"
                 [] r.code = "codex_process_failed" -> last = "process_error"
                 [] r.code \in AfterProvider -> last = "none"
                 [] OTHER -> FALSE

RequestAccepted(r) == PresenceAccepted(r) /\ RootMatrixAccepts(r) /\ AttemptMatrixAccepts(r)

\* _validate_manifest_terminal_facts_v1: a manifest does not tell the number of
\* candidates, so the reader infers it from which assets there are, and asks the same
\* two matrices.
ManifestAccepts(r) ==
  LET inferred == [r EXCEPT !.candidates =
        IF r.pair \/ (PrefixLevel(r) = 4 /\ r.code = "synthesis_input_invalid") THEN 1
        ELSE IF PrefixLevel(r) = 4 THEN 0 ELSE None]
  IN RootMatrixAccepts(inferred) /\ AttemptMatrixAccepts(inferred)

\* _validate_terminal_candidate_v1: what is read back is accepted by the manifest's
\* rules and, turned into a request again, by the publication's.
ReadsBack(r) == ManifestAccepts(r) /\ RequestAccepted(r)

=============================================================================
