---------------------------- MODULE KnowledgeAsk ----------------------------
(***************************************************************************)
(* `knowledge ask` from its first barrier to the sealed report             *)
(* (_knowledge_ask.py, run_ask in _knowledge_commands.py): the nine pieces *)
(* of work before there is an Answer ID, the cutover, retrieval, synthesis *)
(* (KnowledgeAnswerer), the publication and the seal.  Before each piece   *)
(* of work a barrier asks whether Ctrl+C was observed.  What the bridge    *)
(* and the native latch do for one such question is CancellationLatch,     *)
(* what a publication does AnswerTerminal: here each is one step.          *)
(***************************************************************************)
EXTENDS KnowledgeAnswerer

VARIABLES
  stage,     \* the piece of work before the Answer ID
  idFormed,  \* the cutover was made
  orphans,   \* the scan of the staging directory found something to report
  found,     \* what retrieval returned
  snap,      \* whether the snapshot before the seal held a cancellation
  report,
  shown,     \* what was prepared for the user: a report, its form, and whether it failed
  exitCode   \* exit code

askVars == <<stage, idFormed, orphans, found, snap, report, shown, exitCode>>
vars == <<answererVars, askVars>>
answering == <<timeVars, attempts, shared, run, due, completed, fault>>

\* Question, configuration, assets, provenance, its bytes, Data Root, its identity,
\* the writer and the scan: how each of them says no.
Refusals == <<"blocked", "blocked", "failed", "blocked", "failed",
              "blocked", "blocked", "blocked", "failed">>
Scan == Len(Refusals)

Errors == {"fts5_unavailable", "retrieval_query_failed", "retrieval_materialization_failed"}

\* KnowledgeAskReportV1: reason "refused" and "not_published" stand for the reasons a
\* report without an Answer may have before and after the publication was tried.
NoReport == [outcome |-> "none", result |-> FALSE, reason |-> "none",
             orphans |-> FALSE, overflow |-> FALSE]
NoShown == [report |-> NoReport, json |-> FALSE, lost |-> FALSE]
Without(outcome, reason) ==
  [outcome |-> outcome, result |-> FALSE, reason |-> reason,
   orphans |-> orphans, overflow |-> FALSE]

\* validate_knowledge_ask_report_v1
ReportAccepted(r) ==
  /\ r.outcome = "succeeded" => r.result /\ r.reason = "none" /\ ~r.overflow
  /\ r.outcome # "succeeded" /\ r.result =>
       /\ IF r.outcome = "interrupted" THEN r.reason = "user_interrupted"
          ELSE r.reason \in DOMAIN StatusOfError /\ StatusOfError[r.reason] = r.outcome
       /\ r.overflow => r.outcome = "failed" /\ r.reason = "codex_process_failed"
  /\ r.outcome # "succeeded" /\ ~r.result =>
       /\ ~r.overflow
       /\ r.outcome = "blocked" => ~r.orphans
       /\ <<r.outcome, r.reason>> \in
            {<<"blocked", "refused">>, <<"failed", "refused">>, <<"failed", "not_published">>,
             <<"interrupted", "user_interrupted_before_answer">>}

\* The request that goes to the publication.
Request ==
  [status |-> verdict.status, code |-> verdict.code, pair |-> verdict.pair,
   attempts |-> attempts,
   view |-> CASE found \in {"zero", "some"} -> "within_limit"
              [] found = "too_large" -> "too_large" [] OTHER -> "none",
   candidates |-> CASE found = "zero" -> 0 [] found = "some" -> 1 [] OTHER -> None]

Init ==
  /\ at = "barrier" /\ now = 0 /\ cancel = None
  /\ attempts = <<>> /\ shared = None /\ run = NoRun /\ due = 0 /\ completed = 0
  /\ fault = "none" /\ verdict = NoVerdict
  /\ stage = 1 /\ idFormed = FALSE /\ orphans = FALSE /\ found = "nothing"
  /\ snap = FALSE /\ report = NoReport /\ shown = NoShown /\ exitCode = None

(************************** before the Answer ID **************************)

Say(r) == at' = "report" /\ report' = r
\* _pre_id_interrupted_report_v1
SayInterrupted == Say(Without("interrupted", "user_interrupted_before_answer"))

\* try_begin_work_v1 before a piece of work.
Barrier ==
  /\ at = "barrier"
  /\ IF Cancelled THEN SayInterrupted ELSE at' = "prepare" /\ UNCHANGED report
  /\ UNCHANGED <<answering, verdict, stage, idFormed, orphans, found, snap, shown, exitCode>>

Prepare ==
  /\ at = "prepare"
  /\ \/ Say(Without(Refusals[stage], "refused")) /\ UNCHANGED <<stage, orphans>>
     \/ /\ stage < Scan /\ at' = "barrier" /\ stage' = stage + 1
        /\ UNCHANGED <<orphans, report>>
     \/ /\ stage = Scan /\ at' = "cutover" /\ orphans' \in BOOLEAN
        /\ UNCHANGED <<stage, report>>
  /\ UNCHANGED <<answering, verdict, idFormed, found, snap, shown, exitCode>>

\* try_answer_id_cutover_v1
CutOver ==
  /\ at = "cutover"
  /\ IF Cancelled THEN SayInterrupted /\ UNCHANGED idFormed
                  ELSE at' = "entered" /\ idFormed' = TRUE /\ UNCHANGED report
  /\ UNCHANGED <<answering, verdict, stage, orphans, found, snap, shown, exitCode>>

(**************************** the Answer lifecycle ****************************)

\* A terminal cause that is not the answerer's: there is no prompt and no Schema.
Settled(status, code) ==
  /\ at' = "publish"
  /\ verdict' = [NoVerdict EXCEPT !.status = status, !.code = code]

Enter ==
  /\ at = "entered"
  /\ IF Cancelled THEN Settled("interrupted", "none") ELSE at' = "retrieve" /\ UNCHANGED verdict
  /\ UNCHANGED <<answering, askVars>>

Retrieve ==
  /\ at = "retrieve"
  /\ \/ Say(Without("failed", "refused")) /\ UNCHANGED <<verdict, found>>
     \/ \E error \in Errors :
          Settled(StatusOfError[error], error) /\ found' = error /\ UNCHANGED report
     \/ /\ found' \in {"zero", "some", "too_large"} /\ at' = "retrieved"
        /\ UNCHANGED <<verdict, report>>
  /\ UNCHANGED <<answering, stage, idFormed, orphans, snap, shown, exitCode>>

\* The barrier after retrieval, and what comes next.
Retrieved ==
  /\ at = "retrieved"
  /\ IF Cancelled THEN Settled("interrupted", "none") /\ UNCHANGED report
     ELSE CASE found = "too_large" ->
                 Settled("blocked", "retrieval_view_too_large") /\ UNCHANGED report
            [] found = "zero" -> at' = "render_zero" /\ UNCHANGED <<verdict, report>>
            [] found = "some" -> \/ at' = "call" /\ UNCHANGED <<verdict, report>>
                                 \/ Say(Without("failed", "refused")) /\ UNCHANGED verdict
  /\ UNCHANGED <<answering, stage, idFormed, orphans, found, snap, shown, exitCode>>

\* Without a candidate the answer is known; it is rendered, and the cancellation wins
\* when it was observed by then.
RenderZero ==
  /\ at = "render_zero" /\ at' = "rendered_zero" /\ completed' = now
  /\ UNCHANGED <<timeVars, attempts, shared, run, due, fault, verdict, askVars>>
JudgeZero ==
  /\ at = "rendered_zero"
  /\ Settled(IF Cancelled /\ cancel <= completed THEN "interrupted" ELSE "succeeded", "none")
  /\ UNCHANGED <<answering, askVars>>

Answer == AnswererStep /\ UNCHANGED askVars

\* _publish_answer_report_v1: committed, refused, or the outcome is unknown.
Publish ==
  /\ at = "publish"
  /\ \/ /\ RequestAccepted(Request)
        /\ Say([outcome |-> verdict.status, result |-> TRUE,
                reason |-> IF verdict.status = "interrupted" THEN "user_interrupted" ELSE verdict.code,
                orphans |-> orphans, overflow |-> verdict.overflow])
     \/ RequestAccepted(Request) /\ Say(Without("failed", "not_published"))
     \/ Raise /\ UNCHANGED report
  /\ UNCHANGED <<answering, verdict, stage, idFormed, orphans, found, snap, shown, exitCode>>

(****************************** show and seal ******************************)

\* cancellation_adjusted_report_v1.  (Mutant first: the report stands.)
AdjustedNever(r, cancelled) == r
Adjusted(r, cancelled) ==
  IF cancelled /\ r.outcome = "blocked" /\ ~r.result
    THEN [NoReport EXCEPT !.outcome = "interrupted", !.reason = "user_interrupted_before_answer"]
    ELSE r

Snapshot ==
  /\ at = "report" /\ at' = "present" /\ snap' = Cancelled
  /\ UNCHANGED <<answering, verdict, stage, idFormed, orphans, found, report, shown, exitCode>>

\* The committed Answer is read back before it is shown to a human.
CommittedForHuman(r) == r.outcome = "succeeded" => ReadsBack(Request)
\* What may turn out not to be representable: a result as JSON, and for a human the text
\* of an Answer, which may also be gone or changed by now.  The program's own texts are.
MayBeLost(r, json) == IF json THEN r.result ELSE r.outcome = "succeeded"

\* _prepare_knowledge_ask_presentation_v1
Present ==
  /\ at = "present"
  /\ \E json \in IF shown = NoShown THEN BOOLEAN ELSE {shown.json}, lost \in BOOLEAN :
       LET r == Adjusted(report, snap)
       IN /\ lost => MayBeLost(r, json)
          /\ ~json /\ ~CommittedForHuman(r) => lost
          /\ IF ReportAccepted(r)
               THEN at' = "seal" /\ shown' = [report |-> r, json |-> json, lost |-> lost]
               ELSE Raise /\ UNCHANGED shown
  /\ UNCHANGED <<answering, verdict, stage, idFormed, orphans, found, snap, report, exitCode>>

\* conditional_seal_v1: refused when a delivery was accepted after the snapshot; the
\* loop then takes another.  (Mutant first: it does not.)
SealWithoutSnapshot ==
  /\ at \in {"seal", "again"}
  /\ at' = (IF snap = Cancelled THEN "sealed" ELSE IF at = "seal" THEN "again" ELSE "seal")
  /\ UNCHANGED <<answering, verdict, stage, idFormed, orphans, found, snap, report, shown, exitCode>>
Seal ==
  /\ at = "seal"
  /\ at' = (IF snap = Cancelled THEN "sealed" ELSE "report")
  /\ UNCHANGED <<answering, verdict, stage, idFormed, orphans, found, snap, report, shown, exitCode>>

\* What was prepared is written; when nothing could be, the process ends at once.
ExitCodes == [succeeded |-> 0, blocked |-> 2, failed |-> 1, interrupted |-> 130]
Exit ==
  /\ at = "sealed" /\ at' = "exited"
  /\ exitCode' = IF shown.lost THEN 1 ELSE ExitCodes[shown.report.outcome]
  /\ UNCHANGED <<answering, verdict, stage, idFormed, orphans, found, snap, report, shown>>

(******************************** environment ********************************)

\* The first Ctrl+C; once the report is sealed none is accepted.
Cancel ==
  /\ ~Cancelled /\ at \notin {"sealed", "exited", "raised"} /\ cancel' = now
  /\ UNCHANGED <<at, now, attempts, shared, run, due, completed, fault, verdict, askVars>>

\* Bound: the clock stops past the shared deadline, and at Early while there is none.
Horizon == IF run.shared # None THEN run.shared + 1 ELSE IF shared # None THEN shared + 1 ELSE Early
Tick ==
  /\ at \notin {"sealed", "exited", "raised"} /\ now < Horizon /\ now' = now + 1
  /\ UNCHANGED <<at, cancel, attempts, shared, run, due, completed, fault, verdict, askVars>>

Step ==
  \/ Barrier \/ Prepare \/ CutOver \/ Enter \/ Retrieve \/ Retrieved \/ RenderZero
  \/ JudgeZero \/ Answer \/ Publish \/ Snapshot \/ Present \/ Seal \/ Exit
Next == Step \/ Cancel \/ Tick

\* One thread runs the command, and time passes.
Spec == Init /\ [][Next]_vars /\ WF_vars(Step) /\ WF_vars(Tick)

(********************************* properties *********************************)

AnswererSteps ==
  {"call", "window", "unformed", "unprepared", "clock", "unformed_clock", "unprepared_clock",
   "form", "gate", "launch", "running", "captured", "classify", "poll", "poll_clock",
   "finish", "validate", "validated", "render", "rendered"}

Moments == Nat \union {None}
Attempts == [class : {"timeout", "process_error", "interrupted", "none"}, sound : BOOLEAN]
Runs ==
  [shared : Moments, deadline : Moments, started : BOOLEAN, ready : Nat, failed : BOOLEAN,
   exit : {None, 0, 1}, events : {"completed", "failed", "open", "invalid", "capped"},
   cut : BOOLEAN, outcome : Codex!Outcomes \union {"none"}]
Statuses == {"succeeded", "interrupted", "blocked", "failed"}
Codes == DOMAIN StatusOfError \union {"none"}
Verdicts == [status : Statuses \union {"none"}, code : Codes, pair : BOOLEAN, overflow : BOOLEAN]
Reports ==
  [outcome : Statuses \union {"none"}, result : BOOLEAN, orphans : BOOLEAN, overflow : BOOLEAN,
   reason : Codes \union {"refused", "not_published", "user_interrupted",
                          "user_interrupted_before_answer"}]

TypeOK ==
  /\ at \in AnswererSteps \union
       {"barrier", "prepare", "cutover", "entered", "retrieve", "retrieved", "render_zero",
        "rendered_zero", "publish", "report", "present", "seal", "sealed", "exited", "raised"}
  /\ now \in Nat /\ due \in Nat /\ completed \in Nat
  /\ cancel \in Moments /\ shared \in Moments
  /\ attempts \in Seq(Attempts) /\ Len(attempts) <= 3
  /\ run \in Runs /\ verdict \in Verdicts
  /\ fault \in {"none"} \union AfterProvider
  /\ stage \in 1..Scan
  /\ idFormed \in BOOLEAN /\ orphans \in BOOLEAN /\ snap \in BOOLEAN
  /\ found \in Errors \union {"nothing", "zero", "some", "too_large"}
  /\ report \in Reports
  /\ shown \in [report : Reports, json : BOOLEAN, lost : BOOLEAN]
  /\ exitCode \in {None, 0, 1, 2, 130}

\* The publication validates its request against two matrices and raises when they do
\* not accept it: the Answer would be lost with the command.  Whatever path through
\* barriers, attempts, backoffs and checks a command took, the terminal cause, the
\* assets and the attempts it arrives with fit together, the record of every attempt
\* fits its events, and the reader, who has to infer the number of candidates, accepts
\* what was published.
EveryRequestIsAccepted == at = "publish" => RequestAccepted(Request) /\ ReadsBack(Request)

\* A cause is named only in time, as far as the code can tell.  A published success
\* had no cancellation before its rendering was complete.  A timeout is exhausted
\* after three attempts or the shared deadline, and no cancellation came before the
\* deadline of the last attempt.  An interruption came no later than the deadline of
\* the attempt it ended, or the shared one when it ended the waiting for the next.
\* Cancellation and clock are read in separate steps at every place where this is
\* decided; a cancellation that comes between the two before the shared deadline
\* loses to it all the same.
Tried(class) == Len(attempts) \in 1..3 /\ attempts[Len(attempts)].class = class
InTime ==
  /\ Tried("interrupted") => run.deadline = None \/ cancel <= run.deadline
  /\ Tried("timeout") => cancel <= shared
CauseIsTimely ==
  at = "publish" =>
    /\ verdict.status = "succeeded" /\ Cancelled => cancel >= completed
    /\ verdict.code = "codex_timeout_exhausted" =>
         /\ Len(attempts) = 3 \/ Reached(shared)
         /\ Cancelled => cancel >= run.deadline
    /\ verdict.status = "interrupted" => Cancelled /\ InTime

\* What is sealed and shown tells the truth about Ctrl+C and the Answer ID: "before
\* answer" only before the cutover, a command that was blocked without an Answer was
\* not cancelled, an interruption after the cutover left an Answer.  And the exit code
\* goes with it: 130 exactly for an interruption that could be shown, and never 0
\* without a published Answer.
SealedReportIsTrue ==
  at \in {"sealed", "exited"} =>
    LET r == shown.report
    IN /\ ReportAccepted(r)
       /\ r.outcome = "blocked" /\ ~r.result => ~Cancelled /\ ~idFormed
       /\ r.outcome = "interrupted" => Cancelled /\ (r.result <=> idFormed)
       /\ r.result => idFormed
       /\ at = "exited" =>
            /\ exitCode = 130 <=> r.outcome = "interrupted" /\ ~shown.lost
            /\ exitCode = 0 => verdict.status = "succeeded" /\ ReadsBack(Request)

\* The inductive invariant.  Nothing is dated in the future, and a verdict is the last word.
Ending == {"publish", "report", "present", "seal", "sealed", "exited", "raised"}
TimeInv ==
  /\ cancel # None => cancel <= now
  /\ completed <= now /\ run.ready <= now
\* Which steps lie before and after the cutover and the retrieval.
PathInv ==
  /\ at \in {"barrier", "prepare", "cutover"} => ~idFormed
  /\ at \in {"barrier", "prepare"} => ~orphans
  /\ at \notin {"barrier", "prepare", "cutover"} \union (Ending \ {"publish"}) => idFormed
  /\ at \in {"barrier", "prepare", "cutover", "entered", "retrieve"} => found = "nothing"
  /\ at = "retrieved" => found \in {"zero", "some", "too_large"}
  /\ at \in {"render_zero", "rendered_zero"} => found = "zero"
  /\ at \in AnswererSteps => found = "some"
  /\ at \notin Ending => verdict = NoVerdict
  /\ at = "publish" => verdict # NoVerdict
\* Every attempt but the last one timed out; there is a shared deadline as soon as there was
\* an attempt; a cancellation that is not reported came after the last deadline.
Trying ==
  {"window", "unformed", "unprepared", "clock", "unformed_clock", "unprepared_clock", "form",
   "gate", "launch", "running", "captured", "classify", "poll", "poll_clock"}
DeadlineIsPast ==
  /\ run.deadline \in Nat /\ run.deadline <= now
  /\ cancel # None => run.deadline <= cancel
AttemptsInv ==
  /\ \A i \in 1..Len(attempts) : attempts[i].sound
  /\ \A i \in 1..(Len(attempts) - 1) : attempts[i].class = "timeout"
  /\ at \in Trying => \/ attempts = <<>> /\ shared = None
                      \/ Tried("timeout") /\ Len(attempts) < 3 /\ shared # None
  /\ at \in {"poll", "poll_clock"} => attempts # <<>>
  /\ at \in Trying \ {"running", "captured", "classify"} /\ attempts # <<>> => DeadlineIsPast
  /\ at \in {"running", "captured", "classify"} /\ run.deadline # None => run.shared # None
  /\ at = "classify" =>
       /\ run.outcome # "none"
       /\ run.outcome = "timeout" => run.deadline # None /\ run.deadline <= run.ready
       /\ run.outcome = "interrupted" => Cancelled
  /\ at \in {"finish", "validate", "validated", "render", "rendered"} => Tried("none")
  /\ at \notin Trying \union Ending \union
       {"finish", "validate", "validated", "render", "rendered"} =>
       attempts = <<>> /\ shared = None
\* The verdict fits what was found and tried.
WithoutCall ==
  /\ ~verdict.pair /\ ~verdict.overflow /\ attempts = <<>>
  /\ \/ verdict.status = "interrupted" /\ verdict.code = "none" /\ found \notin Errors
     \/ verdict.status = "succeeded" /\ verdict.code = "none" /\ found = "zero"
     \/ /\ found \in Errors
        /\ verdict.code = found /\ verdict.status = StatusOfError[found]
     \/ /\ verdict.status = "blocked" /\ verdict.code = "retrieval_view_too_large"
        /\ found = "too_large"
     \/ /\ verdict.status = "failed" /\ verdict.code = "synthesis_input_invalid"
        /\ found = "some"
WithCall ==
  /\ verdict.pair /\ found = "some"
  /\ verdict.overflow => verdict.code = "codex_process_failed"
  /\ \/ /\ verdict.status = "interrupted" /\ verdict.code = "none"
        /\ \/ attempts = <<>> \/ Tried("none") \/ Tried("interrupted")
           \/ Tried("timeout") /\ Len(attempts) < 3
     \/ verdict.status = "succeeded" /\ verdict.code = "none" /\ Tried("none")
     \/ /\ verdict.status = "blocked" /\ verdict.code = "codex_runtime_unavailable"
        /\ attempts = <<>>
     \/ /\ verdict.status = "blocked" /\ verdict.code = "codex_timeout_exhausted"
        /\ Tried("timeout")
     \/ /\ verdict.status = "failed" /\ verdict.code = "codex_process_failed"
        /\ Tried("process_error")
     \/ verdict.status = "failed" /\ verdict.code \in AfterProvider /\ Tried("none")
VerdictInv ==
  verdict # NoVerdict =>
    /\ idFormed /\ (WithoutCall \/ WithCall)
    /\ verdict.status = "succeeded" /\ Cancelled => cancel >= completed
    /\ verdict.code = "codex_timeout_exhausted" => DeadlineIsPast
    /\ verdict.status = "interrupted" => Cancelled
\* What is reported fits the verdict, and what is shown is the report adjusted to what was
\* known of Ctrl+C.
Published ==
  /\ verdict # NoVerdict /\ report.outcome = verdict.status /\ report.result
  /\ report.reason = IF verdict.status = "interrupted" THEN "user_interrupted" ELSE verdict.code
  /\ report.overflow = verdict.overflow
ReportInv ==
  at \in {"report", "present", "seal", "sealed", "exited"} =>
    \/ Published
    \/ /\ ~report.result /\ ~report.overflow
       /\ \/ /\ report.outcome = "interrupted"
             /\ report.reason = "user_interrupted_before_answer" /\ Cancelled /\ ~idFormed
          \/ report.outcome = "blocked" /\ report.reason = "refused" /\ ~report.orphans /\ ~idFormed
          \/ report.outcome = "failed" /\ report.reason \in {"refused", "not_published"}
ShownInv ==
  /\ at \in {"present", "seal", "sealed", "exited"} /\ snap => Cancelled
  /\ at \in {"sealed", "exited"} => snap = Cancelled
  /\ at \in {"seal", "sealed", "exited"} =>
       shown.report = Adjusted(report, snap) /\ ReportAccepted(shown.report)
  /\ at = "exited" => exitCode = IF shown.lost THEN 1 ELSE ExitCodes[shown.report.outcome]
IInv ==
  /\ TypeOK /\ TimeInv /\ PathInv /\ AttemptsInv /\ VerdictInv /\ ReportInv /\ ShownInv

\* When a cause was named it was in time; while an attempt is classified an interruption
\* of it is.
CauseInv ==
  /\ at = "classify" /\ run.outcome = "interrupted" =>
       Cancelled /\ (run.deadline = None \/ cancel <= run.deadline)
  /\ verdict.code = "codex_timeout_exhausted" => Len(attempts) = 3 \/ Reached(shared)
  /\ verdict.status = "interrupted" => InTime

\* Every command ends, with an exit code or with an exception, however often the
\* provider times out and whenever Ctrl+C arrives.
AskEnds == <>(at \in {"exited", "raised"})

=============================================================================
