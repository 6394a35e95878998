------------------------ MODULE KnowledgeAskProofs ------------------------
(***************************************************************************)
(* What is proved of one ask, wherever Ctrl+C, the deadlines and the       *)
(* faults of the services fall.  IInv is inductive: it follows the path    *)
(* from the cutover to the exit and keeps with every verdict the attempts  *)
(* and the retrieval it comes from.  The acceptance rules of the           *)
(* publication are then checked against each such verdict.                 *)
(***************************************************************************)
EXTENDS KnowledgeAsk, TLAPS

(************************* lemmas about the helpers **************************)

\* The error codes, written out.
LEMMA CodesAre ==
  Codes = {"none", "fts5_unavailable", "retrieval_view_too_large", "retrieval_query_failed",
           "retrieval_materialization_failed", "codex_runtime_unavailable",
           "codex_timeout_exhausted", "synthesis_input_invalid", "codex_process_failed",
           "answer_output_invalid", "citation_link_construction_failed",
           "answer_rendering_failed"}
BY DEF Codes, StatusOfError

LEMMA StatusOfRetrievalError ==
  ASSUME NEW error \in Errors
  PROVE  error \in Codes \ {"none"} /\ StatusOfError[error] \in {"blocked", "failed"}
BY CodesAre DEF Errors, StatusOfError

\* What a verdict of the answerer, and one without it, consists of.
LEMMA VerdictIs ==
  ASSUME NEW status \in Statuses, NEW code \in Codes, Verdict(status, code)
  PROVE  /\ at' = "publish" /\ verdict' \in Verdicts /\ verdict' # NoVerdict
         /\ verdict'.status = status /\ verdict'.code = code
         /\ verdict'.pair /\ ~verdict'.overflow
BY DEF Verdict, Verdicts, NoVerdict

LEMMA SettledIs ==
  ASSUME NEW status \in Statuses, NEW code \in Codes, Settled(status, code)
  PROVE  /\ at' = "publish" /\ verdict' \in Verdicts /\ verdict' # NoVerdict
         /\ verdict'.status = status /\ verdict'.code = code
         /\ ~verdict'.pair /\ ~verdict'.overflow
<1>1. verdict' = [status |-> status, code |-> code, pair |-> FALSE, overflow |-> FALSE]
  BY DEF Settled, NoVerdict
<1>2. verdict' \in Verdicts
  BY <1>1 DEF Verdicts
<1>3. /\ verdict'.status = status /\ verdict'.code = code
      /\ verdict'.pair = FALSE /\ verdict'.overflow = FALSE
  BY <1>1
<1>4. NoVerdict.status = "none" /\ status # "none"
  BY DEF NoVerdict, Statuses
<1> QED BY <1>2, <1>3, <1>4 DEF Settled

LEMMA InputInvalidIs ==
  ASSUME InputInvalid
  PROVE  /\ at' = "publish" /\ attempts' = <<>> /\ verdict' \in Verdicts /\ verdict' # NoVerdict
         /\ verdict'.status = "failed" /\ verdict'.code = "synthesis_input_invalid"
         /\ ~verdict'.pair /\ ~verdict'.overflow
BY CodesAre DEF InputInvalid, Verdicts, NoVerdict, Statuses

LEMMA VerdictKinds ==
  /\ Interrupted \/ Exhausted \/ RuntimeUnavailable \/ InputInvalid => verdict' \in Verdicts
  /\ \A code \in AfterProvider : Verdict("failed", code) => verdict' \in Verdicts
  /\ Verdict("succeeded", "none") => verdict' \in Verdicts
<1>1. AfterProvider \union {"none", "codex_timeout_exhausted", "codex_runtime_unavailable"}
        \subseteq Codes
  BY CodesAre DEF AfterProvider
<1>2. Statuses = {"succeeded", "interrupted", "blocked", "failed"}
  BY DEF Statuses
<1>3. Interrupted \/ Exhausted \/ RuntimeUnavailable => verdict' \in Verdicts
  BY <1>1, <1>2, VerdictIs DEF Interrupted, Exhausted, RuntimeUnavailable
<1>4. InputInvalid => verdict' \in Verdicts
  BY InputInvalidIs
<1>5. \A code \in AfterProvider : Verdict("failed", code) => verdict' \in Verdicts
  BY <1>1, <1>2, VerdictIs
<1>6. Verdict("succeeded", "none") => verdict' \in Verdicts
  BY <1>1, <1>2, VerdictIs
<1> QED BY <1>3, <1>4, <1>5, <1>6

\* One more attempt.
LEMMA AppendIs ==
  ASSUME NEW list \in Seq(Attempts), NEW entry \in Attempts
  PROVE  LET longer == Append(list, entry)
         IN /\ longer \in Seq(Attempts) /\ Len(longer) = Len(list) + 1
            /\ longer[Len(longer)] = entry
            /\ \A i \in 1..Len(list) : longer[i] = list[i]
OBVIOUS

\* The failure class of an attempt goes with its record and its events, and a timeout is
\* one only when no cancellation came before the deadline.
LEMMA FailureClassIs ==
  ASSUME run \in Runs, cancel \in Moments, run.outcome \in Codex!Outcomes,
         run.outcome = "interrupted" => Cancelled,
         run.outcome = "timeout" => run.deadline # None /\ run.deadline <= run.ready
  PROVE  /\ FailureClass(run) \in {"timeout", "process_error", "interrupted", "none"}
         /\ EvidenceAccepted(FailureClass(run), run.exit, run.events)
         /\ FailureClass(run) = "interrupted" => Cancelled
         /\ FailureClass(run) = "timeout" =>
              /\ run.deadline \in Nat /\ run.deadline <= run.ready
              /\ Cancelled => run.deadline <= cancel
<1>1. /\ run.deadline \in Moments /\ run.ready \in Nat
      /\ run.events \in {"completed", "failed", "open", "invalid", "capped"}
  BY DEF Runs
<1>2. run.outcome \in {"clean", "provider_or_process_exit", "process_error", "interrupted", "timeout"}
  BY DEF Codex!Outcomes, Codex!Ordinary
<1>3. /\ FailureClass(run) \in {"timeout", "process_error", "interrupted", "none"}
      /\ FailureClass(run) = "interrupted" => Cancelled
  BY <1>2 DEF FailureClass, Broken, Remaining
<1>4. EvidenceAccepted(FailureClass(run), run.exit, run.events)
  BY <1>2 DEF FailureClass, Broken, Remaining, EvidenceAccepted, RecordAccepted, EventsAccepted
<1>5. ASSUME FailureClass(run) = "timeout"
      PROVE  /\ run.deadline \in Nat /\ run.deadline <= run.ready
             /\ Cancelled => run.deadline <= cancel
  <2>1. run.deadline # None /\ run.deadline <= run.ready
    BY <1>2, <1>5 DEF FailureClass, Broken, Remaining
  <2>2. ~(Cancelled /\ cancel <= run.ready /\ (run.deadline = None \/ cancel <= run.deadline))
    BY <1>2, <1>5 DEF FailureClass, Broken, Remaining
  <2> QED BY <1>1, <2>1, <2>2 DEF Moments
<1> QED BY <1>3, <1>4, <1>5

\* What the classification of an attempt does.
LEMMA ClassifyIs ==
  ASSUME IInv, Classify
  PROVE  \E class \in {"timeout", "process_error", "interrupted", "none"} :
           /\ attempts' \in Seq(Attempts) /\ Len(attempts') = Len(attempts) + 1
           /\ Len(attempts') \in 1..3 /\ attempts'[Len(attempts')].class = class
           /\ \A i \in 1..Len(attempts') : attempts'[i].sound
           /\ \A i \in 1..(Len(attempts') - 1) : attempts'[i].class = "timeout"
           /\ shared' = run.shared /\ run' = [NoRun EXCEPT !.deadline = run.deadline]
           /\ class = "interrupted" => Cancelled
           /\ class = "timeout" =>
                /\ shared' # None
                /\ run.deadline \in Nat /\ run.deadline <= now
                /\ cancel # None => run.deadline <= cancel
           /\ \/ class = "timeout" /\ Len(attempts') = 3 /\ Exhausted /\ UNCHANGED due
              \/ /\ class = "timeout" /\ Len(attempts') < 3 /\ at' = "poll"
                 /\ due' = now + Backoff(Len(attempts')) /\ UNCHANGED verdict
              \/ class = "interrupted" /\ Interrupted /\ UNCHANGED due
              \/ /\ class = "process_error" /\ at' = "publish" /\ UNCHANGED due
                 /\ verdict' = [status |-> "failed", code |-> "codex_process_failed",
                                pair |-> TRUE, overflow |-> run.cut \/ run.events = "capped"]
              \/ class = "none" /\ at' = "finish" /\ UNCHANGED <<due, verdict>>
           /\ UNCHANGED <<now, cancel, completed, fault>>
<1> DEFINE class == FailureClass(run)
           entry == [class |-> class, sound |-> EvidenceAccepted(class, run.exit, run.events)]
<1>1. /\ at = "classify" /\ run \in Runs /\ cancel \in Moments /\ now \in Nat
      /\ attempts \in Seq(Attempts) /\ run.ready <= now /\ run.ready \in Nat
  BY DEF IInv, TypeOK, TimeInv, Classify, Runs
<1>2. /\ run.outcome \in Codex!Outcomes
      /\ run.outcome = "interrupted" => Cancelled
      /\ run.outcome = "timeout" => run.deadline # None /\ run.deadline <= run.ready
      /\ run.deadline # None => run.shared # None
  BY <1>1 DEF IInv, AttemptsInv, Runs
<1>3. /\ class \in {"timeout", "process_error", "interrupted", "none"}
      /\ EvidenceAccepted(class, run.exit, run.events)
      /\ class = "interrupted" => Cancelled
      /\ class = "timeout" => /\ run.deadline \in Nat /\ run.deadline <= run.ready
                              /\ Cancelled => run.deadline <= cancel
  BY <1>1, <1>2, FailureClassIs
<1>4. /\ \A i \in 1..Len(attempts) : attempts[i].sound
      /\ \A i \in 1..(Len(attempts) - 1) : attempts[i].class = "timeout"
      /\ attempts = <<>> \/ attempts[Len(attempts)].class = "timeout"
      /\ Len(attempts) \in 0..2
  <2>1. \/ attempts = <<>>
        \/ Tried("timeout") /\ Len(attempts) < 3
    BY <1>1 DEF IInv, AttemptsInv, Trying
  <2>2. Len(attempts) \in Nat
    BY <1>1
  <2>3. /\ \A i \in 1..Len(attempts) : attempts[i].sound
        /\ \A i \in 1..(Len(attempts) - 1) : attempts[i].class = "timeout"
    BY DEF IInv, AttemptsInv
  <2>4. (attempts = <<>> \/ attempts[Len(attempts)].class = "timeout") /\ Len(attempts) \in 0..2
    <3>1. CASE attempts = <<>>
      BY <3>1
    <3>2. CASE Tried("timeout") /\ Len(attempts) < 3
      BY <2>2, <3>2 DEF Tried
    <3> QED BY <2>1, <3>1, <3>2
  <2> QED BY <2>3, <2>4
<1>5. /\ attempts' = Append(attempts, entry) /\ shared' = run.shared
      /\ run' = [NoRun EXCEPT !.deadline = run.deadline]
      /\ UNCHANGED <<now, cancel, completed, fault>>
  BY DEF Classify, timeVars
<1>6. \/ class = "timeout" /\ Len(attempts) + 1 = 3 /\ Exhausted /\ UNCHANGED due
      \/ /\ class = "timeout" /\ Len(attempts) + 1 < 3 /\ at' = "poll"
         /\ due' = now + Backoff(Len(attempts) + 1) /\ UNCHANGED verdict
      \/ class = "interrupted" /\ Interrupted /\ UNCHANGED due
      \/ /\ class = "process_error" /\ at' = "publish" /\ UNCHANGED due
         /\ verdict' = [status |-> "failed", code |-> "codex_process_failed",
                        pair |-> TRUE, overflow |-> run.cut \/ run.events = "capped"]
      \/ class = "none" /\ at' = "finish" /\ UNCHANGED <<due, verdict>>
  <2> HIDE DEF entry
  <2>1. LET ordinal == Len(attempts) + 1 IN
          CASE class = "timeout" /\ ordinal = 3 -> Exhausted /\ UNCHANGED due
            [] class = "timeout" /\ ordinal < 3 ->
                 at' = "poll" /\ due' = now + Backoff(ordinal) /\ UNCHANGED verdict
            [] class = "interrupted" -> Interrupted /\ UNCHANGED due
            [] class = "process_error" ->
                 /\ at' = "publish" /\ UNCHANGED due
                 /\ verdict' = [status |-> "failed", code |-> "codex_process_failed",
                                pair |-> TRUE, overflow |-> run.cut \/ run.events = "capped"]
            [] class = "none" -> at' = "finish" /\ UNCHANGED <<due, verdict>>
    BY Zenon DEF Classify
  <2> HIDE DEF class
  <2>2. CASE class = "timeout"
    <3>1. Len(attempts) \in 0..2
      BY <1>4
    <3>2. CASE Len(attempts) = 2
      BY <2>1, <2>2, <3>2
    <3>3. CASE Len(attempts) \in 0..1
      <4>1. Len(attempts) + 1 # 3 /\ Len(attempts) + 1 < 3
        <5>1. \A n \in 0..1 : n + 1 # 3 /\ n + 1 < 3
          OBVIOUS
        <5> QED BY Zenon, <3>3, <5>1
      <4>2. /\ at' = "poll" /\ due' = now + Backoff(Len(attempts) + 1)
            /\ UNCHANGED verdict
        BY <2>1, <2>2, <4>1
      <4> QED BY <2>2, <4>1, <4>2
    <3>4. Len(attempts) = 2 \/ Len(attempts) \in 0..1
      BY <3>1
    <3> QED BY <3>2, <3>3, <3>4
  <2>3. CASE class = "interrupted"
    BY <2>1, <2>3
  <2>4. CASE class = "process_error"
    BY <2>1, <2>4
  <2>5. CASE class = "none"
    BY <2>1, <2>5
  <2> QED BY <1>3, <2>2, <2>3, <2>4, <2>5
<1>7. entry \in Attempts /\ entry.class = class /\ entry.sound
  <2>1. EvidenceAccepted(class, run.exit, run.events) \in BOOLEAN
    BY DEF EvidenceAccepted
  <2> HIDE DEF class
  <2> QED BY <1>3, <2>1 DEF Attempts
<1> HIDE DEF entry
<1>8. /\ attempts' \in Seq(Attempts) /\ Len(attempts') = Len(attempts) + 1
      /\ attempts'[Len(attempts')] = entry
      /\ \A i \in 1..Len(attempts) : attempts'[i] = attempts[i]
  BY <1>1, <1>5, <1>7, AppendIs
<1>9. /\ Len(attempts') \in 1..3 /\ attempts'[Len(attempts')].class = class
      /\ \A i \in 1..Len(attempts') : attempts'[i].sound
      /\ \A i \in 1..(Len(attempts') - 1) : attempts'[i].class = "timeout"
  BY <1>4, <1>7, <1>8
<1>10. class = "timeout" =>
         /\ shared' # None /\ run.deadline \in Nat /\ run.deadline <= now
         /\ cancel # None => run.deadline <= cancel
  <2> SUFFICES ASSUME class = "timeout"
               PROVE  /\ shared' # None /\ run.deadline \in Nat /\ run.deadline <= now
                      /\ cancel # None => run.deadline <= cancel
    OBVIOUS
  <2> HIDE DEF class
  <2>1. run.deadline \in Nat /\ run.deadline <= run.ready /\ run.deadline # None
    BY <1>3, TimesAssumption
  <2>2. shared' # None
    BY <1>2, <1>5, <2>1
  <2> QED BY <1>1, <1>3, <2>1, <2>2 DEF Cancelled
<1> HIDE DEF class
<1> WITNESS class \in {"timeout", "process_error", "interrupted", "none"}
<1> QED BY <1>3, <1>5, <1>6, <1>8, <1>9, <1>10

LEMMA WithoutIs ==
  ASSUME NEW outcome \in Statuses, orphans \in BOOLEAN,
         NEW reason \in {"refused", "not_published", "user_interrupted_before_answer"}
  PROVE  LET r == Without(outcome, reason)
         IN /\ r \in Reports /\ r.outcome = outcome /\ r.reason = reason
            /\ ~r.result /\ ~r.overflow /\ r.orphans = orphans
BY DEF Without, Reports

\* A verdict with the prompt and the Schema fits what was tried.
LEMMA CalledVerdictFits ==
  ASSUME IInv, at \in AnswererSteps, UNCHANGED askVars,
         UNCHANGED <<attempts, run, now, cancel, completed>>,
         NEW status \in Statuses, NEW code \in Codes, Verdict(status, code),
         \/ /\ status = "interrupted" /\ code = "none" /\ Cancelled
            /\ \/ attempts = <<>> \/ Tried("none")
               \/ Tried("timeout") /\ Len(attempts) < 3
         \/ /\ status = "succeeded" /\ code = "none" /\ Tried("none")
            /\ Cancelled => cancel >= completed
         \/ status = "blocked" /\ code = "codex_runtime_unavailable" /\ attempts = <<>>
         \/ /\ status = "blocked" /\ code = "codex_timeout_exhausted" /\ Tried("timeout")
            /\ DeadlineIsPast
         \/ status = "failed" /\ code \in AfterProvider /\ Tried("none")
  PROVE  VerdictInv'
<1>1. idFormed' /\ found' = "some"
  BY DEF IInv, PathInv, askVars, AnswererSteps, Ending
<1>2. /\ verdict'.status = status /\ verdict'.code = code
      /\ verdict'.pair /\ ~verdict'.overflow
  BY VerdictIs
<1>3. WithCall'
  BY <1>1, <1>2 DEF WithCall, Tried
<1>4. DeadlineIsPast => DeadlineIsPast'
  BY DEF DeadlineIsPast
<1> QED BY <1>1, <1>2, <1>3, <1>4 DEF VerdictInv, Cancelled, AfterProvider

\* A verdict without them fits what was found.
LEMMA SettledVerdictFits ==
  ASSUME idFormed, UNCHANGED <<idFormed, cancel, completed>>,
         attempts' = <<>>,
         ~verdict'.pair, ~verdict'.overflow,
         \/ verdict'.status = "interrupted" /\ verdict'.code = "none" /\ found' \notin Errors /\ Cancelled
         \/ /\ verdict'.status = "succeeded" /\ verdict'.code = "none" /\ found' = "zero"
            /\ Cancelled => cancel >= completed
         \/ /\ found' \in Errors
            /\ verdict'.code = found' /\ verdict'.status = StatusOfError[found']
         \/ /\ verdict'.status = "blocked" /\ verdict'.code = "retrieval_view_too_large"
            /\ found' = "too_large"
         \/ /\ verdict'.status = "failed" /\ verdict'.code = "synthesis_input_invalid"
            /\ found' = "some"
  PROVE  VerdictInv'
<1>1. WithoutCall'
  BY DEF WithoutCall
<1>2. verdict'.status \in {"interrupted", "succeeded", "blocked", "failed"}
        /\ verdict'.code # "codex_timeout_exhausted"
  BY StatusOfRetrievalError DEF Errors
<1>3. verdict'.status = "succeeded" /\ Cancelled' => cancel' >= completed'
  BY StatusOfRetrievalError DEF Cancelled
<1>4. verdict'.status = "interrupted" => Cancelled'
  BY StatusOfRetrievalError DEF Cancelled
<1> QED BY <1>1, <1>2, <1>3, <1>4 DEF VerdictInv

LEMMA RefusalsAre == \A step \in 1..Scan : Refusals[step] \in {"blocked", "failed"}
BY DEF Scan, Refusals

LEMMA PublishedIs ==
  ASSUME verdict \in Verdicts, orphans \in BOOLEAN
  PROVE  [outcome |-> verdict.status, result |-> TRUE,
          reason |-> IF verdict.status = "interrupted" THEN "user_interrupted" ELSE verdict.code,
          orphans |-> orphans, overflow |-> verdict.overflow] \in Reports
<1> DEFINE reason == IF verdict.status = "interrupted" THEN "user_interrupted" ELSE verdict.code
<1>1. reason \in Codes \union {"user_interrupted"}
  BY DEF Verdicts
<1> HIDE DEF reason
<1> QED BY <1>1 DEF Verdicts, Reports

LEMMA AdjustedIs ==
  ASSUME NEW r \in Reports, NEW cancelled \in BOOLEAN
  PROVE  Adjusted(r, cancelled) \in Reports
<1>1. CASE cancelled /\ r.outcome = "blocked" /\ ~r.result
  <2>1. Adjusted(r, cancelled) =
          [outcome |-> "interrupted", result |-> FALSE, reason |-> "user_interrupted_before_answer",
           orphans |-> FALSE, overflow |-> FALSE]
    BY <1>1 DEF Adjusted, NoReport
  <2> QED BY <2>1 DEF Reports, Statuses
<1>2. CASE ~(cancelled /\ r.outcome = "blocked" /\ ~r.result)
  BY <1>2 DEF Adjusted
<1> QED BY <1>1, <1>2

\* What the steps of one attempt leave in its record.
LEMMA LaunchIs ==
  ASSUME IInv, Launch
  PROVE  /\ run' \in Runs /\ run'.ready <= now
         /\ at' = "running" /\ run'.deadline # None => run'.shared # None
<1> DEFINE whole == IF shared = None THEN now + Window ELSE shared
<1>1. now \in Nat /\ now + Timeout \in Nat /\ shared \in Moments /\ whole \in Nat /\ run \in Runs
      /\ run.ready <= now
  BY TimesAssumption DEF IInv, TypeOK, TimeInv, Moments
<1>2. Earlier(now + Timeout, whole) \in Nat
  BY <1>1 DEF Earlier
<1> HIDE DEF whole
<1>3. CASE run' = [NoRun EXCEPT !.started = TRUE, !.shared = whole,
                                !.deadline = Earlier(now + Timeout, whole)]
  <2>1. run' = [shared |-> whole, deadline |-> Earlier(now + Timeout, whole), started |-> TRUE,
                ready |-> 0, failed |-> FALSE, exit |-> None, events |-> "open", cut |-> FALSE,
                outcome |-> "none"]
    BY <1>3 DEF NoRun
  <2> HIDE DEF Earlier
  <2>2. run' \in Runs
    BY <1>1, <1>2, <2>1 DEF Runs, Moments
  <2>3. run'.ready = 0 /\ run'.shared = whole
    BY <2>1
  <2> QED BY <1>1, <2>2, <2>3, TimesAssumption
<1>4. ASSUME NEW failed \in BOOLEAN,
             run' = [NoRun EXCEPT !.shared = shared, !.deadline = shared, !.failed = failed]
      PROVE  /\ run' \in Runs /\ run'.ready <= now
             /\ run'.deadline # None => run'.shared # None
  <2>1. run' = [shared |-> shared, deadline |-> shared, started |-> FALSE,
                ready |-> 0, failed |-> failed, exit |-> None, events |-> "open", cut |-> FALSE,
                outcome |-> "none"]
    BY <1>4 DEF NoRun
  <2>2. run' \in Runs
    BY <1>1, <2>1 DEF Runs, Moments
  <2>3. run'.ready = 0 /\ run'.shared = shared /\ run'.deadline = shared
    BY <2>1
  <2> QED BY <1>1, <2>2, <2>3
<1>5. CASE at' = "raised" /\ UNCHANGED run
  BY <1>1, <1>5
<1> QED BY <1>3, <1>4, <1>5 DEF Launch, Raise, whole

LEMMA CaptureIs ==
  ASSUME IInv, Capture
  PROVE  /\ run' \in Runs /\ run'.ready <= now
         /\ run'.deadline = run.deadline /\ run'.shared = run.shared
<1>1. now \in Nat /\ run \in Runs /\ run.ready <= now
  BY DEF IInv, TypeOK, TimeInv
<1>2. ASSUME NEW failed \in BOOLEAN, NEW cut \in BOOLEAN, NEW exit \in {None, 0, 1},
             NEW events \in {"completed", "failed", "open", "invalid", "capped"},
             run' = [run EXCEPT !.failed = failed, !.exit = exit, !.events = events,
                                !.cut = cut, !.ready = now]
      PROVE  /\ run' \in Runs /\ run'.ready = now
             /\ run'.deadline = run.deadline /\ run'.shared = run.shared
  BY <1>1, <1>2 DEF Runs
<1>3. CASE UNCHANGED run
  BY <1>1, <1>3
<1>4. CASE \E failed \in {run.failed, TRUE}, cut \in BOOLEAN, exit \in {None, 0, 1},
              events \in {"completed", "failed", "open", "invalid", "capped"} :
             /\ ~run.started => exit # 0 /\ events = "open" /\ ~cut
             /\ run.started => exit # None \/ failed
             /\ cut \/ events = "capped" => failed
             /\ run' = [run EXCEPT !.failed = failed, !.exit = exit, !.events = events,
                                   !.cut = cut, !.ready = now]
  <2>1. PICK failed \in {run.failed, TRUE}, cut \in BOOLEAN, exit \in {None, 0, 1},
             events \in {"completed", "failed", "open", "invalid", "capped"} :
          /\ ~run.started => exit # 0 /\ events = "open" /\ ~cut
          /\ run.started => exit # None \/ failed
          /\ cut \/ events = "capped" => failed
          /\ run' = [run EXCEPT !.failed = failed, !.exit = exit, !.events = events,
                                !.cut = cut, !.ready = now]
    BY Zenon, <1>4
  <2>2. run.failed \in BOOLEAN
    BY <1>1 DEF Runs
  <2>3. failed \in BOOLEAN
    BY <2>2
  <2>4. /\ run' \in Runs /\ run'.ready = now
        /\ run'.deadline = run.deadline /\ run'.shared = run.shared
    BY <1>2, <2>1, <2>3
  <2> QED BY <1>1, <2>4
<1> QED
  <2>1. CASE at' = "raised" /\ UNCHANGED run
    BY <1>3, <2>1
  <2> QED BY Zenon, <1>4, <2>1 DEF Capture, Raise

LEMMA SettleIs ==
  ASSUME IInv, Settle
  PROVE  /\ run' \in Runs /\ run'.ready <= now
         /\ at' = "classify" =>
              /\ run'.deadline = run.deadline /\ run'.shared = run.shared
              /\ run'.outcome # "none"
              /\ run'.outcome = "timeout" => run'.deadline # None /\ run'.deadline <= run'.ready
              /\ run'.outcome = "interrupted" => Cancelled
<1>1. /\ now \in Nat /\ run \in Runs /\ run.ready <= now /\ run.ready \in Nat
      /\ run.deadline \in Moments
  BY DEF IInv, TypeOK, TimeInv, Runs
<1> DEFINE outcome ==
      Codex!MechanicalOutcome(run.failed, cancel, run.deadline, run.ready, run.exit)
<1>2. /\ outcome \in Codex!Outcomes
      /\ outcome = "timeout" => run.deadline # None /\ run.deadline <= run.ready
      /\ outcome = "interrupted" => cancel # None
  BY DEF Codex!MechanicalOutcome, Codex!Outcomes, Codex!Ordinary, Codex!Reached
<1>3. outcome # "none"
  BY <1>2 DEF Codex!Outcomes, Codex!Ordinary
<1> HIDE DEF outcome
<1>4. CASE run' = [run EXCEPT !.ready = now, !.outcome = outcome]
  <2>1. /\ run' \in Runs /\ run'.ready = now /\ run'.outcome = outcome
        /\ run'.deadline = run.deadline /\ run'.shared = run.shared
    BY <1>1, <1>2, <1>4 DEF Runs
  <2> QED BY <1>1, <1>2, <1>3, <2>1 DEF Cancelled, Moments
<1>5. CASE at' = "raised" /\ UNCHANGED run
  BY <1>1, <1>5
<1> QED BY <1>4, <1>5 DEF Settle, Raise, outcome

LEMMA ClassifyVerdictIs ==
  ASSUME run \in Runs,
         \/ Exhausted \/ Interrupted
         \/ verdict' = [status |-> "failed", code |-> "codex_process_failed",
                        pair |-> TRUE, overflow |-> run.cut \/ run.events = "capped"]
  PROVE  verdict' \in Verdicts /\ verdict' # NoVerdict
<1>1. CASE Exhausted \/ Interrupted
  BY <1>1, VerdictIs, CodesAre DEF Exhausted, Interrupted, Statuses
<1>2. ASSUME NEW overflow \in BOOLEAN,
             verdict' = [status |-> "failed", code |-> "codex_process_failed",
                         pair |-> TRUE, overflow |-> overflow]
      PROVE  verdict' \in Verdicts /\ verdict'.status = "failed"
  BY <1>2, CodesAre DEF Verdicts, Statuses
<1>3. (run.cut \/ run.events = "capped") \in BOOLEAN /\ NoVerdict.status = "none"
  BY DEF NoVerdict
<1> QED BY <1>1, <1>2, <1>3

\* What comes after the barrier behind retrieval.
LEMMA RetrievedIs ==
  ASSUME IInv, Retrieved
  PROVE  \/ Cancelled /\ Settled("interrupted", "none") /\ UNCHANGED report
         \/ /\ found = "too_large" /\ Settled("blocked", "retrieval_view_too_large")
            /\ UNCHANGED report
         \/ found = "zero" /\ at' = "render_zero" /\ UNCHANGED <<verdict, report>>
         \/ found = "some" /\ at' = "call" /\ UNCHANGED <<verdict, report>>
         \/ found = "some" /\ Say(Without("failed", "refused")) /\ UNCHANGED verdict
<1>1. found \in {"zero", "some", "too_large"}
  BY DEF Retrieved, IInv, PathInv
<1>2. CASE Cancelled
  BY <1>2 DEF Retrieved
<1>3. CASE ~Cancelled
  <2>1. CASE found = "too_large"
    BY <1>3, <2>1 DEF Retrieved
  <2>2. CASE found = "zero"
    BY <1>3, <2>2 DEF Retrieved
  <2>3. CASE found = "some"
    BY <1>3, <2>3 DEF Retrieved
  <2> QED BY <1>1, <2>1, <2>2, <2>3
<1> QED BY <1>2, <1>3

\* What is shown has one of the four outcomes.
LEMMA VerdictHasStatus ==
  ASSUME VerdictInv, verdict # NoVerdict PROVE verdict.status \in Statuses
BY StatusOfRetrievalError DEF VerdictInv, WithoutCall, WithCall, Statuses

LEMMA ShownHasOutcome ==
  ASSUME IInv, at \in {"seal", "sealed", "exited"}
  PROVE  shown.report.outcome \in Statuses
<1>1. report.outcome \in Statuses
  BY VerdictHasStatus DEF IInv, ReportInv, Published, Statuses
<1>2. shown.report = Adjusted(report, snap)
  BY DEF IInv, ShownInv
<1> QED BY <1>1, <1>2 DEF Adjusted, NoReport, Statuses


(*********************** each step keeps the invariant ***********************)

LEMMA OpenStep == ASSUME IInv, Open, UNCHANGED askVars PROVE IInv'
<1>1. TypeOK'
  <2>1. verdict' \in Verdicts
    BY VerdictKinds DEF Open, IInv, TypeOK
  <2>2. attempts' \in Seq(Attempts) /\ Len(attempts') <= 3
    <3>1. attempts' = attempts \/ attempts' = <<>>
      BY DEF Open, InputInvalid
    <3>2. <<>> \in Seq(Attempts) /\ Len(<<>>) = 0
      OBVIOUS
    <3>3. CASE attempts' = <<>>
      BY <3>2, <3>3
    <3>4. CASE attempts' = attempts
      BY <3>4 DEF IInv, TypeOK
    <3> QED BY <3>1, <3>3, <3>4
  <2>3. at' \in {"publish", "window"}
    BY DEF Open, InputInvalid, Interrupted, RuntimeUnavailable, Verdict
  <2> QED BY <2>1, <2>2, <2>3 DEF Open, IInv, TypeOK, timeVars, askVars, AnswererSteps
<1>2. TimeInv'
  BY DEF IInv, Open, TimeInv, askVars, timeVars
<1>3. PathInv'
  BY DEF IInv, Open, PathInv, AnswererSteps, askVars, InputInvalid, Cancelled, Interrupted,
     RuntimeUnavailable, timeVars, Ending, NoVerdict, Verdict
<1>4. AttemptsInv'
  BY DEF IInv, Open, AttemptsInv, PathInv, TimeInv, AnswererSteps, InputInvalid, Cancelled,
     Interrupted, RuntimeUnavailable, Trying, Tried, DeadlineIsPast, Ending, NoVerdict, Verdict
<1>5. VerdictInv'
  BY DEF IInv, Open, VerdictInv, TypeOK, PathInv, AttemptsInv, TimeInv, askVars, InputInvalid,
     Cancelled, Interrupted, RuntimeUnavailable, timeVars, NoVerdict, WithoutCall, WithCall,
     DeadlineIsPast, Ending, Trying, Tried, Verdict
<1>6. ReportInv'
  BY DEF IInv, Open, ReportInv, PathInv, InputInvalid, Cancelled, Interrupted, RuntimeUnavailable,
     Published, NoVerdict, Verdict
<1>7. ShownInv'
  BY DEF IInv, Open, ShownInv, InputInvalid, Cancelled, Interrupted, RuntimeUnavailable, Verdict
<1> QED BY <1>1, <1>2, <1>3, <1>4, <1>5, <1>6, <1>7 DEF IInv

LEMMA LookStep == ASSUME IInv, Look, UNCHANGED askVars PROVE IInv'
<1>1. TypeOK'
  <2>1. verdict' \in Verdicts
    BY VerdictKinds DEF Look, IInv, TypeOK
  <2> QED
    BY <2>1 DEF Look, IInv, TypeOK, timeVars, askVars, AnswererSteps, Interrupted, Exhausted,
       RuntimeUnavailable, InputInvalid, Verdict, ClockAfter
<1>2. TimeInv'
  BY DEF IInv, Look, TimeInv, askVars, ClockAfter, CancelWins, timeVars
<1>3. PathInv'
  BY DEF IInv, Look, PathInv, AnswererSteps, askVars, ClockAfter, CancelWins, Interrupted,
     timeVars, Ending, NoVerdict, Cancelled, Verdict
<1>4. AttemptsInv'
  <2>1. /\ at \in {"window", "unformed", "unprepared"}
        /\ at' \in {"publish", "clock", "unformed_clock", "unprepared_clock"}
    BY DEF Look, ClockAfter, Interrupted, Verdict
  <2>2. UNCHANGED <<attempts, run, shared, fault, now, cancel>>
    BY DEF Look, timeVars
  <2> QED BY <2>1, <2>2 DEF IInv, AttemptsInv, Trying, Tried, DeadlineIsPast, Ending
<1>5. VerdictInv'
  <2>1. /\ at \in {"window", "unformed", "unprepared"} /\ UNCHANGED <<attempts, run, now, cancel, completed>>
    BY DEF Look, ClockAfter, timeVars
  <2>2. (attempts = <<>> \/ Tried("timeout")) /\ Len(attempts) < 3
    BY <2>1 DEF IInv, AttemptsInv, Trying
  <2>3. CASE Interrupted /\ Cancelled
    BY <2>1, <2>2, <2>3, CodesAre, CalledVerdictFits DEF Interrupted, Statuses, AnswererSteps
  <2>4. CASE UNCHANGED verdict
    BY <2>1, <2>4 DEF IInv, PathInv, VerdictInv, Ending
  <2> QED BY <2>3, <2>4 DEF Look, CancelWins
<1>6. ReportInv'
  BY DEF IInv, Look, ReportInv, PathInv, ClockAfter, CancelWins, Interrupted, Published,
     Cancelled, NoVerdict, Verdict
<1>7. ShownInv'
  BY DEF IInv, Look, ShownInv, ClockAfter, CancelWins, Interrupted, Cancelled, Verdict
<1> QED BY <1>1, <1>2, <1>3, <1>4, <1>5, <1>6, <1>7 DEF IInv

LEMMA LookAtClockStep == ASSUME IInv, LookAtClock, UNCHANGED askVars PROVE IInv'
<1>1. TypeOK'
  <2>1. verdict' \in Verdicts
    BY VerdictKinds DEF LookAtClock, IInv, TypeOK, GoOn
  <2> QED
    BY <2>1 DEF LookAtClock, IInv, TypeOK, timeVars, askVars, AnswererSteps, Interrupted,
       Exhausted, RuntimeUnavailable, InputInvalid, Verdict, GoOn, Raise, Attempts
<1>2. TimeInv'
  BY DEF IInv, LookAtClock, TimeInv, askVars, Reached, GoOn, timeVars
<1>3. PathInv'
  BY DEF IInv, LookAtClock, PathInv, AnswererSteps, askVars, Reached, Exhausted, GoOn, timeVars,
     Ending, NoVerdict, Verdict, InputInvalid, Raise, RuntimeUnavailable
<1>4. AttemptsInv'
  <2>1. /\ at \in {"clock", "unformed_clock", "unprepared_clock"}
        /\ at' \in {"publish", "form", "raised"}
    BY DEF LookAtClock, GoOn, Exhausted, RuntimeUnavailable, InputInvalid, Raise, Verdict
  <2>2. UNCHANGED <<attempts, run, shared, fault, now, cancel>>
    BY DEF LookAtClock, GoOn, InputInvalid, timeVars
  <2> QED BY <2>1, <2>2 DEF IInv, AttemptsInv, Trying, Tried, DeadlineIsPast, Ending
<1>5. VerdictInv'
  <2>1. /\ at \in {"clock", "unformed_clock", "unprepared_clock"} /\ found = "some" /\ idFormed
        /\ UNCHANGED <<attempts, run, now, cancel, completed, found, idFormed>>
    BY DEF LookAtClock, GoOn, InputInvalid, timeVars, askVars, IInv, PathInv, AnswererSteps,
       Ending
  <2>2. /\ \/ attempts = <<>> /\ shared = None
           \/ Tried("timeout") /\ Len(attempts) < 3 /\ shared # None
        /\ attempts # <<>> => DeadlineIsPast
    BY <2>1 DEF IInv, AttemptsInv, Trying
  <2>3. CASE Exhausted /\ Reached(shared)
    <3>1. Tried("timeout") /\ DeadlineIsPast
      BY <2>2, <2>3 DEF Reached, Tried
    <3> QED BY <2>1, <2>3, <3>1, CodesAre, CalledVerdictFits DEF Exhausted, Statuses,
               AnswererSteps
  <2>4. CASE InputInvalid
    BY <2>1, <2>4, InputInvalidIs, SettledVerdictFits
  <2>5. CASE RuntimeUnavailable /\ attempts = <<>>
    BY <2>1, <2>5, CodesAre, CalledVerdictFits DEF RuntimeUnavailable, Statuses, AnswererSteps
  <2>6. CASE UNCHANGED verdict
    BY <2>1, <2>6 DEF IInv, PathInv, VerdictInv, Ending
  <2> QED BY <2>3, <2>4, <2>5, <2>6 DEF LookAtClock, GoOn
<1>6. ReportInv'
  BY DEF IInv, LookAtClock, ReportInv, PathInv, Reached, Exhausted, GoOn, Published, Cancelled,
     NoVerdict, Verdict, InputInvalid, Raise, RuntimeUnavailable
<1>7. ShownInv'
  BY DEF IInv, LookAtClock, ShownInv, Reached, Exhausted, GoOn, Cancelled, Verdict, InputInvalid,
     Raise, RuntimeUnavailable
<1> QED BY <1>1, <1>2, <1>3, <1>4, <1>5, <1>6, <1>7 DEF IInv

LEMMA FormStep == ASSUME IInv, Form, UNCHANGED askVars PROVE IInv'
<1>1. TypeOK'
  BY DEF IInv, Form, TypeOK, AnswererSteps, askVars, Verdicts, Codes, AfterProvider, Errors,
     timeVars
<1>2. TimeInv'
  BY DEF IInv, Form, TimeInv, askVars, timeVars
<1>3. PathInv'
  BY DEF IInv, Form, PathInv, AnswererSteps, askVars, timeVars, Ending
<1>4. AttemptsInv'
  BY DEF IInv, Form, AttemptsInv, PathInv, TimeInv, AnswererSteps, askVars, timeVars, Trying,
     Tried, DeadlineIsPast, Ending
<1>5. VerdictInv'
  BY DEF IInv, Form, VerdictInv, PathInv, AttemptsInv, TimeInv, WithoutCall, WithCall,
     DeadlineIsPast, Ending, Trying, Tried
<1>6. ReportInv'
  BY DEF IInv, Form, ReportInv, PathInv, Published
<1>7. ShownInv'
  BY DEF IInv, Form, ShownInv
<1> QED BY <1>1, <1>2, <1>3, <1>4, <1>5, <1>6, <1>7 DEF IInv

LEMMA GateStep == ASSUME IInv, Gate, UNCHANGED askVars PROVE IInv'
<1>1. TypeOK'
  <2>1. verdict' \in Verdicts
    BY VerdictKinds DEF Gate, IInv, TypeOK
  <2> QED
    BY <2>1 DEF Gate, IInv, TypeOK, timeVars, askVars, AnswererSteps, Interrupted, Exhausted,
       RuntimeUnavailable, InputInvalid, Verdict
<1>2. TimeInv'
  BY DEF IInv, Gate, TimeInv, askVars, Reached, timeVars
<1>3. PathInv'
  BY DEF IInv, Gate, PathInv, AnswererSteps, askVars, Cancelled, Reached, Interrupted, Exhausted,
     timeVars, Ending, NoVerdict, Verdict
<1>4. AttemptsInv'
  BY DEF IInv, Gate, AttemptsInv, PathInv, TimeInv, AnswererSteps, askVars, Cancelled, Reached,
     Interrupted, Exhausted, timeVars, Trying, Tried, DeadlineIsPast, Ending, NoVerdict, Verdict
<1>5. VerdictInv'
  <2>1. /\ at = "gate" /\ UNCHANGED <<attempts, run, now, cancel, completed>>
    BY DEF Gate, timeVars
  <2>2. /\ \/ attempts = <<>> /\ shared = None
           \/ Tried("timeout") /\ Len(attempts) < 3 /\ shared # None
        /\ attempts # <<>> => DeadlineIsPast
    BY <2>1 DEF IInv, AttemptsInv, Trying
  <2>3. CASE Interrupted /\ Cancelled
    BY <2>1, <2>2, <2>3, CodesAre, CalledVerdictFits DEF Interrupted, Statuses, AnswererSteps
  <2>4. CASE Exhausted /\ Reached(shared)
    <3>1. Tried("timeout") /\ DeadlineIsPast
      BY <2>2, <2>4 DEF Reached, Tried
    <3> QED BY <2>1, <2>4, <3>1, CodesAre, CalledVerdictFits DEF Exhausted, Statuses,
               AnswererSteps
  <2>5. CASE UNCHANGED verdict
    BY <2>1, <2>5 DEF IInv, PathInv, VerdictInv, Ending
  <2> QED BY <2>3, <2>4, <2>5 DEF Gate
<1>6. ReportInv'
  BY DEF IInv, Gate, ReportInv, PathInv, Cancelled, Reached, Interrupted, Exhausted, Published,
     NoVerdict, Verdict
<1>7. ShownInv'
  BY DEF IInv, Gate, ShownInv, Cancelled, Reached, Interrupted, Exhausted, Verdict
<1> QED BY <1>1, <1>2, <1>3, <1>4, <1>5, <1>6, <1>7 DEF IInv

LEMMA LaunchStep == ASSUME IInv, Launch, UNCHANGED askVars PROVE IInv'
<1>1. TypeOK'
  <2>1. run' \in Runs
    BY LaunchIs DEF Launch, IInv
  <2>2. at' \in {"running", "raised"}
    BY DEF Launch, Raise
  <2>3. UNCHANGED <<timeVars, attempts, shared, due, completed, fault, verdict>>
    BY DEF Launch
  <2> QED BY <2>1, <2>2, <2>3 DEF IInv, TypeOK, timeVars, askVars, AnswererSteps
<1>2. TimeInv'
  <2>1. run'.ready <= now
    BY LaunchIs DEF IInv, TimeInv
  <2> QED BY <2>1 DEF Launch, IInv, TimeInv, timeVars
<1>3. PathInv'
  BY DEF IInv, Launch, PathInv, AnswererSteps, askVars, NoRun, Earlier, Reached, Raise, timeVars,
     Ending
<1>4. AttemptsInv'
  <2>1. at = "launch" /\ at' \in {"running", "raised"}
    BY DEF Launch, Raise
  <2>2. UNCHANGED <<attempts, shared, fault>>
    BY DEF Launch
  <2>3. at' = "running" /\ run'.deadline # None => run'.shared # None
    BY LaunchIs DEF Launch
  <2> QED BY <2>1, <2>2, <2>3 DEF IInv, AttemptsInv, Trying, Tried, Ending
<1>5. VerdictInv'
  BY DEF IInv, Launch, VerdictInv, PathInv, AttemptsInv, TimeInv, NoRun, Earlier, Reached,
     WithoutCall, WithCall, DeadlineIsPast, Ending, Trying, Tried
<1>6. ReportInv'
  BY DEF IInv, Launch, ReportInv, PathInv, NoRun, Earlier, Reached, Raise, Published
<1>7. ShownInv'
  BY DEF IInv, Launch, ShownInv, NoRun, Earlier, Reached, Raise
<1> QED BY <1>1, <1>2, <1>3, <1>4, <1>5, <1>6, <1>7 DEF IInv

LEMMA CaptureStep == ASSUME IInv, Capture, UNCHANGED askVars PROVE IInv'
<1>1. TypeOK'
  <2>1. run' \in Runs
    BY CaptureIs
  <2>2. at' \in {"captured", "raised"}
    BY DEF Capture, Raise
  <2>3. UNCHANGED <<timeVars, attempts, shared, due, completed, fault, verdict>>
    BY DEF Capture
  <2> QED BY <2>1, <2>2, <2>3 DEF IInv, TypeOK, timeVars, askVars, AnswererSteps
<1>2. TimeInv'
  <2>1. run'.ready <= now /\ UNCHANGED <<now, cancel, completed>>
    BY CaptureIs DEF Capture, timeVars
  <2> QED BY <2>1 DEF IInv, TimeInv
<1>3. PathInv'
  BY DEF IInv, Capture, PathInv, AnswererSteps, askVars, Raise, timeVars, Ending
<1>4. AttemptsInv'
  <2>1. at = "running" /\ at' \in {"captured", "raised"}
    BY DEF Capture, Raise
  <2>2. UNCHANGED <<attempts, shared, fault>>
    BY DEF Capture
  <2>3. run'.deadline = run.deadline /\ run'.shared = run.shared
    BY CaptureIs
  <2> QED BY <2>1, <2>2, <2>3 DEF IInv, AttemptsInv, Trying, Tried, Ending
<1>5. VerdictInv'
  BY DEF IInv, Capture, VerdictInv, PathInv, AttemptsInv, TimeInv, WithoutCall, WithCall,
     DeadlineIsPast, Ending, Trying, Tried
<1>6. ReportInv'
  BY DEF IInv, Capture, ReportInv, PathInv, Raise, Published
<1>7. ShownInv'
  BY DEF IInv, Capture, ShownInv, Raise
<1> QED BY <1>1, <1>2, <1>3, <1>4, <1>5, <1>6, <1>7 DEF IInv

LEMMA SettleStep == ASSUME IInv, Settle, UNCHANGED askVars PROVE IInv'
<1>1. TypeOK'
  <2>1. run' \in Runs
    BY SettleIs DEF Settle, IInv
  <2> QED BY <2>1 DEF Settle, Raise, IInv, TypeOK, timeVars, askVars, AnswererSteps
<1>2. TimeInv'
  <2>1. run'.ready <= now /\ UNCHANGED <<now, cancel, completed>>
    BY SettleIs DEF Settle, timeVars, IInv, TimeInv
  <2> QED BY <2>1 DEF IInv, TimeInv
<1>3. PathInv'
  BY DEF IInv, Settle, PathInv, AnswererSteps, askVars, Raise, timeVars, Ending
<1>4. AttemptsInv'
  <2>1. at = "captured" /\ at' \in {"classify", "raised"}
    BY DEF Settle, Raise
  <2>2. UNCHANGED <<attempts, shared, fault, cancel>>
    BY DEF Settle, timeVars
  <2>3. at' = "classify" =>
          /\ run'.deadline = run.deadline /\ run'.shared = run.shared
          /\ run'.outcome # "none"
          /\ run'.outcome = "timeout" => run'.deadline # None /\ run'.deadline <= run'.ready
          /\ run'.outcome = "interrupted" => Cancelled
    BY SettleIs DEF Settle
  <2> QED BY <2>1, <2>2, <2>3 DEF IInv, AttemptsInv, Trying, Tried, Ending, Cancelled
<1>5. VerdictInv'
  BY DEF IInv, Settle, VerdictInv, PathInv, AttemptsInv, TimeInv, WithoutCall, WithCall,
     DeadlineIsPast, Ending, Trying, Tried
<1>6. ReportInv'
  BY DEF IInv, Settle, ReportInv, PathInv, Raise, Published
<1>7. ShownInv'
  BY DEF IInv, Settle, ShownInv, Raise
<1> QED BY <1>1, <1>2, <1>3, <1>4, <1>5, <1>6, <1>7 DEF IInv

LEMMA ClassifyStep == ASSUME IInv, Classify, UNCHANGED askVars PROVE IInv'
<1>1. TypeOK'
  <2>1. attempts' \in Seq(Attempts) /\ Len(attempts') <= 3 /\ at' \in {"publish", "poll", "finish"}
    BY ClassifyIs DEF Interrupted, Exhausted, Verdict
  <2>2. run' \in Runs /\ shared' \in Moments
    <3>1. run \in Runs
      BY DEF IInv, TypeOK
    <3>2. shared' = run.shared /\ run' = [NoRun EXCEPT !.deadline = run.deadline]
      BY ClassifyIs
    <3> QED BY <3>1, <3>2 DEF NoRun, Runs, Moments
  <2>3. verdict' \in Verdicts
    <3> QED BY ClassifyIs, ClassifyVerdictIs DEF IInv, TypeOK
  <2>4. due' \in Nat
    <3>1. due \in Nat /\ now \in Nat /\ \A ordinal : now + Backoff(ordinal) \in Nat
      BY TimesAssumption DEF IInv, TypeOK, Backoff
    <3> QED BY <3>1, ClassifyIs
  <2> QED BY <2>1, <2>2, <2>3, <2>4 DEF Classify, timeVars, askVars, IInv, TypeOK, AnswererSteps
<1>2. TimeInv'
  <2>1. UNCHANGED <<now, cancel, completed>> /\ run'.ready = 0
    BY ClassifyIs DEF NoRun
  <2> QED BY <2>1 DEF IInv, TypeOK, TimeInv
<1>3. PathInv'
  <2>1. at = "classify" /\ UNCHANGED <<idFormed, orphans, found>>
    BY DEF Classify, askVars
  <2>2. \/ at' \in {"poll", "finish"} /\ UNCHANGED verdict
        \/ at' = "publish" /\ verdict' # NoVerdict
    <3>1. run \in Runs
      BY DEF IInv, TypeOK
    <3>2. /\ \/ at' \in {"poll", "finish"} /\ UNCHANGED verdict
             \/ at' = "publish" /\ Exhausted
             \/ at' = "publish" /\ Interrupted
             \/ /\ at' = "publish"
                /\ verdict' = [status |-> "failed", code |-> "codex_process_failed",
                               pair |-> TRUE, overflow |-> run.cut \/ run.events = "capped"]
      BY ClassifyIs DEF Exhausted, Interrupted, Verdict
    <3> QED BY <3>1, <3>2, ClassifyVerdictIs
  <2> QED BY <2>1, <2>2 DEF IInv, PathInv, Ending, AnswererSteps
<1>4. AttemptsInv'
  <2>1. PICK class \in {"timeout", "process_error", "interrupted", "none"} :
          /\ attempts' \in Seq(Attempts) /\ attempts' # <<>>
          /\ Len(attempts') \in 1..3 /\ attempts'[Len(attempts')].class = class
          /\ \A i \in 1..Len(attempts') : attempts'[i].sound
          /\ \A i \in 1..(Len(attempts') - 1) : attempts'[i].class = "timeout"
          /\ run'.deadline = run.deadline
          /\ class = "timeout" =>
               /\ shared' # None
               /\ run.deadline \in Nat /\ run.deadline <= now
               /\ cancel # None => run.deadline <= cancel
          /\ \/ at' = "publish"
             \/ class = "timeout" /\ Len(attempts') < 3 /\ at' = "poll"
             \/ class = "none" /\ at' = "finish"
          /\ UNCHANGED <<now, cancel>>
    BY ClassifyIs DEF Interrupted, Exhausted, Verdict, NoRun
  <2> QED BY <2>1 DEF AttemptsInv, Tried, DeadlineIsPast, Trying, Ending
<1>5. VerdictInv'
  <2>1. idFormed' /\ found' = "some" /\ verdict = NoVerdict
    BY DEF Classify, askVars, IInv, PathInv, AnswererSteps, Ending
  <2>2. PICK class \in {"timeout", "process_error", "interrupted", "none"} :
          /\ Len(attempts') \in 1..3 /\ attempts'[Len(attempts')].class = class
          /\ class = "interrupted" => Cancelled
          /\ class = "timeout" => DeadlineIsPast'
          /\ \/ class = "timeout" /\ Exhausted
             \/ class = "interrupted" /\ Interrupted
             \/ /\ class = "process_error"
                /\ verdict' = [status |-> "failed", code |-> "codex_process_failed",
                               pair |-> TRUE, overflow |-> run.cut \/ run.events = "capped"]
             \/ UNCHANGED verdict
          /\ UNCHANGED cancel
    BY ClassifyIs DEF NoRun, DeadlineIsPast
  <2>3. CASE UNCHANGED verdict
    BY <2>1, <2>3 DEF VerdictInv
  <2>4. CASE class = "timeout" /\ Exhausted
    <3>1. /\ verdict'.status = "blocked" /\ verdict'.code = "codex_timeout_exhausted"
          /\ verdict'.pair /\ ~verdict'.overflow
      BY <2>4, VerdictIs, CodesAre DEF Exhausted, Statuses
    <3> QED BY <2>1, <2>2, <2>4, <3>1 DEF VerdictInv, WithCall, Tried
  <2>5. CASE class = "interrupted" /\ Interrupted
    <3>1. /\ verdict'.status = "interrupted" /\ verdict'.code = "none"
          /\ verdict'.pair /\ ~verdict'.overflow
      BY <2>5, VerdictIs, CodesAre DEF Interrupted, Statuses
    <3> QED BY <2>1, <2>2, <2>5, <3>1 DEF VerdictInv, WithCall, Tried, Cancelled
  <2>6. CASE /\ class = "process_error"
             /\ verdict' = [status |-> "failed", code |-> "codex_process_failed",
                            pair |-> TRUE, overflow |-> run.cut \/ run.events = "capped"]
    <3>1. /\ verdict'.status = "failed" /\ verdict'.code = "codex_process_failed" /\ verdict'.pair
      BY <2>6
    <3> QED BY <2>1, <2>2, <2>6, <3>1 DEF VerdictInv, WithCall, Tried
  <2> QED BY <2>2, <2>3, <2>4, <2>5, <2>6
<1>6. ReportInv'
  <2>1. at' \in {"publish", "poll", "finish"}
    BY ClassifyIs DEF Interrupted, Exhausted, Verdict
  <2> QED BY <2>1 DEF ReportInv
<1>7. ShownInv'
  <2>1. at' \in {"publish", "poll", "finish"}
    BY ClassifyIs DEF Interrupted, Exhausted, Verdict
  <2> QED BY <2>1 DEF ShownInv
<1> QED BY <1>1, <1>2, <1>3, <1>4, <1>5, <1>6, <1>7 DEF IInv

LEMMA PollStep == ASSUME IInv, Poll, UNCHANGED askVars PROVE IInv'
<1>1. TypeOK'
  <2>1. verdict' \in Verdicts
    BY VerdictKinds DEF Poll, IInv, TypeOK
  <2> QED
    BY <2>1 DEF Poll, IInv, TypeOK, timeVars, askVars, AnswererSteps, Interrupted, Exhausted,
       RuntimeUnavailable, InputInvalid, Verdict
<1>2. TimeInv'
  BY DEF IInv, Poll, TimeInv, askVars, timeVars
<1>3. PathInv'
  BY DEF IInv, Poll, PathInv, AnswererSteps, askVars, Cancelled, Interrupted, timeVars, Ending,
     NoVerdict, Verdict
<1>4. AttemptsInv'
  BY DEF IInv, Poll, AttemptsInv, PathInv, TimeInv, AnswererSteps, askVars, Cancelled,
     Interrupted, timeVars, Trying, Tried, DeadlineIsPast, Ending, NoVerdict, Verdict
<1>5. VerdictInv'
  BY DEF IInv, Poll, VerdictInv, TypeOK, PathInv, AttemptsInv, TimeInv, askVars, Cancelled,
     Interrupted, timeVars, NoVerdict, WithoutCall, WithCall, DeadlineIsPast, Ending, Trying,
     Tried,
     Verdict
<1>6. ReportInv'
  BY DEF IInv, Poll, ReportInv, PathInv, Cancelled, Interrupted, Published, NoVerdict, Verdict
<1>7. ShownInv'
  BY DEF IInv, Poll, ShownInv, Cancelled, Interrupted, Verdict
<1> QED BY <1>1, <1>2, <1>3, <1>4, <1>5, <1>6, <1>7 DEF IInv

LEMMA PollClockStep == ASSUME IInv, PollClock, UNCHANGED askVars PROVE IInv'
<1>1. TypeOK'
  <2>1. verdict' \in Verdicts
    BY VerdictKinds DEF PollClock, IInv, TypeOK
  <2> QED
    BY <2>1 DEF PollClock, IInv, TypeOK, timeVars, askVars, AnswererSteps, Interrupted, Exhausted,
       RuntimeUnavailable, InputInvalid, Verdict
<1>2. TimeInv'
  BY DEF IInv, PollClock, TimeInv, askVars, Reached, timeVars
<1>3. PathInv'
  BY DEF IInv, PollClock, PathInv, AnswererSteps, askVars, Reached, Exhausted, timeVars, Ending,
     NoVerdict, Verdict
<1>4. AttemptsInv'
  BY DEF IInv, PollClock, AttemptsInv, PathInv, TimeInv, AnswererSteps, askVars, Reached,
     Exhausted, timeVars, Trying, Tried, DeadlineIsPast, Cancelled, Ending, NoVerdict, Verdict
<1>5. VerdictInv'
  BY DEF IInv, PollClock, VerdictInv, TypeOK, PathInv, AttemptsInv, TimeInv, askVars, Reached,
     Exhausted, timeVars, NoVerdict, WithoutCall, WithCall, Cancelled, DeadlineIsPast, Ending,
     Trying, Tried, Verdict
<1>6. ReportInv'
  BY DEF IInv, PollClock, ReportInv, PathInv, Reached, Exhausted, Published, Cancelled, NoVerdict,
     Verdict
<1>7. ShownInv'
  BY DEF IInv, PollClock, ShownInv, Reached, Exhausted, Cancelled, Verdict
<1> QED BY <1>1, <1>2, <1>3, <1>4, <1>5, <1>6, <1>7 DEF IInv

LEMMA FinishStep == ASSUME IInv, Finish, UNCHANGED askVars PROVE IInv'
<1>1. TypeOK'
  <2>1. verdict' \in Verdicts
    BY VerdictKinds DEF Finish, IInv, TypeOK
  <2> QED
    BY <2>1 DEF Finish, IInv, TypeOK, timeVars, askVars, AnswererSteps, Interrupted, Exhausted,
       RuntimeUnavailable, InputInvalid, Verdict
<1>2. TimeInv'
  BY DEF IInv, Finish, TimeInv, askVars, timeVars
<1>3. PathInv'
  BY DEF IInv, Finish, PathInv, AnswererSteps, askVars, Cancelled, Interrupted, timeVars, Ending,
     NoVerdict, Verdict
<1>4. AttemptsInv'
  <2>1. at = "finish" /\ at' \in {"publish", "validate"} /\ Tried("none")
    BY DEF Finish, Interrupted, Verdict, IInv, AttemptsInv
  <2>2. UNCHANGED <<attempts, run, shared, fault, now, cancel>>
    BY DEF Finish, timeVars
  <2> QED BY <2>1, <2>2 DEF IInv, AttemptsInv, Trying, Tried, DeadlineIsPast, Ending
<1>5. VerdictInv'
  BY DEF IInv, Finish, VerdictInv, TypeOK, PathInv, AttemptsInv, TimeInv, askVars, Cancelled,
     Interrupted, timeVars, NoVerdict, WithoutCall, WithCall, DeadlineIsPast, Ending, Trying,
     Tried,
     Verdict
<1>6. ReportInv'
  BY DEF IInv, Finish, ReportInv, PathInv, Cancelled, Interrupted, Published, NoVerdict, Verdict
<1>7. ShownInv'
  BY DEF IInv, Finish, ShownInv, Cancelled, Interrupted, Verdict
<1> QED BY <1>1, <1>2, <1>3, <1>4, <1>5, <1>6, <1>7 DEF IInv

LEMMA WorkStep == ASSUME IInv, Work, UNCHANGED askVars PROVE IInv'
<1>1. TypeOK'
  BY DEF IInv, Work, TypeOK, AnswererSteps, askVars, Verdicts, Codes, AfterProvider, Errors,
     Faults, Judging, timeVars
<1>2. TimeInv'
  BY DEF IInv, Work, TimeInv, TypeOK, askVars, Faults, Judging, timeVars
<1>3. PathInv'
  BY DEF IInv, Work, PathInv, AnswererSteps, askVars, Faults, Judging, timeVars, Ending
<1>4. AttemptsInv'
  <2>1. at \in {"validate", "render"} /\ at' \in {"validated", "rendered"} /\ Tried("none")
    BY DEF Work, Faults, Judging, IInv, AttemptsInv
  <2>2. UNCHANGED <<attempts, run, shared, now, cancel>>
    BY DEF Work, timeVars
  <2> QED BY <2>1, <2>2 DEF IInv, AttemptsInv, Trying, Tried, DeadlineIsPast
<1>5. VerdictInv'
  BY DEF IInv, Work, VerdictInv, PathInv, AttemptsInv, TimeInv, Faults, Judging, WithoutCall,
     WithCall, DeadlineIsPast, Ending, Trying, Tried
<1>6. ReportInv'
  BY DEF IInv, Work, ReportInv, PathInv, Faults, Judging, Published
<1>7. ShownInv'
  BY DEF IInv, Work, ShownInv, Faults, Judging
<1> QED BY <1>1, <1>2, <1>3, <1>4, <1>5, <1>6, <1>7 DEF IInv

LEMMA JudgeStep == ASSUME IInv, Judge, UNCHANGED askVars PROVE IInv'
<1>1. TypeOK'
  <2>1. verdict' \in Verdicts
    <3>1. fault # "none" => fault \in AfterProvider
      BY DEF IInv, TypeOK
    <3> QED BY <3>1, VerdictKinds DEF Judge, IInv, TypeOK
  <2> QED
    BY <2>1 DEF Judge, IInv, TypeOK, timeVars, askVars, AnswererSteps, Interrupted, Verdict
<1>2. TimeInv'
  BY DEF IInv, Judge, TimeInv, askVars, timeVars
<1>3. PathInv'
  BY DEF IInv, Judge, PathInv, AnswererSteps, askVars, Cancelled, Interrupted, Verdict, timeVars,
     Ending, NoVerdict
<1>4. AttemptsInv'
  BY DEF IInv, Judge, AttemptsInv, PathInv, TimeInv, AnswererSteps, Cancelled, Interrupted,
     Verdict, Trying, Tried, DeadlineIsPast, Ending, NoVerdict
<1>5. VerdictInv'
  <2>1. /\ at \in {"validated", "rendered"} /\ Tried("none")
        /\ UNCHANGED <<attempts, run, now, cancel, completed>>
    BY DEF Judge, timeVars, IInv, AttemptsInv
  <2>2. CASE Interrupted /\ Cancelled
    BY <2>1, <2>2, CodesAre, CalledVerdictFits DEF Interrupted, Statuses, AnswererSteps
  <2>3. CASE fault # "none" /\ Verdict("failed", fault)
    <3>1. fault \in AfterProvider /\ AfterProvider \subseteq Codes
      BY <2>3, CodesAre DEF IInv, TypeOK, AfterProvider
    <3> QED BY <2>1, <2>3, <3>1, CalledVerdictFits DEF Statuses, AnswererSteps
  <2>4. CASE Verdict("succeeded", "none") /\ ~(Cancelled /\ cancel <= completed)
    <3>1. Cancelled => cancel >= completed
      BY <2>4 DEF IInv, TypeOK, Moments
    <3> QED BY <2>1, <2>4, <3>1, CodesAre, CalledVerdictFits DEF Statuses, AnswererSteps
  <2>5. CASE UNCHANGED verdict
    BY <2>1, <2>5 DEF IInv, PathInv, VerdictInv, Ending
  <2> QED BY <2>2, <2>3, <2>4, <2>5 DEF Judge
<1>6. ReportInv'
  BY DEF IInv, Judge, ReportInv, PathInv, Cancelled, Interrupted, Verdict, Published, NoVerdict
<1>7. ShownInv'
  BY DEF IInv, Judge, ShownInv, Cancelled, Interrupted, Verdict
<1> QED BY <1>1, <1>2, <1>3, <1>4, <1>5, <1>6, <1>7 DEF IInv

LEMMA BarrierStep == ASSUME IInv, Barrier PROVE IInv'
<1>1. TypeOK'
  <2>1. verdict' \in Verdicts
    BY DEF Barrier, answering, IInv, TypeOK
  <2>2. report' \in Reports
    BY WithoutIs DEF Barrier, SayInterrupted, Say, IInv, TypeOK, Statuses
  <2> QED
    BY <2>1, <2>2 DEF Barrier, IInv, TypeOK, answering, timeVars, SayInterrupted, Say,
       AnswererSteps
<1>2. TimeInv'
  BY DEF IInv, Barrier, TimeInv, SayInterrupted, answering, Say, Without, timeVars
<1>3. PathInv'
  BY DEF IInv, Barrier, PathInv, AnswererSteps, SayInterrupted, answering, Ending, Say, Without
<1>4. AttemptsInv'
  BY DEF IInv, Barrier, AttemptsInv, PathInv, TimeInv, AnswererSteps, SayInterrupted, answering,
     Trying, Tried, DeadlineIsPast, Ending, Say, Without
<1>5. VerdictInv'
  BY DEF IInv, Barrier, VerdictInv, PathInv, AttemptsInv, TimeInv, SayInterrupted, answering,
     WithoutCall, WithCall, DeadlineIsPast, Trying, Tried, Say, Without
<1>6. ReportInv'
  BY DEF IInv, Barrier, ReportInv, PathInv, Cancelled, SayInterrupted, answering, Published,
     NoVerdict, Say, Without, timeVars
<1>7. ShownInv'
  BY DEF IInv, Barrier, ShownInv, SayInterrupted, answering, Say, Without
<1> QED BY <1>1, <1>2, <1>3, <1>4, <1>5, <1>6, <1>7 DEF IInv

LEMMA PrepareStep == ASSUME IInv, Prepare PROVE IInv'
<1>1. TypeOK'
  <2>1. verdict' \in Verdicts
    BY DEF Prepare, IInv, TypeOK
  <2>2. report' \in Reports
    BY RefusalsAre, WithoutIs DEF Prepare, Say, IInv, TypeOK, Statuses
  <2> QED
    BY <2>1, <2>2 DEF Prepare, IInv, TypeOK, answering, timeVars, Say, AnswererSteps, Scan,
       Refusals
<1>2. TimeInv'
  BY DEF IInv, Prepare, TimeInv, Say, Without, answering, timeVars
<1>3. PathInv'
  BY DEF IInv, Prepare, PathInv, AnswererSteps, Say, Without, answering, Ending
<1>4. AttemptsInv'
  BY DEF IInv, Prepare, AttemptsInv, PathInv, TimeInv, AnswererSteps, Say, Without, answering,
     Trying, Tried, DeadlineIsPast, Ending
<1>5. VerdictInv'
  BY DEF IInv, Prepare, VerdictInv, PathInv, AttemptsInv, TimeInv, Say, Without, answering,
     WithoutCall, WithCall, DeadlineIsPast, Trying, Tried
<1>6. ReportInv'
  <2> SUFFICES ASSUME at' = "report"
               PROVE  /\ ~report'.result /\ ~report'.overflow
                      /\ \/ report'.outcome = "blocked" /\ report'.reason = "refused"
                            /\ ~report'.orphans /\ ~idFormed'
                         \/ report'.outcome = "failed" /\ report'.reason = "refused"
    BY DEF ReportInv, Prepare, Say
  <2>1. /\ report' = Without(Refusals[stage], "refused") /\ ~orphans /\ ~idFormed
        /\ idFormed' = idFormed /\ Refusals[stage] \in {"blocked", "failed"}
    BY RefusalsAre DEF Prepare, Say, IInv, PathInv, TypeOK
  <2>2. PICK outcome \in {"blocked", "failed"} : outcome = Refusals[stage]
    BY <2>1
  <2>3. report' = Without(outcome, "refused") /\ orphans \in BOOLEAN /\ outcome \in Statuses
    BY <2>1, <2>2 DEF IInv, TypeOK, Statuses
  <2>4. /\ report'.outcome = outcome /\ report'.reason = "refused"
        /\ ~report'.result /\ ~report'.overflow /\ report'.orphans = orphans
    BY <2>3, WithoutIs
  <2> QED BY <2>1, <2>2, <2>4
<1>7. ShownInv'
  BY DEF IInv, Prepare, ShownInv, Say, Without, answering
<1> QED BY <1>1, <1>2, <1>3, <1>4, <1>5, <1>6, <1>7 DEF IInv

LEMMA CutOverStep == ASSUME IInv, CutOver PROVE IInv'
<1>1. TypeOK'
  <2>1. verdict' \in Verdicts
    BY DEF CutOver, IInv, TypeOK
  <2>2. report' \in Reports
    BY WithoutIs DEF CutOver, SayInterrupted, Say, IInv, TypeOK, Statuses
  <2>3. at' \in {"report", "entered"} /\ idFormed' \in BOOLEAN
    BY DEF CutOver, SayInterrupted, Say, IInv, TypeOK
  <2>4. UNCHANGED <<answering, stage, orphans, found, snap, shown, exitCode>>
    BY DEF CutOver
  <2> QED BY <2>1, <2>2, <2>3, <2>4 DEF IInv, TypeOK, answering, timeVars, AnswererSteps
<1>2. TimeInv'
  BY DEF IInv, CutOver, TimeInv, SayInterrupted, answering, Say, Without, timeVars
<1>3. PathInv'
  BY DEF IInv, CutOver, PathInv, AnswererSteps, SayInterrupted, answering, Ending, Say, Without
<1>4. AttemptsInv'
  BY DEF IInv, CutOver, AttemptsInv, PathInv, TimeInv, AnswererSteps, SayInterrupted, answering,
     Trying, Tried, DeadlineIsPast, Ending, Say, Without
<1>5. VerdictInv'
  BY DEF IInv, CutOver, VerdictInv, PathInv, AttemptsInv, TimeInv, SayInterrupted, answering,
     WithoutCall, WithCall, DeadlineIsPast, Trying, Tried, Say, Without
<1>6. ReportInv'
  BY DEF IInv, CutOver, ReportInv, PathInv, Cancelled, SayInterrupted, answering, Published,
     NoVerdict, Say, Without, timeVars
<1>7. ShownInv'
  BY DEF IInv, CutOver, ShownInv, SayInterrupted, answering, Say, Without
<1> QED BY <1>1, <1>2, <1>3, <1>4, <1>5, <1>6, <1>7 DEF IInv

LEMMA EnterStep == ASSUME IInv, Enter PROVE IInv'
<1>1. TypeOK'
  <2>1. verdict' \in Verdicts
    BY SettledIs, CodesAre DEF Enter, IInv, TypeOK, Statuses
  <2>2. report' \in Reports
    BY DEF Enter, askVars, IInv, TypeOK
  <2> QED
    BY <2>1, <2>2 DEF Enter, IInv, TypeOK, answering, timeVars, askVars, Settled, AnswererSteps
<1>2. TimeInv'
  BY DEF IInv, Enter, TimeInv, Settled, answering, askVars, timeVars
<1>3. PathInv'
  <2>1. at = "entered" /\ UNCHANGED askVars
    BY DEF Enter
  <2>2. \/ at' = "retrieve" /\ UNCHANGED verdict
        \/ at' = "publish" /\ verdict' # NoVerdict
    BY SettledIs, CodesAre DEF Enter, Statuses
  <2> QED BY <2>1, <2>2 DEF IInv, PathInv, askVars, Ending, AnswererSteps
<1>4. AttemptsInv'
  BY DEF IInv, Enter, AttemptsInv, PathInv, TimeInv, AnswererSteps, Settled, answering, Trying,
     Tried, DeadlineIsPast, Ending
<1>5. VerdictInv'
  <2>1. /\ at = "entered" /\ idFormed /\ found = "nothing" /\ attempts = <<>>
        /\ UNCHANGED <<idFormed, cancel, completed, found, attempts>>
    BY DEF Enter, askVars, answering, timeVars, IInv, PathInv, AttemptsInv, Ending, Trying
  <2>2. CASE UNCHANGED verdict
    BY <2>1, <2>2 DEF IInv, PathInv, VerdictInv, Ending
  <2>3. CASE Cancelled /\ Settled("interrupted", "none")
    <3>1. /\ verdict'.status = "interrupted" /\ verdict'.code = "none"
          /\ ~verdict'.pair /\ ~verdict'.overflow
      BY <2>3, SettledIs, CodesAre DEF Statuses
    <3> QED BY <2>1, <2>3, <3>1, SettledVerdictFits DEF Errors
  <2> QED BY <2>2, <2>3 DEF Enter
<1>6. ReportInv'
  BY DEF IInv, Enter, ReportInv, PathInv, Settled, answering, Published
<1>7. ShownInv'
  BY DEF IInv, Enter, ShownInv, Settled, answering
<1> QED BY <1>1, <1>2, <1>3, <1>4, <1>5, <1>6, <1>7 DEF IInv

LEMMA RetrieveStep == ASSUME IInv, Retrieve PROVE IInv'
<1>1. TypeOK'
  <2>1. verdict' \in Verdicts
    BY SettledIs, StatusOfRetrievalError DEF Retrieve, IInv, TypeOK, Statuses
  <2>2. report' \in Reports
    BY WithoutIs DEF Retrieve, Say, IInv, TypeOK, Statuses
  <2>3. at' \in {"report", "publish", "retrieved"} /\ found' \in Errors \union {"nothing", "zero", "some", "too_large"}
    BY DEF Retrieve, Say, Settled, IInv, TypeOK
  <2>4. UNCHANGED <<answering, stage, idFormed, orphans, snap, shown, exitCode>>
    BY DEF Retrieve
  <2> QED BY <2>1, <2>2, <2>3, <2>4 DEF IInv, TypeOK, answering, timeVars, AnswererSteps
<1>2. TimeInv'
  BY DEF IInv, Retrieve, TimeInv, Say, Without, Settled, answering, timeVars
<1>3. PathInv'
  <2>1. at = "retrieve" /\ idFormed /\ UNCHANGED idFormed /\ verdict = NoVerdict
    BY DEF Retrieve, IInv, PathInv, Ending
  <2>2. \/ at' = "report"
        \/ at' = "publish" /\ verdict' # NoVerdict
        \/ at' = "retrieved" /\ found' \in {"zero", "some", "too_large"} /\ UNCHANGED verdict
    BY SettledIs, StatusOfRetrievalError DEF Retrieve, Say, Statuses
  <2> QED BY <2>1, <2>2 DEF PathInv, Ending, AnswererSteps
<1>4. AttemptsInv'
  BY DEF IInv, Retrieve, AttemptsInv, PathInv, TimeInv, AnswererSteps, Say, Without, Settled,
     answering, Trying, Tried, DeadlineIsPast, Ending
<1>5. VerdictInv'
  <2>1. /\ at = "retrieve" /\ idFormed /\ attempts = <<>> /\ verdict = NoVerdict
        /\ UNCHANGED <<idFormed, cancel, completed, attempts>>
    BY DEF Retrieve, answering, timeVars, IInv, PathInv, AttemptsInv, Ending, Trying
  <2>2. CASE UNCHANGED verdict
    BY <2>1, <2>2 DEF VerdictInv
  <2>3. ASSUME NEW error \in Errors, Settled(StatusOfError[error], error), found' = error
        PROVE  VerdictInv'
    <3>1. /\ verdict'.status = StatusOfError[error] /\ verdict'.code = error
          /\ ~verdict'.pair /\ ~verdict'.overflow
      BY <2>3, SettledIs, StatusOfRetrievalError DEF Statuses
    <3> QED BY <2>1, <2>3, <3>1, SettledVerdictFits
  <2> QED BY <2>2, <2>3 DEF Retrieve
<1>6. ReportInv'
  <2>1. CASE at' = "report"
    <3>1. report' = Without("failed", "refused")
      BY <2>1 DEF Retrieve, Settled, Say
    <3> QED BY <3>1, WithoutIs DEF ReportInv, IInv, TypeOK, Statuses
  <2>2. CASE at' \in {"publish", "retrieved"}
    BY <2>2 DEF ReportInv
  <2> QED BY <2>1, <2>2 DEF Retrieve, Settled, Say
<1>7. ShownInv'
  BY DEF IInv, Retrieve, ShownInv, Say, Without, Settled, answering
<1> QED BY <1>1, <1>2, <1>3, <1>4, <1>5, <1>6, <1>7 DEF IInv

LEMMA RetrievedStep == ASSUME IInv, Retrieved PROVE IInv'
<1>1. TypeOK'
  <2>1. verdict' \in Verdicts
    BY SettledIs, CodesAre DEF Retrieved, IInv, TypeOK, Statuses, PathInv
  <2>2. report' \in Reports
    BY WithoutIs DEF Retrieved, Say, IInv, TypeOK, Statuses, PathInv
  <2>3. at' \in {"report", "publish", "render_zero", "call"}
    BY RetrievedIs DEF Say, Settled
  <2>4. UNCHANGED <<answering, stage, idFormed, orphans, found, snap, shown, exitCode>>
    BY DEF Retrieved
  <2> QED BY <2>1, <2>2, <2>3, <2>4 DEF IInv, TypeOK, answering, timeVars, AnswererSteps
<1>2. TimeInv'
  BY DEF IInv, Retrieved, TimeInv, Settled, Say, Without, answering, timeVars
<1>3. PathInv'
  <2>1. /\ at = "retrieved" /\ idFormed /\ verdict = NoVerdict
        /\ UNCHANGED <<idFormed, found>>
    BY DEF Retrieved, IInv, PathInv, Ending
  <2> QED BY <2>1, RetrievedIs, SettledIs, CodesAre DEF Say, PathInv, Ending, AnswererSteps,
             Statuses
<1>4. AttemptsInv'
  <2>1. /\ at = "retrieved" /\ attempts = <<>> /\ shared = None
        /\ UNCHANGED <<attempts, shared>>
    BY DEF Retrieved, answering, IInv, AttemptsInv, Ending, Trying
  <2>2. at' \in {"publish", "render_zero", "call", "report"}
    BY RetrievedIs DEF Say, Settled
  <2> QED BY <2>1, <2>2 DEF AttemptsInv, Trying
<1>5. VerdictInv'
  <2>1. /\ at = "retrieved" /\ idFormed /\ attempts = <<>> /\ verdict = NoVerdict
        /\ found \in {"zero", "some", "too_large"}
        /\ UNCHANGED <<idFormed, cancel, completed, attempts, found>>
    BY DEF Retrieved, answering, timeVars, IInv, PathInv, AttemptsInv, Ending, Trying
  <2>2. CASE UNCHANGED verdict
    BY <2>1, <2>2 DEF VerdictInv
  <2>3. CASE Cancelled /\ Settled("interrupted", "none")
    <3>1. /\ verdict'.status = "interrupted" /\ verdict'.code = "none"
          /\ ~verdict'.pair /\ ~verdict'.overflow
      BY <2>3, SettledIs, CodesAre DEF Statuses
    <3> QED BY <2>1, <2>3, <3>1, SettledVerdictFits DEF Errors
  <2>4. CASE found = "too_large" /\ Settled("blocked", "retrieval_view_too_large")
    <3>1. /\ verdict'.status = "blocked" /\ verdict'.code = "retrieval_view_too_large"
          /\ ~verdict'.pair /\ ~verdict'.overflow
      BY <2>4, SettledIs, CodesAre DEF Statuses
    <3> QED BY <2>1, <2>4, <3>1, SettledVerdictFits
  <2> QED BY <2>2, <2>3, <2>4, RetrievedIs
<1>6. ReportInv'
  <2>1. CASE at' = "report"
    <3>1. report' = Without("failed", "refused")
      BY <2>1, RetrievedIs DEF Settled, Say
    <3> QED BY <3>1, WithoutIs DEF ReportInv, IInv, TypeOK, Statuses
  <2>2. CASE at' \in {"publish", "render_zero", "call"}
    BY <2>2 DEF ReportInv
  <2> QED BY <2>1, <2>2, RetrievedIs DEF Settled, Say
<1>7. ShownInv'
  <2>1. at' \in {"publish", "render_zero", "call", "report"}
    BY RetrievedIs DEF Say, Settled
  <2> QED BY <2>1 DEF ShownInv
<1> QED BY <1>1, <1>2, <1>3, <1>4, <1>5, <1>6, <1>7 DEF IInv

LEMMA RenderZeroStep == ASSUME IInv, RenderZero PROVE IInv'
<1>1. TypeOK'
  BY DEF IInv, RenderZero, TypeOK, AnswererSteps, Verdicts, Codes, AfterProvider, Errors,
     timeVars, askVars
<1>2. TimeInv'
  BY DEF IInv, RenderZero, TimeInv, TypeOK, timeVars, askVars
<1>3. PathInv'
  BY DEF IInv, RenderZero, PathInv, AnswererSteps, timeVars, askVars, Ending
<1>4. AttemptsInv'
  BY DEF IInv, RenderZero, AttemptsInv, PathInv, TimeInv, AnswererSteps, Trying, Tried,
     DeadlineIsPast, Ending
<1>5. VerdictInv'
  BY DEF IInv, RenderZero, VerdictInv, PathInv, AttemptsInv, TimeInv, WithoutCall, WithCall,
     DeadlineIsPast, Ending, Trying, Tried
<1>6. ReportInv'
  BY DEF IInv, RenderZero, ReportInv, PathInv, Published
<1>7. ShownInv'
  BY DEF IInv, RenderZero, ShownInv
<1> QED BY <1>1, <1>2, <1>3, <1>4, <1>5, <1>6, <1>7 DEF IInv

LEMMA JudgeZeroStep == ASSUME IInv, JudgeZero PROVE IInv'
<1>1. TypeOK'
  <2>1. verdict' \in Verdicts
    BY SettledIs, CodesAre DEF JudgeZero, Statuses
  <2>2. report' \in Reports
    BY DEF JudgeZero, askVars, IInv, TypeOK
  <2> QED
    BY <2>1, <2>2 DEF JudgeZero, IInv, TypeOK, answering, timeVars, askVars, Settled,
       AnswererSteps
<1>2. TimeInv'
  BY DEF IInv, JudgeZero, TimeInv, Settled, answering, askVars, timeVars
<1>3. PathInv'
  BY DEF IInv, JudgeZero, PathInv, AnswererSteps, Settled, Cancelled, answering, askVars, Ending,
     NoVerdict, timeVars
<1>4. AttemptsInv'
  BY DEF IInv, JudgeZero, AttemptsInv, PathInv, TimeInv, AnswererSteps, Settled, answering,
     Trying, Tried, DeadlineIsPast, Ending
<1>5. VerdictInv'
  <2>1. /\ at = "rendered_zero" /\ idFormed /\ found = "zero" /\ attempts = <<>>
        /\ UNCHANGED <<idFormed, cancel, completed, found, attempts>>
    BY DEF JudgeZero, askVars, answering, timeVars, IInv, PathInv, AttemptsInv, Ending, Trying
  <2>2. CASE Cancelled /\ cancel <= completed
    <3>1. /\ verdict'.status = "interrupted" /\ verdict'.code = "none"
          /\ ~verdict'.pair /\ ~verdict'.overflow
      BY <2>2, SettledIs, CodesAre DEF JudgeZero, Statuses
    <3> QED BY <2>1, <2>2, <3>1, SettledVerdictFits DEF Errors
  <2>3. CASE ~(Cancelled /\ cancel <= completed)
    <3>1. /\ verdict'.status = "succeeded" /\ verdict'.code = "none"
          /\ ~verdict'.pair /\ ~verdict'.overflow
      BY <2>3, SettledIs, CodesAre DEF JudgeZero, Statuses
    <3>2. Cancelled => cancel >= completed
      BY <2>3 DEF IInv, TypeOK, Moments
    <3> QED BY <2>1, <3>1, <3>2, SettledVerdictFits
  <2> QED BY <2>2, <2>3
<1>6. ReportInv'
  BY DEF IInv, JudgeZero, ReportInv, PathInv, Settled, answering, Published
<1>7. ShownInv'
  BY DEF IInv, JudgeZero, ShownInv, Settled, answering
<1> QED BY <1>1, <1>2, <1>3, <1>4, <1>5, <1>6, <1>7 DEF IInv

LEMMA PublishStep == ASSUME IInv, Publish PROVE IInv'
<1>1. TypeOK'
  <2>1. verdict' \in Verdicts
    BY DEF Publish, IInv, TypeOK
  <2>2. report' \in Reports
    BY PublishedIs, WithoutIs DEF Publish, Say, IInv, TypeOK, Statuses
  <2> QED
    BY <2>1, <2>2 DEF Publish, IInv, TypeOK, answering, timeVars, Say, Raise, AnswererSteps
<1>2. TimeInv'
  BY DEF IInv, Publish, TimeInv, Say, Without, answering, timeVars
<1>3. PathInv'
  BY DEF IInv, Publish, PathInv, AnswererSteps, Say, Without, Raise, answering, Ending
<1>4. AttemptsInv'
  BY DEF IInv, Publish, AttemptsInv, PathInv, TimeInv, AnswererSteps, Say, Without, Raise,
     answering, Trying, Tried, DeadlineIsPast, Ending
<1>5. VerdictInv'
  BY DEF IInv, Publish, VerdictInv, PathInv, AttemptsInv, TimeInv, Say, Without, answering,
     NoVerdict, WithoutCall, WithCall, Cancelled, DeadlineIsPast, Trying, Tried, timeVars
<1>6. ReportInv'
  BY DEF IInv, Publish, ReportInv, PathInv, Say, Without, Raise, answering, Published
<1>7. ShownInv'
  BY DEF IInv, Publish, ShownInv, Say, Without, Raise, answering
<1> QED BY <1>1, <1>2, <1>3, <1>4, <1>5, <1>6, <1>7 DEF IInv

LEMMA SnapshotStep == ASSUME IInv, Snapshot PROVE IInv'
<1>1. TypeOK'
  BY DEF IInv, Snapshot, TypeOK, AnswererSteps, Verdicts, Codes, AfterProvider, Errors, Cancelled,
     answering, timeVars
<1>2. TimeInv'
  BY DEF IInv, Snapshot, TimeInv, answering, timeVars
<1>3. PathInv'
  BY DEF IInv, Snapshot, PathInv, AnswererSteps, answering, Ending
<1>4. AttemptsInv'
  BY DEF IInv, Snapshot, AttemptsInv, PathInv, TimeInv, AnswererSteps, answering, Trying, Tried,
     DeadlineIsPast, Ending
<1>5. VerdictInv'
  BY DEF IInv, Snapshot, VerdictInv, PathInv, AttemptsInv, TimeInv, Cancelled, answering,
     NoVerdict, WithoutCall, WithCall, DeadlineIsPast, Trying, Tried, timeVars
<1>6. ReportInv'
  BY DEF IInv, Snapshot, ReportInv, PathInv, Cancelled, answering, Published, NoVerdict, timeVars
<1>7. ShownInv'
  BY DEF IInv, Snapshot, ShownInv, Cancelled, answering, timeVars
<1> QED BY <1>1, <1>2, <1>3, <1>4, <1>5, <1>6, <1>7 DEF IInv

LEMMA PresentStep == ASSUME IInv, Present PROVE IInv'
<1>1. TypeOK'
  <2>1. \/ shown' = shown
        \/ \E json, lost \in BOOLEAN :
             shown' = [report |-> Adjusted(report, snap), json |-> json, lost |-> lost]
    BY DEF Present, IInv, TypeOK
  <2>2. Adjusted(report, snap) \in Reports
    BY AdjustedIs DEF IInv, TypeOK
  <2>3. shown' \in [report : Reports, json : BOOLEAN, lost : BOOLEAN]
    BY <2>1, <2>2 DEF IInv, TypeOK
  <2> QED BY <2>3 DEF Present, Raise, answering, timeVars, IInv, TypeOK, AnswererSteps
<1>2. TimeInv'
  BY DEF IInv, Present, TimeInv, NoShown, MayBeLost, answering, NoReport, timeVars
<1>3. PathInv'
  BY DEF IInv, Present, PathInv, AnswererSteps, NoShown, MayBeLost, Raise, answering, Ending,
     NoReport
<1>4. AttemptsInv'
  BY DEF IInv, Present, AttemptsInv, PathInv, TimeInv, AnswererSteps, NoShown, MayBeLost, Raise,
     answering, Trying, Tried, DeadlineIsPast, Ending, NoReport
<1>5. VerdictInv'
  BY DEF IInv, Present, VerdictInv, PathInv, AttemptsInv, TimeInv, NoShown, MayBeLost, answering,
     NoVerdict, WithoutCall, WithCall, Cancelled, DeadlineIsPast, Trying, Tried, NoReport,
     timeVars
<1>6. ReportInv'
  BY DEF IInv, Present, ReportInv, PathInv, NoShown, MayBeLost, answering, Published, Cancelled,
     NoVerdict, NoReport, timeVars
<1>7. ShownInv'
  BY DEF IInv, Present, ShownInv, NoShown, MayBeLost, Raise, answering, Cancelled, NoReport,
     timeVars
<1> QED BY <1>1, <1>2, <1>3, <1>4, <1>5, <1>6, <1>7 DEF IInv

LEMMA SealStep == ASSUME IInv, Seal PROVE IInv'
<1>1. TypeOK'
  BY DEF IInv, Seal, TypeOK, AnswererSteps, Verdicts, Codes, AfterProvider, Errors, answering,
     timeVars
<1>2. TimeInv'
  BY DEF IInv, Seal, TimeInv, answering, timeVars
<1>3. PathInv'
  BY DEF IInv, Seal, PathInv, AnswererSteps, answering, Ending
<1>4. AttemptsInv'
  BY DEF IInv, Seal, AttemptsInv, PathInv, TimeInv, AnswererSteps, answering, Trying, Tried,
     DeadlineIsPast, Ending
<1>5. VerdictInv'
  BY DEF IInv, Seal, VerdictInv, PathInv, AttemptsInv, TimeInv, Cancelled, answering, NoVerdict,
     WithoutCall, WithCall, DeadlineIsPast, Trying, Tried, timeVars
<1>6. ReportInv'
  BY DEF IInv, Seal, ReportInv, PathInv, Cancelled, answering, Published, NoVerdict, timeVars
<1>7. ShownInv'
  BY DEF IInv, Seal, ShownInv, Cancelled, answering, timeVars
<1> QED BY <1>1, <1>2, <1>3, <1>4, <1>5, <1>6, <1>7 DEF IInv

LEMMA ExitStep == ASSUME IInv, Exit PROVE IInv'
<1>1. TypeOK'
  <2>1. shown.report.outcome \in Statuses
    BY ShownHasOutcome DEF Exit
  <2>2. exitCode' \in {0, 1, 2, 130}
    BY <2>1 DEF Exit, ExitCodes, Statuses
  <2> QED BY <2>2 DEF Exit, answering, timeVars, IInv, TypeOK, AnswererSteps
<1>2. TimeInv'
  BY DEF IInv, Exit, TimeInv, answering, timeVars
<1>3. PathInv'
  BY DEF IInv, Exit, PathInv, AnswererSteps, answering, Ending
<1>4. AttemptsInv'
  BY DEF IInv, Exit, AttemptsInv, PathInv, TimeInv, AnswererSteps, answering, Trying, Tried,
     DeadlineIsPast, Ending
<1>5. VerdictInv'
  BY DEF IInv, Exit, VerdictInv, PathInv, AttemptsInv, TimeInv, answering, NoVerdict, WithoutCall,
     WithCall, Cancelled, DeadlineIsPast, Trying, Tried, timeVars
<1>6. ReportInv'
  BY DEF IInv, Exit, ReportInv, PathInv, answering, Published, Cancelled, NoVerdict, timeVars
<1>7. ShownInv'
  BY DEF IInv, Exit, ShownInv, answering, Cancelled, timeVars
<1> QED BY <1>1, <1>2, <1>3, <1>4, <1>5, <1>6, <1>7 DEF IInv

LEMMA CancelStep == ASSUME IInv, Cancel PROVE IInv'
<1>1. TypeOK'
  BY DEF IInv, Cancel, TypeOK, AnswererSteps, Moments, Verdicts, Codes, AfterProvider, Errors,
     askVars
<1>2. TimeInv'
  BY DEF IInv, Cancel, TimeInv, TypeOK
<1>3. PathInv'
  BY DEF IInv, Cancel, PathInv, AnswererSteps, askVars
<1>4. AttemptsInv'
  BY DEF IInv, Cancel, AttemptsInv, PathInv, TimeInv, AnswererSteps, Trying, Tried, DeadlineIsPast
<1>5. VerdictInv'
  BY DEF IInv, Cancel, VerdictInv, PathInv, AttemptsInv, TimeInv, askVars, WithoutCall, WithCall,
     DeadlineIsPast, Trying, Tried
<1>6. ReportInv'
  BY DEF IInv, Cancel, ReportInv, PathInv, askVars, Published
<1>7. ShownInv'
  BY DEF IInv, Cancel, ShownInv, askVars
<1> QED BY <1>1, <1>2, <1>3, <1>4, <1>5, <1>6, <1>7 DEF IInv

LEMMA TickStep == ASSUME IInv, Tick PROVE IInv'
<1>1. TypeOK'
  BY DEF IInv, Tick, TypeOK, AnswererSteps, Verdicts, Codes, AfterProvider, Errors, Horizon,
     askVars
<1>2. TimeInv'
  BY DEF IInv, Tick, TimeInv, TypeOK, Moments, Runs, Horizon
<1>3. PathInv'
  BY DEF IInv, Tick, PathInv, AnswererSteps, Horizon, askVars
<1>4. AttemptsInv'
  BY DEF IInv, Tick, AttemptsInv, TypeOK, PathInv, TimeInv, AnswererSteps, Horizon, Trying, Tried,
     DeadlineIsPast, Cancelled, NoVerdict
<1>5. VerdictInv'
  BY DEF IInv, Tick, VerdictInv, TypeOK, PathInv, AttemptsInv, TimeInv, Horizon, askVars,
     NoVerdict, WithoutCall, WithCall, Cancelled, DeadlineIsPast, Trying, Tried
<1>6. ReportInv'
  BY DEF IInv, Tick, ReportInv, PathInv, Horizon, askVars, Published, Cancelled, NoVerdict
<1>7. ShownInv'
  BY DEF IInv, Tick, ShownInv, Horizon, askVars, Cancelled
<1> QED BY <1>1, <1>2, <1>3, <1>4, <1>5, <1>6, <1>7 DEF IInv

(********************** what the publication accepts ***********************)

LEMMA PrefixLevelIs ==
  ASSUME NEW r
  PROVE  /\ r.view = "none" => PrefixLevel(r) = 2
         /\ r.view = "too_large" => PrefixLevel(r) = 3
         /\ r.view = "within_limit" => PrefixLevel(r) = 4
BY DEF PrefixLevel

\* A request without prompt and Schema: its error or status alone decides.
LEMMA InterruptedEarlyFits ==
  ASSUME NEW r, r.status = "interrupted", r.code = "none", ~r.pair, r.attempts = <<>>,
         \/ PrefixLevel(r) \in {2, 3} /\ r.candidates = None
         \/ PrefixLevel(r) = 4 /\ r.candidates \in {0, 1}
  PROVE  RootMatrixAccepts(r) /\ AttemptMatrixAccepts(r)
<1>1. AttemptMatrixAccepts(r)
  BY DEF AttemptMatrixAccepts, AfterProvider
<1>2. CASE PrefixLevel(r) \in {2, 3} /\ r.candidates = None
  <2>1. PrefixLevel(r) \in 0..3
    BY <1>2
  <2> QED BY <1>1, <1>2, <2>1 DEF RootMatrixAccepts, AfterProvider
<1>3. CASE PrefixLevel(r) = 4 /\ r.candidates \in {0, 1}
  <2>1. None # 1 /\ 1 \in 1..12
    BY TimesAssumption
  <2> QED BY <1>1, <1>3, <2>1 DEF RootMatrixAccepts, AfterProvider
<1> QED BY <1>2, <1>3

LEMMA EmptyAnswerFits ==
  ASSUME NEW r, r.status = "succeeded", r.code = "none", ~r.pair, r.attempts = <<>>,
         PrefixLevel(r) = 4, r.candidates = 0
  PROVE  RootMatrixAccepts(r) /\ AttemptMatrixAccepts(r)
<1>1. AttemptMatrixAccepts(r)
  BY DEF AttemptMatrixAccepts, AfterProvider
<1> QED BY <1>1 DEF RootMatrixAccepts, AfterProvider

LEMMA RetrievalErrorFits ==
  ASSUME NEW r, r.code \in Errors, r.status = StatusOfError[r.code], ~r.pair, r.attempts = <<>>,
         PrefixLevel(r) = 2, r.candidates = None
  PROVE  RootMatrixAccepts(r) /\ AttemptMatrixAccepts(r)
<1>1. AttemptMatrixAccepts(r)
  BY DEF AttemptMatrixAccepts, AfterProvider, Errors
<1>2. r.status \in {"blocked", "failed"}
  BY StatusOfRetrievalError
<1>3. CASE r.code \in {"fts5_unavailable", "retrieval_query_failed"}
  BY <1>1, <1>2, <1>3 DEF RootMatrixAccepts, AfterProvider
<1>4. CASE r.code = "retrieval_materialization_failed"
  BY <1>1, <1>2, <1>4 DEF RootMatrixAccepts, AfterProvider
<1> QED BY <1>3, <1>4 DEF Errors

LEMMA TooLargeFits ==
  ASSUME NEW r, r.code = "retrieval_view_too_large", r.status = "blocked", ~r.pair,
         r.attempts = <<>>, PrefixLevel(r) = 3, r.candidates = None
  PROVE  RootMatrixAccepts(r) /\ AttemptMatrixAccepts(r)
<1>1. AttemptMatrixAccepts(r)
  BY DEF AttemptMatrixAccepts, AfterProvider
<1> QED BY <1>1 DEF RootMatrixAccepts, AfterProvider

LEMMA InvalidInputFits ==
  ASSUME NEW r, r.code = "synthesis_input_invalid", r.status = "failed", ~r.pair,
         r.attempts = <<>>, PrefixLevel(r) = 4, r.candidates = 1
  PROVE  RootMatrixAccepts(r) /\ AttemptMatrixAccepts(r)
<1>1. AttemptMatrixAccepts(r)
  BY DEF AttemptMatrixAccepts, AfterProvider
<1>2. None # 1 /\ 1 \in 1..12
  BY TimesAssumption
<1> QED BY <1>1, <1>2 DEF RootMatrixAccepts, AfterProvider

\* A request with them, before the first attempt and after the last one.
LEMMA UntriedFits ==
  ASSUME NEW r, r.pair, r.attempts = <<>>, PrefixLevel(r) = 4, r.candidates = 1,
         \/ r.status = "interrupted" /\ r.code = "none"
         \/ r.status = "blocked" /\ r.code = "codex_runtime_unavailable"
  PROVE  RootMatrixAccepts(r) /\ AttemptMatrixAccepts(r)
<1>1. AttemptMatrixAccepts(r)
  BY DEF AttemptMatrixAccepts, AfterProvider
<1>2. None # 1 /\ 1 \in 1..12 /\ Len(<<>>) \in 0..3
  BY TimesAssumption
<1> QED BY <1>1, <1>2 DEF RootMatrixAccepts, AfterProvider

LEMMA TriedFits ==
  ASSUME NEW r, NEW last, r.pair, PrefixLevel(r) = 4, r.candidates = 1,
         r.attempts # <<>>, Len(r.attempts) \in 1..3,
         r.attempts[Len(r.attempts)].class = last,
         \A i \in 1..(Len(r.attempts) - 1) : r.attempts[i].class = "timeout",
         \/ /\ r.status = "interrupted" /\ r.code = "none"
            /\ last \in {"none", "interrupted"} \/ (last = "timeout" /\ Len(r.attempts) < 3)
         \/ r.status = "succeeded" /\ r.code = "none" /\ last = "none"
         \/ r.status = "blocked" /\ r.code = "codex_timeout_exhausted" /\ last = "timeout"
         \/ r.status = "failed" /\ r.code = "codex_process_failed" /\ last = "process_error"
         \/ r.status = "failed" /\ r.code \in AfterProvider /\ last = "none"
  PROVE  RootMatrixAccepts(r) /\ AttemptMatrixAccepts(r)
<1>1. None # 1 /\ 1 \in 1..12 /\ Len(r.attempts) \in 0..3 /\ r.candidates > 0
  BY TimesAssumption
<1>2. CASE r.status = "interrupted"
  BY <1>1, <1>2 DEF RootMatrixAccepts, AttemptMatrixAccepts, AfterProvider
<1>3. CASE r.status = "succeeded"
  BY <1>1, <1>3 DEF RootMatrixAccepts, AttemptMatrixAccepts, AfterProvider
<1>4. CASE r.code = "codex_timeout_exhausted"
  BY <1>1, <1>4 DEF RootMatrixAccepts, AttemptMatrixAccepts, AfterProvider
<1>5. CASE r.code = "codex_process_failed"
  BY <1>1, <1>5 DEF RootMatrixAccepts, AttemptMatrixAccepts, AfterProvider
<1>6. CASE r.status = "failed" /\ r.code \in AfterProvider
  BY <1>1, <1>6 DEF RootMatrixAccepts, AttemptMatrixAccepts, AfterProvider
<1> QED BY <1>2, <1>3, <1>4, <1>5, <1>6

(******************** the invariant and what follows *********************)

LEMMA InitIInv == Init => IInv
<1> SUFFICES ASSUME Init PROVE IInv
  OBVIOUS
<1>1. TypeOK
  <2>1. /\ at = "barrier" /\ now = 0 /\ cancel = None /\ attempts = <<>> /\ shared = None
        /\ due = 0 /\ completed = 0 /\ fault = "none" /\ stage = 1
        /\ idFormed = FALSE /\ orphans = FALSE /\ snap = FALSE /\ found = "nothing"
        /\ exitCode = None
    BY DEF Init
  <2>2. run \in Runs
    BY DEF Init, NoRun, Runs, Moments
  <2>3. verdict \in Verdicts
    BY CodesAre DEF Init, NoVerdict, Verdicts
  <2>4. NoReport \in Reports /\ report = NoReport
    BY CodesAre DEF Init, NoReport, Reports
  <2>5. shown \in [report : Reports, json : BOOLEAN, lost : BOOLEAN]
    BY <2>4 DEF Init, NoShown
  <2>6. attempts \in Seq(Attempts) /\ Len(attempts) = 0
    BY <2>1
  <2>7. stage \in 1..Scan
    BY <2>1 DEF Scan, Refusals
  <2>8. /\ now \in Nat /\ due \in Nat /\ completed \in Nat
        /\ cancel \in Moments /\ shared \in Moments
        /\ idFormed \in BOOLEAN /\ orphans \in BOOLEAN /\ snap \in BOOLEAN
    BY <2>1 DEF Moments
  <2>9. attempts \in Seq(Attempts) /\ Len(attempts) <= 3
    BY <2>6
  <2> QED BY <2>1, <2>2, <2>3, <2>4, <2>5, <2>7, <2>8, <2>9 DEF TypeOK
<1>2. TimeInv
  BY DEF Init, TimeInv, NoRun
<1>3. PathInv /\ VerdictInv /\ ReportInv /\ ShownInv
  BY DEF Init, PathInv, VerdictInv, ReportInv, ShownInv, AnswererSteps
<1>4. AttemptsInv
  BY DEF Init, AttemptsInv, Trying
<1> QED BY <1>1, <1>2, <1>3, <1>4 DEF IInv

LEMMA StutterStep == ASSUME IInv, UNCHANGED vars PROVE IInv'
<1>1. TypeOK' /\ TimeInv' /\ PathInv' /\ AttemptsInv'
  BY DEF vars, answererVars, timeVars, askVars, IInv, TypeOK, TimeInv, PathInv, AttemptsInv,
     Tried, DeadlineIsPast, Cancelled
<1>2. VerdictInv'
  BY DEF vars, answererVars, timeVars, askVars, IInv, VerdictInv, WithoutCall, WithCall, Tried,
     DeadlineIsPast, Cancelled
<1>3. ReportInv' /\ ShownInv'
  BY DEF vars, answererVars, timeVars, askVars, IInv, ReportInv, ShownInv, Published, Cancelled,
     Adjusted, NoReport, ReportAccepted
<1> QED BY <1>1, <1>2, <1>3 DEF IInv

LEMMA StepIInv == IInv /\ [Next]_vars => IInv'
<1> SUFFICES ASSUME IInv, [Next]_vars PROVE IInv'
  OBVIOUS
<1>1. CASE UNCHANGED vars
  BY <1>1, StutterStep
<1>2. CASE Answer
  BY <1>2, OpenStep, LookStep, LookAtClockStep, FormStep, GateStep, LaunchStep, CaptureStep,
     SettleStep, ClassifyStep, PollStep, PollClockStep, FinishStep, WorkStep,
     JudgeStep DEF Answer,
     AnswererStep
<1>3. CASE Barrier \/ Prepare \/ CutOver \/ Enter \/ Retrieve \/ Retrieved \/ RenderZero \/ JudgeZero
  BY <1>3, BarrierStep, PrepareStep, CutOverStep, EnterStep, RetrieveStep, RetrievedStep,
     RenderZeroStep, JudgeZeroStep
<1>4. CASE Publish \/ Snapshot \/ Present \/ Seal \/ Exit \/ Cancel \/ Tick
  BY <1>4, PublishStep, SnapshotStep, PresentStep, SealStep, ExitStep, CancelStep, TickStep
<1> QED BY <1>1, <1>2, <1>3, <1>4 DEF Next, Step

LEMMA Invariance == Spec => []IInv
BY InitIInv, StepIInv, PTL DEF Spec

\* Every variable keeps its type.
THEOREM TypeCorrect == Spec => []TypeOK
<1>1. IInv => TypeOK
  BY DEF IInv
<1> QED BY <1>1, Invariance, PTL

LEMMA StatusesAre ==
  /\ \A code \in Errors : code \in DOMAIN StatusOfError
  /\ \A code \in {"retrieval_view_too_large", "codex_runtime_unavailable", "codex_timeout_exhausted"} :
       code \in DOMAIN StatusOfError /\ StatusOfError[code] = "blocked"
  /\ \A code \in AfterProvider \union {"synthesis_input_invalid", "codex_process_failed"} :
       code \in DOMAIN StatusOfError /\ StatusOfError[code] = "failed"
BY DEF StatusOfError, Errors, AfterProvider

\* Whatever led to the verdict, the request and what is read back of it are accepted.
LEMMA RequestFits ==
  ASSUME IInv, verdict # NoVerdict
  PROVE  RequestAccepted(Request) /\ ReadsBack(Request)
<1> DEFINE r == Request
           count == IF r.pair \/ (PrefixLevel(r) = 4 /\ r.code = "synthesis_input_invalid") THEN 1
                    ELSE IF PrefixLevel(r) = 4 THEN 0 ELSE None
           m == [r EXCEPT !.candidates = count]
<1>1. /\ found \in Errors \union {"nothing", "zero", "some", "too_large"}
      /\ verdict.pair \in BOOLEAN /\ verdict.code \in Codes
      /\ attempts \in Seq(Attempts) /\ Len(attempts) <= 3
      /\ \A i \in 1..Len(attempts) : attempts[i].sound
      /\ \A i \in 1..(Len(attempts) - 1) : attempts[i].class = "timeout"
      /\ WithoutCall \/ WithCall
  BY DEF IInv, TypeOK, AttemptsInv, VerdictInv, Verdicts
<1>2. /\ r.status = verdict.status /\ r.code = verdict.code /\ r.pair = verdict.pair
      /\ r.attempts = attempts
      /\ found \in {"zero", "some"} => r.view = "within_limit" /\ PrefixLevel(r) = 4
      /\ found = "too_large" => r.view = "too_large" /\ PrefixLevel(r) = 3
      /\ found \in Errors \union {"nothing"} => r.view = "none" /\ PrefixLevel(r) = 2
      /\ found = "zero" => r.candidates = 0
      /\ found = "some" => r.candidates = 1
      /\ found \notin {"zero", "some"} => r.candidates = None
  BY PrefixLevelIs DEF Request, Errors
<1>3. /\ m.status = verdict.status /\ m.code = verdict.code /\ m.pair = verdict.pair
      /\ m.attempts = attempts /\ m.candidates = count /\ PrefixLevel(m) = PrefixLevel(r)
  <2> HIDE DEF count
  <2> QED BY DEF Request, PrefixLevel
<1>4. ManifestAccepts(r) <=> RootMatrixAccepts(m) /\ AttemptMatrixAccepts(m)
  BY DEF ManifestAccepts
<1>5. RequestAccepted(r) /\ ManifestAccepts(r) => RequestAccepted(Request) /\ ReadsBack(Request)
  BY DEF ReadsBack
<1>6. /\ r.pair => count = 1
      /\ PrefixLevel(r) = 4 /\ r.code = "synthesis_input_invalid" => count = 1
      /\ ~r.pair /\ PrefixLevel(r) = 4 /\ r.code # "synthesis_input_invalid" => count = 0
      /\ ~r.pair /\ PrefixLevel(r) \in {2, 3} => count = None
  OBVIOUS
<1>7. None \notin 0..12 /\ 1 \in 1..12 /\ Len(<<>>) = 0
  BY TimesAssumption
<1> HIDE DEF r, count, m
<1>8. CASE WithoutCall
  <2>1. ~r.pair /\ r.attempts = <<>>
    BY <1>2, <1>8 DEF WithoutCall
  <2>2. CASE verdict.status = "interrupted" /\ verdict.code = "none" /\ found \notin Errors
    <3>1. RootMatrixAccepts(r) /\ AttemptMatrixAccepts(r)
      BY <1>1, <1>2, <2>1, <2>2, InterruptedEarlyFits
    <3>2. RootMatrixAccepts(m) /\ AttemptMatrixAccepts(m)
      BY <1>1, <1>2, <1>3, <1>6, <2>1, <2>2, InterruptedEarlyFits
    <3>3. PresenceAccepted(r)
      BY <1>1, <1>2, <1>7, <2>1, <2>2 DEF PresenceAccepted
    <3> QED BY <1>4, <1>5, <3>1, <3>2, <3>3 DEF RequestAccepted
  <2>3. CASE verdict.status = "succeeded" /\ verdict.code = "none" /\ found = "zero"
    <3>1. RootMatrixAccepts(r) /\ AttemptMatrixAccepts(r)
      BY <1>2, <2>1, <2>3, EmptyAnswerFits
    <3>2. RootMatrixAccepts(m) /\ AttemptMatrixAccepts(m)
      BY <1>2, <1>3, <1>6, <2>1, <2>3, EmptyAnswerFits
    <3>3. PresenceAccepted(r)
      BY <1>2, <1>7, <2>1, <2>3 DEF PresenceAccepted
    <3> QED BY <1>4, <1>5, <3>1, <3>2, <3>3 DEF RequestAccepted
  <2>4. CASE found \in Errors /\ verdict.code = found /\ verdict.status = StatusOfError[found]
    <3>1. found \notin {"zero", "some", "too_large"}
      BY <2>4 DEF Errors
    <3>2. RootMatrixAccepts(r) /\ AttemptMatrixAccepts(r)
      BY <1>2, <2>1, <2>4, <3>1, RetrievalErrorFits
    <3>3. RootMatrixAccepts(m) /\ AttemptMatrixAccepts(m)
      BY <1>2, <1>3, <1>6, <2>1, <2>4, <3>1, RetrievalErrorFits
    <3>4. r.status \in {"blocked", "failed"} /\ r.code \in DOMAIN StatusOfError
          /\ r.code # "retrieval_view_too_large"
      BY <1>2, <2>4, StatusOfRetrievalError, StatusesAre DEF Errors
    <3>5. PresenceAccepted(r)
      BY <1>2, <1>7, <2>1, <2>4, <3>1, <3>4 DEF PresenceAccepted
    <3> QED BY <1>4, <1>5, <3>2, <3>3, <3>5 DEF RequestAccepted
  <2>5. CASE /\ verdict.status = "blocked" /\ verdict.code = "retrieval_view_too_large"
             /\ found = "too_large"
    <3>1. RootMatrixAccepts(r) /\ AttemptMatrixAccepts(r)
      BY <1>2, <2>1, <2>5, TooLargeFits
    <3>2. RootMatrixAccepts(m) /\ AttemptMatrixAccepts(m)
      BY <1>2, <1>3, <1>6, <2>1, <2>5, TooLargeFits
    <3>3. PresenceAccepted(r)
      BY <1>2, <1>7, <2>1, <2>5, StatusesAre DEF PresenceAccepted
    <3> QED BY <1>4, <1>5, <3>1, <3>2, <3>3 DEF RequestAccepted
  <2>6. CASE /\ verdict.status = "failed" /\ verdict.code = "synthesis_input_invalid"
             /\ found = "some"
    <3>1. RootMatrixAccepts(r) /\ AttemptMatrixAccepts(r)
      BY <1>2, <2>1, <2>6, InvalidInputFits
    <3>2. RootMatrixAccepts(m) /\ AttemptMatrixAccepts(m)
      BY <1>2, <1>3, <1>6, <2>1, <2>6, InvalidInputFits
    <3>3. PresenceAccepted(r)
      BY <1>2, <1>7, <2>1, <2>6, StatusesAre DEF PresenceAccepted
    <3> QED BY <1>4, <1>5, <3>1, <3>2, <3>3 DEF RequestAccepted
  <2> QED BY <1>8, <2>2, <2>3, <2>4, <2>5, <2>6 DEF WithoutCall
<1>9. CASE WithCall
  <2>1. r.pair /\ PrefixLevel(r) = 4 /\ r.candidates = 1 /\ m.pair /\ PrefixLevel(m) = 4
        /\ m.candidates = 1
    BY <1>2, <1>3, <1>6, <1>9 DEF WithCall
  <2>2. /\ RootMatrixAccepts(r) /\ AttemptMatrixAccepts(r)
        /\ RootMatrixAccepts(m) /\ AttemptMatrixAccepts(m)
    <3>1. CASE attempts = <<>>
      <4>1. \/ verdict.status = "interrupted" /\ verdict.code = "none"
            \/ verdict.status = "blocked" /\ verdict.code = "codex_runtime_unavailable"
        BY <1>7, <1>9, <3>1 DEF WithCall, Tried
      <4> QED BY <1>2, <1>3, <2>1, <3>1, <4>1, UntriedFits
    <3>2. CASE attempts # <<>>
      <4> DEFINE last == attempts[Len(attempts)].class
      <4>1. /\ Len(attempts) \in 1..3
            /\ \/ /\ verdict.status = "interrupted" /\ verdict.code = "none"
                  /\ last \in {"none", "interrupted"} \/ (last = "timeout" /\ Len(attempts) < 3)
               \/ verdict.status = "succeeded" /\ verdict.code = "none" /\ last = "none"
               \/ /\ verdict.status = "blocked" /\ verdict.code = "codex_timeout_exhausted"
                  /\ last = "timeout"
               \/ /\ verdict.status = "failed" /\ verdict.code = "codex_process_failed"
                  /\ last = "process_error"
               \/ verdict.status = "failed" /\ verdict.code \in AfterProvider /\ last = "none"
        BY <1>9, <3>2 DEF WithCall, Tried
      <4> QED BY <1>1, <1>2, <1>3, <2>1, <3>2, <4>1, TriedFits
    <3> QED BY <3>1, <3>2
  <2>3. PresenceAccepted(r)
    <3>1. IF r.status \in {"blocked", "failed"}
            THEN r.code \in DOMAIN StatusOfError /\ StatusOfError[r.code] = r.status
            ELSE r.code = "none"
      BY <1>2, <1>9, StatusesAre DEF WithCall
    <3>2. r.status = "succeeded" => r.attempts # <<>>
      <4> SUFFICES ASSUME verdict.status = "succeeded", attempts = <<>> PROVE FALSE
        BY <1>2
      <4>1. Tried("none")
        BY <1>9 DEF WithCall
      <4>2. Len(attempts) \in 1..3 /\ Len(attempts) = 0
        BY <1>7, <4>1 DEF Tried
      <4> QED BY <4>2
    <3>3. r.code # "retrieval_view_too_large"
      BY <1>2, <1>9 DEF WithCall, AfterProvider
    <3> QED BY <1>1, <1>2, <1>7, <2>1, <3>1, <3>2, <3>3 DEF PresenceAccepted
  <2> QED BY <1>4, <1>5, <2>2, <2>3 DEF RequestAccepted
<1> QED BY <1>1, <1>8, <1>9

\* The publication accepts the request of every command that gets to it, whatever path it
\* took, and the reader accepts what was published.
THEOREM RequestsAreAccepted == Spec => []EveryRequestIsAccepted
<1>1. IInv => EveryRequestIsAccepted
  <2> SUFFICES ASSUME IInv, at = "publish"
               PROVE  RequestAccepted(Request) /\ ReadsBack(Request)
    BY DEF EveryRequestIsAccepted
  <2>1. verdict # NoVerdict
    BY DEF IInv, PathInv
  <2> QED BY <2>1, RequestFits
<1> QED BY <1>1, Invariance, PTL

(************************* a cause is named in time **************************)

\* While nothing is decided and nothing is to be classified there is nothing to show.
LEMMA CauseUndecided ==
  ASSUME verdict' = NoVerdict, at' # "classify" PROVE CauseInv'
BY DEF CauseInv, NoVerdict

\* A verdict of somebody else says nothing of deadlines or interruptions.
LEMMA CauseOther ==
  ASSUME at' = "publish", verdict'.code # "codex_timeout_exhausted",
         verdict'.status # "interrupted"
  PROVE  CauseInv'
BY DEF CauseInv

\* What was in time stays so while the clock goes on.
LEMMA CauseStays ==
  ASSUME TypeOK, CauseInv, UNCHANGED <<verdict, attempts, shared, run>>,
         now' \in Nat /\ now <= now',
         cancel' = cancel \/ (~Cancelled /\ verdict.status # "interrupted"),
         at' = "classify" => at = "classify"
  PROVE  CauseInv'
<1>1. Reached(shared) => Reached(shared)'
  BY DEF TypeOK, Moments, Reached
<1>2. Cancelled => cancel' = cancel
  OBVIOUS
<1>3. \A class : Tried(class)' = Tried(class)
  BY DEF Tried
<1>4. verdict.status = "interrupted" => InTime'
  <2> SUFFICES ASSUME verdict.status = "interrupted" PROVE InTime'
    OBVIOUS
  <2>1. InTime /\ cancel' = cancel
    BY DEF CauseInv
  <2> QED BY <1>3, <2>1 DEF InTime
<1>5. at' = "classify" /\ run.outcome = "interrupted" =>
        Cancelled' /\ (run.deadline = None \/ cancel' <= run.deadline)
  BY <1>2 DEF CauseInv, Cancelled
<1> QED BY <1>1, <1>4, <1>5 DEF CauseInv

\* An interruption between attempts is within the shared deadline.
LEMMA CauseBetween ==
  ASSUME Interrupted, UNCHANGED <<attempts, shared, cancel>>,
         attempts = <<>> \/ Tried("none") \/ (Tried("timeout") /\ cancel <= shared)
  PROVE  CauseInv'
<1>1. at' = "publish" /\ verdict'.status = "interrupted" /\ verdict'.code = "none"
  BY DEF Interrupted, Verdict
<1>2. InTime'
  <2>1. CASE attempts = <<>>
    BY <2>1 DEF InTime, Tried
  <2>2. CASE Tried("none")
    BY <2>2 DEF InTime, Tried
  <2>3. CASE Tried("timeout") /\ cancel <= shared
    BY <2>3 DEF InTime, Tried
  <2> QED BY <2>1, <2>2, <2>3
<1> QED BY <1>1, <1>2 DEF CauseInv

\* The window is exhausted when the clock has reached the shared deadline.
LEMMA CauseExhausted ==
  ASSUME Exhausted, UNCHANGED <<shared, now>>, Reached(shared) PROVE CauseInv'
<1>1. at' = "publish" /\ verdict'.status = "blocked"
  BY DEF Exhausted, Verdict
<1> QED BY <1>1 DEF CauseInv, Reached

\* While an attempt is tried, those before it timed out.
LEMMA TriedBefore ==
  ASSUME IInv, at \in Trying
  PROVE  /\ verdict = NoVerdict
         /\ \/ attempts = <<>> /\ shared = None
            \/ Tried("timeout") /\ shared \in Nat /\ shared # None
BY DEF IInv, PathInv, AttemptsInv, TypeOK, Moments, Trying, Ending

LEMMA OpenCause == ASSUME IInv, CauseInv, Open PROVE CauseInv'
<1>1. verdict = NoVerdict /\ attempts = <<>>
  BY DEF Open, IInv, PathInv, AttemptsInv, Trying, Ending
<1>2. CASE InputInvalid
  BY <1>2, InputInvalidIs, CauseOther
<1>3. CASE Interrupted /\ UNCHANGED attempts
  BY <1>1, <1>3, CauseBetween DEF Open, timeVars
<1>4. CASE RuntimeUnavailable
  BY <1>4, CauseOther DEF RuntimeUnavailable, Verdict
<1>5. CASE at' = "window" /\ UNCHANGED verdict
  BY <1>1, <1>5, CauseUndecided
<1> QED BY <1>2, <1>3, <1>4, <1>5 DEF Open

LEMMA LookCause == ASSUME IInv, CauseInv, Look PROVE CauseInv'
<1>1. /\ at \in {"window", "unformed", "unprepared"}
      /\ UNCHANGED <<attempts, shared, cancel>>
  BY DEF Look, ClockAfter, timeVars
<1>2. /\ verdict = NoVerdict
      /\ (attempts = <<>> /\ shared = None) \/ (Tried("timeout") /\ shared \in Nat /\ shared # None)
  BY <1>1, TriedBefore DEF Trying
<1>3. CASE CancelWins
  BY <1>1, <1>2, <1>3, CauseBetween DEF Look, CancelWins
<1>4. CASE ~CancelWins
  BY <1>1, <1>2, <1>4, CauseUndecided DEF Look, ClockAfter
<1> QED BY <1>3, <1>4

LEMMA LookAtClockCause == ASSUME IInv, CauseInv, LookAtClock PROVE CauseInv'
<1>1. verdict = NoVerdict /\ UNCHANGED <<shared, now>>
  BY TriedBefore DEF LookAtClock, Trying, timeVars
<1>2. CASE Reached(shared)
  BY <1>1, <1>2, CauseExhausted DEF LookAtClock
<1>3. CASE GoOn
  <2>1. CASE UNCHANGED verdict /\ at' \in {"form", "raised"}
    BY <1>1, <2>1, CauseUndecided
  <2>2. CASE InputInvalid
    BY <2>2, InputInvalidIs, CauseOther
  <2>3. CASE RuntimeUnavailable
    BY <2>3, CauseOther DEF RuntimeUnavailable, Verdict
  <2> QED BY <1>3, <2>1, <2>2, <2>3 DEF GoOn, Raise
<1> QED BY <1>2, <1>3 DEF LookAtClock

LEMMA GateCause == ASSUME IInv, CauseInv, Gate PROVE CauseInv'
<1>1. /\ at = "gate" /\ UNCHANGED <<attempts, shared, cancel, now>>
      /\ now \in Nat /\ cancel \in Moments
  BY DEF Gate, timeVars, IInv, TypeOK
<1>2. /\ verdict = NoVerdict
      /\ (attempts = <<>> /\ shared = None) \/ (Tried("timeout") /\ shared \in Nat /\ shared # None)
  BY <1>1, TriedBefore DEF Trying
<1>3. CASE Cancelled /\ (~Reached(shared) \/ cancel <= shared)
  <2>1. cancel \in Nat /\ cancel <= now
    BY <1>1, <1>3 DEF Cancelled, Moments, IInv, TimeInv
  <2>2. attempts = <<>> \/ (Tried("timeout") /\ cancel <= shared)
    BY <1>1, <1>2, <1>3, <2>1 DEF Reached
  <2> QED BY <1>1, <1>3, <2>2, CauseBetween DEF Gate
<1>4. CASE ~(Cancelled /\ (~Reached(shared) \/ cancel <= shared)) /\ Reached(shared)
  BY <1>1, <1>4, CauseExhausted DEF Gate
<1>5. CASE ~(Cancelled /\ (~Reached(shared) \/ cancel <= shared)) /\ ~Reached(shared)
  BY <1>2, <1>5, CauseUndecided DEF Gate
<1> QED BY <1>3, <1>4, <1>5

LEMMA SettleCause == ASSUME IInv, CauseInv, Settle PROVE CauseInv'
<1>1. at = "captured" /\ UNCHANGED <<verdict, cancel>>
  BY DEF Settle, timeVars
<1>2. verdict' = NoVerdict
  BY <1>1, TriedBefore DEF Trying
<1>3. CASE Raise
  BY <1>2, <1>3, CauseUndecided DEF Raise
<1>4. CASE run' = [run EXCEPT !.ready = now, !.outcome =
             Codex!MechanicalOutcome(run.failed, cancel, run.deadline, run.ready, run.exit)]
  <2> DEFINE outcome ==
        Codex!MechanicalOutcome(run.failed, cancel, run.deadline, run.ready, run.exit)
  <2>1. outcome = "interrupted" => cancel # None /\ (run.deadline = None \/ cancel <= run.deadline)
    BY DEF Codex!MechanicalOutcome, Codex!Reached
  <2>2. run' = [run EXCEPT !.ready = now, !.outcome = outcome]
    BY <1>4
  <2> HIDE DEF outcome
  <2>3. run'.outcome = outcome /\ run'.deadline = run.deadline
    BY <2>2 DEF IInv, TypeOK, Runs
  <2> QED BY <1>1, <1>2, <2>1, <2>3 DEF CauseInv, NoVerdict, Cancelled
<1> QED BY <1>3, <1>4 DEF Settle

LEMMA ClassifyCause == ASSUME IInv, CauseInv, Classify PROVE CauseInv'
<1> DEFINE failure == FailureClass(run)
           entry == [class |-> failure, sound |-> EvidenceAccepted(failure, run.exit, run.events)]
<1>1. /\ at = "classify" /\ run \in Runs /\ cancel \in Moments
      /\ run.outcome \in Codex!Outcomes
  BY DEF IInv, TypeOK, AttemptsInv, Classify, Runs
<1>2. failure = "interrupted" => run.deadline = None \/ cancel <= run.deadline
  <2>1. run.outcome \in {"clean", "provider_or_process_exit", "process_error", "interrupted", "timeout"}
    BY <1>1 DEF Codex!Outcomes, Codex!Ordinary
  <2>2. run.outcome = "interrupted" => run.deadline = None \/ cancel <= run.deadline
    BY <1>1 DEF CauseInv
  <2> QED BY <2>1, <2>2 DEF FailureClass, Broken, Remaining
<1>3. attempts' = Append(attempts, entry) /\ attempts \in Seq(Attempts)
  BY DEF Classify, IInv, TypeOK
<1>4. entry.class = failure
  OBVIOUS
<1> HIDE DEF entry
<1>5. attempts'[Len(attempts')] = entry
  BY <1>3
<1> HIDE DEF failure
<1>6. PICK class \in {"timeout", "process_error", "interrupted", "none"} :
        /\ attempts'[Len(attempts')].class = class
        /\ run' = [NoRun EXCEPT !.deadline = run.deadline] /\ UNCHANGED cancel
        /\ \/ class = "timeout" /\ Len(attempts') = 3 /\ Exhausted
           \/ class = "timeout" /\ at' = "poll" /\ UNCHANGED verdict
           \/ class = "interrupted" /\ Interrupted
           \/ /\ class = "process_error" /\ at' = "publish"
              /\ verdict' = [status |-> "failed", code |-> "codex_process_failed",
                             pair |-> TRUE, overflow |-> run.cut \/ run.events = "capped"]
           \/ class = "none" /\ at' = "finish" /\ UNCHANGED verdict
  BY ClassifyIs
<1>7. verdict = NoVerdict /\ run'.deadline = run.deadline
  BY <1>1, <1>6, TriedBefore DEF Trying, NoRun
<1>8. CASE class = "timeout" /\ Len(attempts') = 3 /\ Exhausted
  BY <1>8 DEF CauseInv, Exhausted, Verdict
<1>9. CASE UNCHANGED verdict /\ at' \in {"poll", "finish"}
  BY <1>7, <1>9, CauseUndecided
<1>10. CASE class = "interrupted" /\ Interrupted
  <2>1. InTime'
    BY <1>2, <1>4, <1>5, <1>6, <1>7, <1>10 DEF InTime, Tried
  <2> QED BY <1>10, <2>1 DEF CauseInv, Interrupted, Verdict
<1>11. CASE /\ at' = "publish"
            /\ verdict' = [status |-> "failed", code |-> "codex_process_failed",
                           pair |-> TRUE, overflow |-> run.cut \/ run.events = "capped"]
  BY <1>11, CauseOther
<1> QED BY <1>6, <1>8, <1>9, <1>10, <1>11

LEMMA PollCause == ASSUME IInv, CauseInv, Poll \/ PollClock PROVE CauseInv'
<1>1. /\ at \in {"poll", "poll_clock"} /\ UNCHANGED <<attempts, shared, cancel, now>>
  BY DEF Poll, PollClock, timeVars
<1>2. verdict = NoVerdict /\ Tried("timeout")
  <2>1. attempts # <<>>
    BY <1>1 DEF IInv, AttemptsInv
  <2> QED BY <1>1, <2>1, TriedBefore DEF Trying
<1>3. CASE Interrupted /\ Cancelled /\ cancel <= shared
  BY <1>1, <1>2, <1>3, CauseBetween
<1>4. CASE Exhausted /\ Reached(shared)
  BY <1>1, <1>4, CauseExhausted
<1>5. CASE UNCHANGED verdict /\ at' \in {"poll_clock", "window", "poll"}
  BY <1>2, <1>5, CauseUndecided
<1> QED BY <1>3, <1>4, <1>5 DEF Poll, PollClock

LEMMA JudgeCause == ASSUME IInv, CauseInv, Finish \/ Judge PROVE CauseInv'
<1>1. at \in {"finish", "validated", "rendered"} /\ UNCHANGED <<attempts, shared, cancel>>
  BY DEF Finish, Judge, timeVars
<1>2. verdict = NoVerdict /\ Tried("none")
  BY <1>1 DEF IInv, PathInv, AttemptsInv, Ending
<1>3. CASE Interrupted
  BY <1>1, <1>2, <1>3, CauseBetween
<1>4. CASE UNCHANGED verdict /\ at' \in {"validate", "render"}
  BY <1>2, <1>4, CauseUndecided
<1>5. CASE Verdict("failed", fault) /\ fault # "none"
  <2>1. fault \in AfterProvider
    BY <1>5 DEF IInv, TypeOK
  <2>2. fault # "codex_timeout_exhausted"
    BY <2>1 DEF AfterProvider
  <2> QED BY <1>5, <2>2, CauseOther DEF Verdict
<1>6. CASE Verdict("succeeded", "none")
  BY <1>6, CauseOther DEF Verdict
<1> QED BY <1>3, <1>4, <1>5, <1>6 DEF Finish, Judge

\* A terminal cause that is not the answerer's finds no attempt.
LEMMA SettledCause ==
  ASSUME IInv, NEW status \in Statuses, NEW code \in Codes \ {"codex_timeout_exhausted"},
         Settled(status, code), attempts = <<>>, UNCHANGED attempts
  PROVE  CauseInv'
<1>1. at' = "publish" /\ verdict'.code = code
  BY SettledIs
<1>2. InTime'
  BY DEF InTime, Tried
<1> QED BY <1>1, <1>2 DEF CauseInv

LEMMA RetrievalCause ==
  ASSUME IInv, CauseInv, Enter \/ Retrieve \/ Retrieved \/ JudgeZero PROVE CauseInv'
<1>1. /\ at \in {"entered", "retrieve", "retrieved", "rendered_zero"} /\ UNCHANGED attempts
  BY DEF Enter, Retrieve, Retrieved, JudgeZero, answering
<1>2. verdict = NoVerdict /\ attempts = <<>>
  BY <1>1 DEF IInv, PathInv, AttemptsInv, Trying, Ending
<1>3. CASE UNCHANGED verdict /\ at' # "classify"
  BY <1>2, <1>3, CauseUndecided
<1>4. CASE \E status \in Statuses, code \in Codes \ {"codex_timeout_exhausted"} :
             Settled(status, code)
  BY <1>1, <1>2, <1>4, SettledCause
<1>5. /\ {"none", "retrieval_view_too_large"} \subseteq Codes \ {"codex_timeout_exhausted"}
      /\ {"interrupted", "succeeded", "blocked"} \subseteq Statuses
  BY CodesAre DEF Statuses
<1>6. \A error \in Errors : /\ error \in Codes \ {"codex_timeout_exhausted"}
                            /\ StatusOfError[error] \in Statuses
  BY CodesAre, StatusOfRetrievalError DEF Errors, Statuses
<1>7. CASE Enter
  BY <1>3, <1>4, <1>5, <1>7 DEF Enter
<1>8. CASE Retrieve
  BY <1>3, <1>4, <1>6, <1>8 DEF Retrieve, Say
<1>9. CASE Retrieved
  <2>1. found \in {"too_large", "zero", "some"}
    BY <1>9 DEF Retrieved, IInv, PathInv
  <2> QED BY <1>3, <1>4, <1>5, <1>9, <2>1 DEF Retrieved, Say
<1>10. CASE JudgeZero
  BY <1>4, <1>5, <1>10 DEF JudgeZero
<1> QED BY <1>7, <1>8, <1>9, <1>10

\* The steps that decide nothing.
LEMMA QuietCause ==
  ASSUME IInv, CauseInv,
         \/ Form \/ Launch \/ Capture \/ Work
         \/ Barrier \/ Prepare \/ CutOver \/ RenderZero
  PROVE  CauseInv'
<1>1. at \notin Ending /\ UNCHANGED verdict /\ at' # "classify"
  <2>1. CASE Form \/ Launch \/ Capture
    BY <2>1 DEF Form, Launch, Capture, Ending, Raise
  <2>2. CASE Work
    BY <2>2 DEF Work, Ending, Faults, Judging
  <2>3. CASE Barrier \/ Prepare \/ CutOver \/ RenderZero
    BY <2>3 DEF Barrier, Prepare, CutOver, RenderZero, Ending, Say, SayInterrupted
  <2> QED BY <2>1, <2>2, <2>3
<1> QED BY <1>1, CauseUndecided DEF IInv, PathInv

LEMMA EndingCause ==
  ASSUME IInv, CauseInv,
         \/ Publish \/ Snapshot \/ Present \/ Seal \/ Exit
         \/ Cancel \/ Tick \/ UNCHANGED vars
  PROVE  CauseInv'
<1>1. TypeOK /\ now \in Nat
  BY DEF IInv, TypeOK
<1>2. CASE Publish \/ Snapshot \/ Present \/ Seal \/ Exit
  <2>1. UNCHANGED <<verdict, attempts, shared, run, now, cancel>> /\ at' # "classify"
    BY <1>2 DEF Publish, Snapshot, Present, Seal, Exit, answering, timeVars, Say, Raise
  <2> QED BY <1>1, <2>1, CauseStays
<1>3. CASE Cancel
  <2>1. verdict.status # "interrupted"
    BY <1>3 DEF Cancel, IInv, VerdictInv, NoVerdict
  <2> QED BY <1>1, <1>3, <2>1, CauseStays DEF Cancel
<1>4. CASE Tick
  BY <1>1, <1>4, CauseStays DEF Tick
<1>5. CASE UNCHANGED vars
  BY <1>1, <1>5, CauseStays DEF vars, answererVars, timeVars
<1> QED BY <1>2, <1>3, <1>4, <1>5

LEMMA CauseInvariance == Spec => []CauseInv
<1>1. Init => CauseInv
  BY DEF Init, CauseInv, NoVerdict
<1>2. IInv /\ CauseInv /\ [Next]_vars => CauseInv'
  BY OpenCause, LookCause, LookAtClockCause, GateCause, SettleCause, ClassifyCause, PollCause,
     JudgeCause, RetrievalCause, QuietCause, EndingCause DEF Next, Step, Answer, AnswererStep
<1> QED BY <1>1, <1>2, Invariance, PTL DEF Spec

\* Cancellation, deadlines and completion: what the verdict names came in time.
THEOREM CauseTimely == Spec => []CauseIsTimely
<1>1. IInv /\ CauseInv => CauseIsTimely
  <2> SUFFICES ASSUME IInv, CauseInv, at = "publish"
               PROVE  /\ verdict.status = "succeeded" /\ Cancelled => cancel >= completed
                      /\ verdict.code = "codex_timeout_exhausted" =>
                           /\ Len(attempts) = 3 \/ Reached(shared)
                           /\ Cancelled => cancel >= run.deadline
                      /\ verdict.status = "interrupted" => Cancelled /\ InTime
    BY DEF CauseIsTimely
  <2>1. /\ verdict.status = "succeeded" /\ Cancelled => cancel >= completed
        /\ verdict.code = "codex_timeout_exhausted" => DeadlineIsPast
        /\ verdict.status = "interrupted" => Cancelled
    BY DEF IInv, PathInv, VerdictInv
  <2>2. DeadlineIsPast /\ Cancelled => cancel >= run.deadline
    BY DEF DeadlineIsPast, Cancelled, IInv
  <2> QED BY <2>1, <2>2 DEF CauseInv
<1> QED BY <1>1, Invariance, CauseInvariance, PTL

\* What is sealed and shown tells the truth about Ctrl+C, the Answer ID and the Answer, and
\* so does the exit code.
THEOREM SealedIsTrue == Spec => []SealedReportIsTrue
<1>1. IInv => SealedReportIsTrue
  <2> SUFFICES ASSUME IInv, at \in {"sealed", "exited"} PROVE SealedReportIsTrue
    BY DEF SealedReportIsTrue
  <2> DEFINE r == shown.report
  <2>1. r = Adjusted(report, snap) /\ ReportAccepted(r) /\ snap = Cancelled
    BY DEF IInv, ShownInv
  <2>2. r.outcome \in Statuses
    BY ShownHasOutcome
  <2>3. CASE Published
    <3>1. r = report
      BY <2>1, <2>3 DEF Published, Adjusted
    <3>2. verdict # NoVerdict /\ r.outcome = verdict.status /\ r.result /\ idFormed
      BY <2>3, <3>1 DEF Published, IInv, VerdictInv
    <3>3. verdict.status = "interrupted" => Cancelled
      BY <3>2 DEF IInv, VerdictInv
    <3>4. ReadsBack(Request)
      BY <3>2, RequestFits
    <3>5. at = "exited" => exitCode = IF shown.lost THEN 1 ELSE ExitCodes[r.outcome]
      BY DEF IInv, ShownInv
    <3>6. at = "exited" => /\ exitCode = 130 <=> r.outcome = "interrupted" /\ ~shown.lost
                           /\ exitCode = 0 => verdict.status = "succeeded"
      BY <2>2, <3>2, <3>5 DEF ExitCodes, Statuses
    <3> QED BY <2>1, <3>2, <3>3, <3>4, <3>6 DEF SealedReportIsTrue
  <2>4. CASE ~Published
    <3>1. /\ ~report.result
          /\ \/ report.outcome = "interrupted" /\ Cancelled /\ ~idFormed
             \/ report.outcome = "blocked" /\ ~idFormed
             \/ report.outcome = "failed"
      BY <2>4 DEF IInv, ReportInv
    <3>2. /\ ~r.result
          /\ \/ r.outcome = "interrupted" /\ Cancelled /\ ~idFormed
             \/ r.outcome = "blocked" /\ ~idFormed /\ ~Cancelled
             \/ r.outcome = "failed"
      BY <2>1, <3>1 DEF Adjusted, NoReport
    <3>3. at = "exited" => exitCode = IF shown.lost THEN 1 ELSE ExitCodes[r.outcome]
      BY DEF IInv, ShownInv
    <3>4. at = "exited" => /\ exitCode = 130 <=> r.outcome = "interrupted" /\ ~shown.lost
                           /\ exitCode # 0
      BY <3>2, <3>3 DEF ExitCodes
    <3> QED BY <2>1, <3>2, <3>4 DEF SealedReportIsTrue
  <2> QED BY <2>3, <2>4
<1> QED BY <1>1, Invariance, PTL


===========================================================================
