-------------------------- MODULE KnowledgeAnswerer --------------------------
(***************************************************************************)
(* Synthesis of an Answer (_knowledge_answerer.py, answer_nonzero_v1): up  *)
(* to three Codex attempts within one shared deadline, a backoff between   *)
(* them, then validation and rendering of what the last one said.          *)
(*                                                                         *)
(* Cancellation and clock are read one after the other, and a cancellation *)
(* may arrive between any two reads; it is stamped when it becomes visible *)
(* (CancellationLatch: a read waits for a delivery that is under way).  An *)
(* attempt is what CodexAttempt promises, with the same classification of  *)
(* its mechanical outcome.                                                 *)
(***************************************************************************)
EXTENDS AnswerVerdict

CONSTANTS
  Timeout,         \* time one attempt may take
  Window,          \* time all of them may take together
  FirstBackoff, SecondBackoff,
  Early            \* bound: the clock before the first provider is started

ASSUME TimesAssumption ==
  /\ {Timeout, Window, FirstBackoff, SecondBackoff, Early} \subseteq Nat
  /\ FirstBackoff > 0 /\ SecondBackoff > 0
  /\ None \notin Nat

VARIABLES
  at,         \* the step the command is at
  now,        \* the monotonic clock
  cancel,     \* when the cancellation was observed, or None
  attempts,   \* the attempts so far
  shared,     \* the shared deadline, or None
  run,        \* the attempt in hand
  due,        \* when the backoff is over
  completed,  \* when the last validation or rendering was done
  fault,      \* and how it failed
  verdict     \* status, error, prompt and Schema, and overflow of the captures

timeVars == <<now, cancel>>
answererVars == <<at, timeVars, attempts, shared, run, due, completed, fault, verdict>>

Codex == INSTANCE CodexAttempt WITH
  Prompt <- 1, phase <- at, running <- FALSE, delivered <- 0, cancelled <- FALSE,
  early <- FALSE, outcome <- run.outcome

Reached(time) == time # None /\ time <= now
Cancelled == cancel # None
Earlier(a, b) == IF b = None \/ a <= b THEN a ELSE b
NoRun == [shared |-> None, deadline |-> None, started |-> FALSE, ready |-> 0,
          failed |-> FALSE, exit |-> None, events |-> "open", cut |-> FALSE, outcome |-> "none"]
NoVerdict == [status |-> "none", code |-> "none", pair |-> FALSE, overflow |-> FALSE]

\* _stopped_answerer_v1: the verdict, with its prompt and its Schema.
Verdict(status, code) ==
  /\ at' = "publish"
  /\ verdict' = [status |-> status, code |-> code, pair |-> TRUE, overflow |-> FALSE]
Interrupted == Verdict("interrupted", "none")
Exhausted == Verdict("blocked", "codex_timeout_exhausted")
RuntimeUnavailable == Verdict("blocked", "codex_runtime_unavailable")

\* KnowledgeAnswererInputInvalidV1, which the caller turns into a verdict of its own.
InputInvalid ==
  /\ at' = "publish" /\ attempts' = <<>>
  /\ verdict' = [status |-> "failed", code |-> "synthesis_input_invalid",
                 pair |-> FALSE, overflow |-> FALSE]
\* KnowledgeAnswererUnsafeHoldErrorV1, which nobody catches.
Raise == at' = "raised"

\* _cancel_wins_v1
CancelWins == Cancelled /\ (shared = None \/ cancel <= shared)

(********************************** attempts **********************************)

\* Prompt and Schema, then the environment and the Codex runtime.
Open ==
  /\ at = "call"
  /\ \/ InputInvalid
     \/ IF Cancelled THEN Interrupted /\ UNCHANGED attempts
                     ELSE RuntimeUnavailable /\ UNCHANGED attempts
     \/ at' = "window" /\ UNCHANGED <<attempts, verdict>>
  /\ UNCHANGED <<timeVars, shared, run, due, completed, fault>>

\* _precommit_window_stop_v1, before an attempt, and again when its package could not
\* be formed or the child could not be prepared: the cancellation first, then the clock.
ClockAfter == [window |-> "clock", unformed |-> "unformed_clock", unprepared |-> "unprepared_clock"]
Look ==
  /\ at \in DOMAIN ClockAfter
  /\ IF CancelWins THEN Interrupted ELSE at' = ClockAfter[at] /\ UNCHANGED verdict
  /\ UNCHANGED <<timeVars, attempts, shared, run, due, completed, fault>>

\* (Mutant first: a preparation that fails is reported whatever went before.)
GoOnForgets ==
  /\ \/ at = "clock" /\ at' = "form" /\ UNCHANGED <<attempts, verdict>>
     \/ at = "unformed_clock" /\ IF attempts = <<>> THEN InputInvalid
                                 ELSE Raise /\ UNCHANGED <<attempts, verdict>>
     \/ at = "unprepared_clock" /\ RuntimeUnavailable /\ UNCHANGED attempts
GoOn ==
  /\ \/ at = "clock" /\ at' = "form" /\ UNCHANGED <<attempts, verdict>>
     \/ at = "unformed_clock" /\ IF attempts = <<>> THEN InputInvalid
                                 ELSE Raise /\ UNCHANGED <<attempts, verdict>>
     \/ at = "unprepared_clock" /\ IF attempts = <<>> THEN RuntimeUnavailable /\ UNCHANGED attempts
                                   ELSE Raise /\ UNCHANGED <<attempts, verdict>>
LookAtClock ==
  /\ at \in {"clock", "unformed_clock", "unprepared_clock"}
  /\ IF Reached(shared) THEN Exhausted /\ UNCHANGED attempts ELSE GoOn
  /\ UNCHANGED <<timeVars, shared, run, due, completed, fault>>

\* The package with the Schema, then the child's own preparation; a child that was
\* rejected for another reason has proved nothing.
Form ==
  /\ at = "form"
  /\ at' \in {"unformed", "unprepared", "gate", "raised"}
  /\ UNCHANGED <<timeVars, attempts, shared, run, due, completed, fault, verdict>>

\* The child commits to the attempt, or names what came first.
Gate ==
  /\ at = "gate"
  /\ IF Cancelled /\ (~Reached(shared) \/ cancel <= shared) THEN Interrupted
     ELSE IF Reached(shared) THEN Exhausted
     ELSE at' = "launch" /\ UNCHANGED verdict
  /\ UNCHANGED <<timeVars, attempts, shared, run, due, completed, fault>>

\* The provider is started and dated, or stopped before it, or could not be started.
Launch ==
  /\ at = "launch"
  /\ LET whole == IF shared = None THEN now + Window ELSE shared IN
     \/ /\ run' = [NoRun EXCEPT !.started = TRUE, !.shared = whole,
                                !.deadline = Earlier(now + Timeout, whole)]
        /\ at' = "running"
     \/ /\ \E failed \in BOOLEAN :
             /\ ~failed => Cancelled \/ Reached(shared)
             /\ run' = [NoRun EXCEPT !.shared = shared, !.deadline = shared, !.failed = failed]
        /\ at' = "running"
     \/ Raise /\ UNCHANGED run
  /\ UNCHANGED <<timeVars, attempts, shared, due, completed, fault, verdict>>

\* The tree is gone and its output captured: the exit code, the events and whether the
\* final message was cut off; capture and supervision may have failed.
Capture ==
  /\ at = "running"
  /\ \/ /\ \E failed \in {run.failed, TRUE}, cut \in BOOLEAN, exit \in {None, 0, 1},
             events \in {"completed", "failed", "open", "invalid", "capped"} :
             /\ ~run.started => exit # 0 /\ events = "open" /\ ~cut
             /\ run.started => exit # None \/ failed
             /\ cut \/ events = "capped" => failed
             /\ run' = [run EXCEPT !.failed = failed, !.exit = exit, !.events = events,
                                   !.cut = cut, !.ready = now]
        /\ at' = "captured"
     \/ Raise /\ UNCHANGED run
  /\ UNCHANGED <<timeVars, attempts, shared, due, completed, fault, verdict>>

\* The child classifies; the answerer reads the captures back and the clock.
Settle ==
  /\ at = "captured"
  /\ \/ /\ run' = [run EXCEPT !.ready = now, !.outcome =
             Codex!MechanicalOutcome(run.failed, cancel, run.deadline, run.ready, run.exit)]
        /\ at' = "classify"
     \/ Raise /\ UNCHANGED run
  /\ UNCHANGED <<timeVars, attempts, shared, due, completed, fault, verdict>>

\* _attempt_from_evidence_v1: what decides before cancellation and deadline, and after.
Broken(r) == r.outcome = "process_error" \/ r.cut \/ r.events \in {"invalid", "capped"}
Remaining(r) ==
  IF r.outcome \in {"interrupted", "timeout"} THEN r.outcome
  ELSE IF r.outcome # "clean" \/ r.exit # 0 \/ r.events # "completed" THEN "process_error"
  ELSE "none"
\* (Mutant first: the deadline is looked at before the cancellation.)
FailureClassDeadlineFirst(r) ==
  IF Broken(r) THEN "process_error"
  ELSE IF r.deadline # None /\ r.deadline <= r.ready THEN "timeout"
  ELSE IF Cancelled /\ cancel <= r.ready /\ (r.deadline = None \/ cancel <= r.deadline)
    THEN "interrupted"
  ELSE Remaining(r)
FailureClass(r) ==
  IF Broken(r) THEN "process_error"
  ELSE IF Cancelled /\ cancel <= r.ready /\ (r.deadline = None \/ cancel <= r.deadline)
    THEN "interrupted"
  ELSE IF r.deadline # None /\ r.deadline <= r.ready THEN "timeout"
  ELSE Remaining(r)

Backoff(ordinal) == IF ordinal = 1 THEN FirstBackoff ELSE SecondBackoff

\* The attempt is recorded and decides what follows.
Classify ==
  /\ at = "classify"
  /\ LET class == FailureClass(run)
         ordinal == Len(attempts) + 1
     IN /\ attempts' = Append(attempts,
                       [class |-> class, sound |-> EvidenceAccepted(class, run.exit, run.events)])
        /\ shared' = run.shared
        /\ run' = [NoRun EXCEPT !.deadline = run.deadline]
        /\ CASE class = "timeout" /\ ordinal = 3 -> Exhausted /\ UNCHANGED due
             [] class = "timeout" /\ ordinal < 3 ->
                  at' = "poll" /\ due' = now + Backoff(ordinal) /\ UNCHANGED verdict
             [] class = "interrupted" -> Interrupted /\ UNCHANGED due
             [] class = "process_error" ->
                  /\ at' = "publish" /\ UNCHANGED due
                  /\ verdict' = [status |-> "failed", code |-> "codex_process_failed",
                                 pair |-> TRUE, overflow |-> run.cut \/ run.events = "capped"]
             [] class = "none" -> at' = "finish" /\ UNCHANGED <<due, verdict>>
  /\ UNCHANGED <<timeVars, completed, fault>>

\* _wait_retry_backoff_v1: the cancellation first, then the clock.
Poll ==
  /\ at = "poll"
  /\ IF Cancelled /\ cancel <= shared THEN Interrupted
                                      ELSE at' = "poll_clock" /\ UNCHANGED verdict
  /\ UNCHANGED <<timeVars, attempts, shared, run, due, completed, fault>>

PollClock ==
  /\ at = "poll_clock"
  /\ IF Reached(shared) THEN Exhausted
     ELSE at' = (IF due <= now THEN "window" ELSE "poll") /\ UNCHANGED verdict
  /\ UNCHANGED <<timeVars, attempts, shared, run, due, completed, fault>>

(************************** validation and rendering **************************)

Finish ==
  /\ at = "finish"
  /\ IF Cancelled THEN Interrupted ELSE at' = "validate" /\ UNCHANGED verdict
  /\ UNCHANGED <<timeVars, attempts, shared, run, due, completed, fault>>

Faults == [validate |-> {"none", "answer_output_invalid"},
           render   |-> {"none", "citation_link_construction_failed", "answer_rendering_failed"}]
Judging == [validate |-> "validated", render |-> "rendered"]

\* The work, and the moment at which it is complete.
Work ==
  /\ at \in DOMAIN Faults
  /\ fault' \in Faults[at] /\ completed' = now /\ at' = Judging[at]
  /\ UNCHANGED <<timeVars, attempts, shared, run, due, verdict>>

\* A cancellation not later than that moment wins over the result and over the fault.
Judge ==
  /\ at \in {"validated", "rendered"}
  /\ IF Cancelled /\ cancel <= completed THEN Interrupted
     ELSE IF fault # "none" THEN Verdict("failed", fault)
     ELSE IF at = "validated" THEN at' = "render" /\ UNCHANGED verdict
     ELSE Verdict("succeeded", "none")
  /\ UNCHANGED <<timeVars, attempts, shared, run, due, completed, fault>>

AnswererStep ==
  \/ Open \/ Look \/ LookAtClock \/ Form \/ Gate \/ Launch \/ Capture \/ Settle
  \/ Classify \/ Poll \/ PollClock \/ Finish \/ Work \/ Judge

=============================================================================
