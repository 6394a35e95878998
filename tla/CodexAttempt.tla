---------------------------- MODULE CodexAttempt ----------------------------
(***************************************************************************)
(* What one Codex attempt promises to its caller.  It is refused before it *)
(* is committed to, or it is committed to and ends exactly once, with no   *)
(* process of its tree left.  The prompt goes only to a process that was   *)
(* started under a deadline.  A cancellation that was visible when the     *)
(* evidence was captured is never reported as an ordinary exit, and an     *)
(* ordinary exit had the whole prompt.                                     *)
(***************************************************************************)
EXTENDS Naturals

CONSTANTS Prompt, None

Reached(time, now) == time # None /\ time <= now

\* How the evidence of an attempt that ended is classified: a failure first, then
\* a cancellation within the deadline, then the deadline, then the exit code.
MechanicalOutcome(failed, cancel, deadline, ready, code) ==
  CASE failed -> "process_error"
    [] ~failed /\ Reached(cancel, ready) /\ (deadline = None \/ cancel <= deadline) -> "interrupted"
    [] ~failed /\ ~(Reached(cancel, ready) /\ (deadline = None \/ cancel <= deadline)) ->
         IF Reached(deadline, ready) THEN "timeout"
         ELSE IF code \in {None, 0} THEN "clean" ELSE "provider_or_process_exit"

Ordinary == {"clean", "provider_or_process_exit"}
Outcomes == Ordinary \union {"process_error", "interrupted", "timeout"}

VARIABLES
  phase,      \* "prepared", "rejected", "committed", "launched", "started", "captured", "ended"
  running,    \* a process of the tree exists
  delivered,  \* parts of the prompt handed to the tree
  cancelled,  \* a cancellation is visible
  early,      \* it was when the evidence was captured
  outcome     \* "none", one of Outcomes, or "unsafe"

attemptVars == <<phase, running, delivered, cancelled, early, outcome>>

AttemptInit ==
  /\ phase = "prepared" /\ running = FALSE /\ delivered = 0
  /\ cancelled = FALSE /\ early = FALSE /\ outcome = "none"

Cancel ==
  /\ ~cancelled /\ cancelled' = TRUE
  /\ UNCHANGED <<phase, running, delivered, early, outcome>>

Reject ==
  /\ phase = "prepared" /\ phase' = "rejected"
  /\ UNCHANGED <<running, delivered, cancelled, early, outcome>>

Commit ==
  /\ phase = "prepared" /\ phase' = "committed"
  /\ UNCHANGED <<running, delivered, cancelled, early, outcome>>

Launch ==
  /\ phase = "committed" /\ phase' = "launched" /\ running' = TRUE
  /\ UNCHANGED <<delivered, cancelled, early, outcome>>

Begin ==
  /\ phase = "launched" /\ phase' = "started"
  /\ UNCHANGED <<running, delivered, cancelled, early, outcome>>

Deliver ==
  /\ phase = "started" /\ running /\ delivered < Prompt
  /\ delivered' = delivered + 1
  /\ UNCHANGED <<phase, running, cancelled, early, outcome>>

\* The last process of the tree ends.
Expire ==
  /\ running /\ running' = FALSE
  /\ UNCHANGED <<phase, delivered, cancelled, early, outcome>>

Capture ==
  /\ phase \in {"committed", "launched", "started"} /\ ~running
  /\ phase' = "captured" /\ early' = cancelled
  /\ UNCHANGED <<running, delivered, cancelled, outcome>>

End ==
  /\ phase = "captured" /\ phase' = "ended"
  /\ outcome' \in Outcomes \union {"unsafe"}
  /\ outcome' \in Ordinary => delivered = Prompt /\ ~early
  /\ outcome' = "interrupted" => cancelled
  /\ UNCHANGED <<running, delivered, cancelled, early>>

\* The evidence cannot be secured: the caller is told to hold the attempt.
Hold ==
  /\ phase \in {"committed", "launched", "started"} /\ ~running
  /\ phase' = "ended" /\ outcome' = "unsafe"
  /\ UNCHANGED <<running, delivered, cancelled, early>>

AttemptNext ==
  \/ Cancel \/ Reject \/ Commit \/ Launch \/ Begin \/ Deliver \/ Expire
  \/ Capture \/ End \/ Hold

AttemptSpec == AttemptInit /\ [][AttemptNext]_attemptVars

=============================================================================
