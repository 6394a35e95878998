------------------------- MODULE CodexChildProcess -------------------------
(***************************************************************************)
(* One Codex attempt (_codex_child_process.py): the supervisor, the two    *)
(* worker threads that feed stdin and drain stdout, the suspended root     *)
(* process with a descendant of its own in one Job, the two pipes, the     *)
(* final message file, a clock, and a cancellation that is stamped first   *)
(* and becomes visible later.                                              *)
(*                                                                         *)
(* The supervisor polls; each read of its loop is a step of its own, since *)
(* everything may move between them.  Chunks of the prompt and of stdout   *)
(* are counted, each pipe holds one write.  A system call that fails is a  *)
(* choice where the code has a branch for it; later failures of a read     *)
(* whose first failure has been recorded only repeat it and are left out.  *)
(***************************************************************************)
EXTENDS Naturals

CONSTANTS
  Prompt,      \* chunks of the prompt
  EventsCap,   \* chunks of stdout that are kept
  MaxOut,      \* bound: chunks the tree writes to stdout
  Timeout,     \* time one attempt may take
  Shared,      \* shared deadlines that may exist already, and None
  None

ASSUME BoundsAssumption ==
  /\ {Prompt, EventsCap, MaxOut, Timeout} \subseteq Nat
  /\ Prompt > 0
  /\ None \in Shared /\ Shared \ {None} \subseteq Nat
  /\ None \notin Nat \union [at : Nat, cancelled : BOOLEAN]

VARIABLES
  pc,          \* the step the supervisor is at
  release,     \* "held" until the workers are activated, or "rejected"
  signals,     \* those of go and abort that are set
  root, descendant,  \* the two processes of the tree
  assigned,    \* the root is in the Job
  killed,      \* the tree was told to terminate
  duplicates,  \* the supervisor holds the child's ends of the pipes
  stdin, stdout,  \* writes in the pipes
  sent,        \* chunks of the prompt written
  written, kept,  \* chunks of stdout read, and kept of them
  writer, collector,  \* the two threads
  facts,       \* what they published: writer failure, collector failure, overflow
  final,       \* the final message: still the tree's, or taken within or over the limit
  seen,        \* what the running iteration of the loop has read
  structural,  \* a structural failure is recorded
  unsafe,      \* ownership of a resource is uncertain
  stopped,     \* a stop was requested
  stopFailed,  \* and the system refused it
  started, deadline,  \* when the provider was started, the active deadline
  ready,       \* when the evidence was captured, and what was visible then
  outcome,     \* of the attempt
  now, cancel  \* the clock, and the cancellation that is visible

treeVars == <<root, descendant, assigned, killed>>
pipeVars == <<duplicates, stdin, stdout, sent, written, kept>>
threadVars == <<release, signals, writer, collector, facts>>
stopVars == <<structural, unsafe, stopped, stopFailed>>
timeVars == <<now, cancel>>
endVars == <<started, deadline, ready, outcome>>
vars == <<pc, treeVars, pipeVars, threadVars, final, seen, stopVars, timeVars, endVars>>

Attempt == INSTANCE CodexAttempt WITH
  phase <- CASE pc \in {"prepare", "gate"}     -> "prepared"
             [] pc \in {"cleanup", "rejected"} -> "rejected"
             [] pc = "classify"                -> "captured"
             [] pc = "done"                    -> "ended"
             [] OTHER -> IF started # None THEN "started"
                         ELSE IF root # "none" THEN "launched" ELSE "committed",
  running <- root \notin {"none", "exited"} \/ descendant # "none",
  delivered <- sent,
  cancelled <- cancel # None,
  early <- ready # None /\ ready.cancelled

Alive(process) == process \in {"suspended", "running"}
TreeAlive == Alive(root) \/ descendant # "none"
PipesOpen == duplicates \/ Alive(root) \/ descendant = "running"
JobEmpty == ~assigned \/ ~TreeAlive
Reached(time) == time # None /\ time <= now
Earlier(a, b) == IF b = None \/ a <= b THEN a ELSE b

NothingSeen == [due |-> FALSE, workersDone |-> FALSE,
                jobEmpty |-> FALSE, root |-> FALSE, witness |-> FALSE]

TypeOK ==
  /\ pc \in {"prepare", "gate", "cleanup", "rejected", "create", "assign", "close", "kill",
             "resume_gate", "resume", "start", "observe", "job", "decide", "stop",
             "finish", "classify", "done"}
  /\ release \in {"held", "active", "rejected"} /\ signals \subseteq {"go", "abort"}
  /\ root \in {"none", "suspended", "running", "exited"}
  /\ descendant \in {"none", "running", "detached"}
  /\ assigned \in BOOLEAN /\ killed \in BOOLEAN /\ duplicates \in BOOLEAN
  /\ structural \in BOOLEAN /\ unsafe \in BOOLEAN
  /\ stopped \in BOOLEAN /\ stopFailed \in BOOLEAN
  /\ stdin \in 0..1 /\ stdout \in 0..1 /\ sent \in 0..Prompt
  /\ written \in 0..MaxOut /\ kept \in 0..EventsCap
  /\ writer \in {"open", "done"} /\ collector \in {"open", "done"}
  /\ facts \subseteq {"writer_failure", "collector_failure", "overflow"}
  /\ final \in {"open", "within", "over"}
  /\ now \in Nat /\ cancel \in Nat \union {None}
  /\ started \in Nat \union {None} /\ deadline \in Nat \union {None}
  /\ seen \in [due : BOOLEAN, workersDone : BOOLEAN, jobEmpty : BOOLEAN, root : BOOLEAN,
               witness : BOOLEAN]
  /\ ready \in [at : Nat, cancelled : BOOLEAN] \union {None}
  /\ outcome \in Attempt!Outcomes \union {"none", "unsafe"}

Init ==
  /\ pc = "prepare" /\ release = "held" /\ signals = {}
  /\ root = "none" /\ descendant = "none" /\ assigned = FALSE /\ killed = FALSE
  /\ duplicates = FALSE /\ stdin = 0 /\ stdout = 0 /\ sent = 0 /\ written = 0 /\ kept = 0
  /\ writer = "open" /\ collector = "open" /\ facts = {} /\ final = "open"
  /\ seen = NothingSeen
  /\ structural = FALSE /\ unsafe = FALSE /\ stopped = FALSE /\ stopFailed = FALSE
  /\ started = None /\ deadline \in Shared /\ ready = None /\ outcome = "none"
  /\ now = 0 /\ cancel = None

(************************** the supervisor: commit **************************)

\* _prepare_attempt: staging directory, pipes, Job, the two parked workers.
Prepare ==
  /\ pc = "prepare"
  /\ \/ pc' = "gate" /\ duplicates' = TRUE
     \/ pc' = "rejected" /\ UNCHANGED duplicates
  /\ UNCHANGED <<treeVars, stdin, stdout, sent, written, kept, threadVars, final, seen,
                 stopVars, timeVars, endVars>>

\* The last look before the attempt is committed to; the cleanup lets the workers go.
Gate ==
  /\ pc = "gate"
  /\ IF cancel # None \/ Reached(deadline)
       THEN /\ pc' = "cleanup" /\ release' = "rejected" /\ duplicates' = FALSE
       ELSE pc' = "create" /\ UNCHANGED <<release, duplicates>>
  /\ UNCHANGED <<treeVars, stdin, stdout, sent, written, kept, signals, writer, collector,
                 facts, final, seen, stopVars, timeVars, endVars>>

Cleanup ==
  /\ pc = "cleanup" /\ writer = "done" /\ collector = "done"
  /\ pc' = "rejected"
  /\ UNCHANGED <<treeVars, pipeVars, threadVars, final, seen, stopVars, timeVars, endVars>>

\* CreateProcessW creates the root suspended, refuses, or raises with the handles of
\* a suspended root filled in: such a root is contained directly and never assigned.
Create ==
  /\ pc = "create" /\ release' = "active"
  /\ \/ root' = "suspended" /\ pc' = "assign" /\ UNCHANGED structural
     \/ root' \in {"none", "suspended"} /\ pc' = "close" /\ structural' = TRUE
  /\ UNCHANGED <<descendant, assigned, killed, pipeVars, signals, writer, collector, facts,
                 final, seen, unsafe, stopped, stopFailed, timeVars, endVars>>

Assign ==
  /\ pc = "assign" /\ pc' = "close"
  /\ assigned' \in BOOLEAN /\ structural' = (structural \/ ~assigned')
  /\ UNCHANGED <<root, descendant, killed, pipeVars, threadVars, final, seen, unsafe,
                 stopped, stopFailed, timeVars, endVars>>

\* The supervisor drops the child's ends of the pipes.  What it then does depends on
\* how far the creation got.
\* (Mutant first: the ends are kept.)
CloseKeeps ==
  /\ pc = "close"
  /\ unsafe' \in BOOLEAN /\ structural' = (structural \/ unsafe')
  /\ pc' = IF assigned THEN "resume_gate" ELSE IF root = "none" THEN "observe" ELSE "kill"
  /\ signals' = IF assigned THEN signals ELSE signals \union {"abort"}
  /\ stopped' = (~assigned /\ unsafe')
  /\ UNCHANGED <<treeVars, pipeVars, release, writer, collector, facts, final, seen,
                 stopFailed, timeVars, endVars>>
CloseDuplicates ==
  /\ pc = "close"
  /\ unsafe' \in BOOLEAN /\ structural' = (structural \/ unsafe')
  /\ duplicates' = FALSE
  /\ pc' = IF assigned THEN "resume_gate" ELSE IF root = "none" THEN "observe" ELSE "kill"
  /\ signals' = IF assigned THEN signals ELSE signals \union {"abort"}
  /\ stopped' = (~assigned /\ unsafe')
  /\ UNCHANGED <<treeVars, stdin, stdout, sent, written, kept, release, writer, collector,
                 facts, final, seen, stopFailed, timeVars, endVars>>

\* TerminateProcess on a suspended root that is in no Job.
KillRoot ==
  /\ pc = "kill" /\ pc' = "observe"
  /\ \/ killed' = TRUE /\ UNCHANGED <<structural, stopFailed>>
     \/ structural' = TRUE /\ stopFailed' = TRUE /\ UNCHANGED killed
  /\ UNCHANGED <<root, descendant, assigned, pipeVars, threadVars, final, seen, unsafe,
                 stopped, timeVars, endVars>>

\* The second gate, with the root in the Job and still suspended.
Refuse ==
  /\ stopped' = TRUE /\ signals' = signals \union {"abort"} /\ pc' = "stop"
ResumeGate ==
  /\ pc = "resume_gate"
  /\ IF structural \/ cancel # None \/ Reached(deadline)
       THEN Refuse
       ELSE pc' = "resume" /\ UNCHANGED <<stopped, signals>>
  /\ UNCHANGED <<treeVars, pipeVars, release, writer, collector, facts, final, seen,
                 structural, unsafe, stopFailed, timeVars, endVars>>

Resume ==
  /\ pc = "resume"
  /\ \/ root' = "running" /\ pc' = "start" /\ UNCHANGED <<structural, stopped, signals>>
     \/ Refuse /\ structural' = TRUE /\ UNCHANGED root
  /\ UNCHANGED <<descendant, assigned, killed, pipeVars, release, writer, collector, facts,
                 final, seen, unsafe, stopFailed, timeVars, endVars>>

\* The provider's start is dated, the deadlines follow from it, the prompt may go.
Date ==
  /\ started' = now /\ deadline' = Earlier(now + Timeout, deadline)
Start ==
  /\ pc = "start"
  /\ \/ Date /\ signals' = signals \union {"go"} /\ pc' = "observe" /\ UNCHANGED <<structural, stopped>>
     \/ Refuse /\ structural' = TRUE /\ (Date \/ UNCHANGED <<started, deadline>>)
  /\ UNCHANGED <<treeVars, pipeVars, release, writer, collector, facts, final, seen, unsafe,
                 stopFailed, timeVars, ready, outcome>>

(*************************** the supervisor: loop ***************************)

\* Cancellation, clock and worker facts are read.  (A failing read of the clock or of
\* the cancellation is a structural failure, like the failing query below; an overflow
\* of stdout stops and classifies the attempt like one.)
Observe ==
  /\ pc = "observe" /\ pc' = "job"
  /\ seen' = [seen EXCEPT !.due = cancel # None \/ Reached(deadline),
                          !.workersDone = writer = "done" /\ collector = "done"]
  /\ structural' = (structural \/ facts # {})
  /\ UNCHANGED <<treeVars, pipeVars, threadVars, final, unsafe, stopped, stopFailed,
                 timeVars, endVars>>

QueryJob ==
  /\ pc = "job" /\ pc' = "decide"
  /\ \/ seen' = [seen EXCEPT !.jobEmpty = JobEmpty] /\ UNCHANGED structural
     \/ /\ ~structural /\ structural' = TRUE
        /\ seen' = [seen EXCEPT !.jobEmpty = FALSE]
  /\ UNCHANGED <<treeVars, pipeVars, threadVars, final, unsafe, stopped, stopFailed,
                 timeVars, endVars>>

\* The root is looked at, and while the Job has processes the final message.  A
\* cancellation, a deadline, a structural failure or an overflow requests the stop,
\* once; the writer is told before the tree is terminated.  The loop ends when the
\* root, the Job and both workers have been seen to be done.
RootNow == seen.root \/ ~Alive(root)
HasRun == root # "suspended"   \* the tree may have written a final message
DueNow == seen.due \/ structural \/ seen'.witness
AllDone == RootNow /\ seen.jobEmpty /\ seen.workersDone
Remember ==
  \E over \in {FALSE, HasRun /\ ~seen.jobEmpty} :
    seen' = [NothingSeen EXCEPT !.root = RootNow, !.witness = seen.witness \/ over]

\* Mutants: the writer is not told; the loop does not wait for the Job.
DecideForgetsWriter ==
  /\ pc = "decide" /\ Remember
  /\ stopped' = (stopped \/ DueNow)
  /\ pc' = IF ~stopped /\ stopped' /\ assigned /\ ~seen.jobEmpty THEN "stop"
           ELSE IF AllDone THEN "finish" ELSE "observe"
  /\ UNCHANGED <<treeVars, pipeVars, threadVars, final, structural, unsafe, stopFailed,
                 timeVars, endVars>>
DecideLeavesJob ==
  /\ pc = "decide" /\ Remember
  /\ stopped' = (stopped \/ DueNow)
  /\ signals' = IF stopped' THEN signals \union {"abort"} ELSE signals
  /\ pc' = IF ~stopped /\ stopped' /\ assigned /\ ~seen.jobEmpty THEN "stop"
           ELSE IF RootNow /\ seen.workersDone THEN "finish" ELSE "observe"
  /\ UNCHANGED <<treeVars, pipeVars, release, writer, collector, facts, final, structural,
                 unsafe, stopFailed, timeVars, endVars>>
Decide ==
  /\ pc = "decide" /\ Remember
  /\ stopped' = (stopped \/ DueNow)
  /\ signals' = IF stopped' THEN signals \union {"abort"} ELSE signals
  /\ pc' = IF ~stopped /\ stopped' /\ assigned /\ ~seen.jobEmpty THEN "stop"
           ELSE IF AllDone THEN "finish" ELSE "observe"
  /\ UNCHANGED <<treeVars, pipeVars, release, writer, collector, facts, final, structural,
                 unsafe, stopFailed, timeVars, endVars>>

\* TerminateJobObject, which is not tried again.
Stop ==
  /\ pc = "stop" /\ pc' = "observe"
  /\ \/ killed' = TRUE /\ UNCHANGED <<structural, stopFailed>>
     \/ structural' = TRUE /\ stopFailed' = TRUE /\ UNCHANGED killed
  /\ UNCHANGED <<root, descendant, assigned, pipeVars, threadVars, final, seen, unsafe,
                 stopped, timeVars, endVars>>

(**************************** the supervisor: end ****************************)

\* The workers are joined, the final message is taken and deleted, the captures are
\* installed, and the moment at which all of this stands is read from the clock.  An
\* overflow seen by the probe must be confirmed; an overflow of stdout must have kept
\* the whole prefix.  Anything else that goes wrong here leaves no evidence either.
TakeFinal ==
  /\ final' \in {"within", "over"}
  /\ seen.witness => final' = "over"
EventsAreExact == "overflow" \in facts => kept = EventsCap
Finish ==
  /\ pc = "finish" /\ writer = "done" /\ collector = "done"
  /\ \/ /\ TakeFinal /\ EventsAreExact
        /\ ready' = [at |-> now, cancelled |-> cancel # None]
        /\ structural' \in {structural, TRUE}
        /\ pc' = "classify" /\ UNCHANGED outcome
     \/ /\ outcome' = "unsafe" /\ pc' = "done" /\ UNCHANGED <<ready, structural, final>>
  /\ UNCHANGED <<treeVars, pipeVars, threadVars, seen, unsafe, stopped, stopFailed,
                 timeVars, started, deadline>>

\* The cancellation is looked at once more, after the clock; what the root exited
\* with is its own affair.
OutcomeAt(cancelled, code) ==
  Attempt!MechanicalOutcome(structural \/ facts # {} \/ final = "over",
                            cancelled, deadline, ready.at, code)
\* (Mutant first: it is not looked at.)
ClassifyIgnoresCancel ==
  /\ pc = "classify" /\ pc' = "done"
  /\ \E code \in {0, 1} : outcome' = IF unsafe THEN "unsafe" ELSE OutcomeAt(None, code)
  /\ UNCHANGED <<treeVars, pipeVars, threadVars, final, seen, stopVars, timeVars, started,
                 deadline, ready>>
Classify ==
  /\ pc = "classify" /\ pc' = "done"
  /\ \E code \in {0, 1} : outcome' = IF unsafe THEN "unsafe" ELSE OutcomeAt(cancel, code)
  /\ UNCHANGED <<treeVars, pipeVars, threadVars, final, seen, stopVars, timeVars, started,
                 deadline, ready>>

(******************************** the workers ********************************)

\* The writer waits for go or abort; abort comes first.  Between two writes it looks
\* for the abort again, and after a write that failed once more.
Told == "abort" \in signals \/ release = "rejected"
MayWrite == writer = "open" /\ ~Told /\ "go" \in signals /\ sent < Prompt

WriteChunk ==
  /\ MayWrite /\ PipesOpen /\ stdin = 0
  /\ stdin' = 1 /\ sent' = sent + 1
  /\ UNCHANGED <<pc, treeVars, duplicates, stdout, written, kept, threadVars, final, seen,
                 stopVars, timeVars, endVars>>

\* Mutant: a write that fails is the end of the prompt.
WriteForgives ==
  /\ MayWrite /\ ~PipesOpen /\ writer' = "done"
  /\ UNCHANGED <<pc, treeVars, pipeVars, release, signals, collector, facts, final, seen,
                 stopVars, timeVars, endVars>>
WriteFails ==
  /\ MayWrite /\ ~PipesOpen /\ writer' = "done" /\ facts' = facts \union {"writer_failure"}
  /\ UNCHANGED <<pc, treeVars, pipeVars, release, signals, collector, final, seen, stopVars,
                 timeVars, endVars>>

\* A write that is blocked cannot see the abort until the pipe breaks or has room.
WriterEnds ==
  /\ writer = "open" /\ writer' = "done"
  /\ sent = Prompt \/ (Told /\ (stdin = 0 \/ ~PipesOpen))
  /\ UNCHANGED <<pc, treeVars, pipeVars, release, signals, collector, facts, final, seen,
                 stopVars, timeVars, endVars>>

\* One read of stdout, of one chunk or two; what exceeds the cap is dropped and
\* reported at once, after a failed write to the capture nothing is kept any more.
KeepOf(size) == IF size <= EventsCap - kept THEN size ELSE EventsCap - kept
DrainOnly == facts \intersect {"collector_failure", "overflow"} # {}
Drain ==
  /\ collector = "open" /\ release = "active" /\ stdout = 1 /\ stdout' = 0
  /\ \E size \in 1..2 : LET over == IF KeepOf(size) < size THEN {"overflow"} ELSE {} IN
       /\ written + size <= MaxOut /\ written' = written + size
       /\ \/ /\ ~DrainOnly /\ kept' = kept + KeepOf(size) /\ facts' = facts \union over
          \/ /\ ~DrainOnly /\ KeepOf(size) > 0 /\ UNCHANGED kept
             /\ facts' = facts \union over \union {"collector_failure"}
          \/ /\ DrainOnly /\ facts' = facts \union over /\ UNCHANGED kept
  /\ UNCHANGED <<pc, treeVars, duplicates, stdin, sent, release, signals, writer,
                 collector, final, seen, stopVars, timeVars, endVars>>

\* All write ends are closed (or the attempt was refused before it began).
EndOfStream ==
  /\ collector = "open" /\ release # "held" /\ stdout = 0 /\ ~PipesOpen
  /\ collector' = "done"
  /\ UNCHANGED <<pc, treeVars, pipeVars, release, signals, writer, facts, final, seen,
                 stopVars, timeVars, endVars>>

(*************************** the tree and the time ***************************)

\* A process of the tree does as it likes: the supervisor only knows that it ends.
MayAct(process) == process = "running" /\ ~killed
TreeActs == MayAct(root) \/ MayAct(descendant)

ReadPrompt ==
  /\ MayAct(root) /\ stdin = 1 /\ stdin' = 0
  /\ UNCHANGED <<pc, treeVars, duplicates, stdout, sent, written, kept, threadVars, final,
                 seen, stopVars, timeVars, endVars>>
WriteOut ==
  /\ TreeActs /\ stdout = 0 /\ stdout' = 1 /\ written < MaxOut
  /\ UNCHANGED <<pc, treeVars, duplicates, stdin, sent, written, kept, threadVars, final,
                 seen, stopVars, timeVars, endVars>>
\* A descendant is told apart from the root only when it survives it, with the pipes
\* or, detached, without them.
Exits ==
  /\ \/ root = "running" /\ root' = "exited" /\ descendant' \in {"none", "running", "detached"}
     \/ root = "suspended" /\ killed /\ root' = "exited" /\ UNCHANGED descendant
     \/ descendant # "none" /\ descendant' = "none" /\ UNCHANGED root
  /\ UNCHANGED <<pc, assigned, killed, pipeVars, threadVars, final, seen, stopVars,
                 timeVars, endVars>>

\* The clock.  Time matters only against a deadline, until it has passed it.
Tick ==
  /\ deadline # None /\ now <= deadline
  /\ pc \notin {"rejected", "done"}
  /\ now' = now + 1
  /\ UNCHANGED <<pc, treeVars, pipeVars, threadVars, final, seen, stopVars, cancel, endVars>>
\* A cancellation becomes visible some time after the moment it is dated at.  (Once a
\* stop is requested nobody looks before the evidence is captured: one that becomes
\* visible in between is left to become visible then.)
Cancel ==
  /\ stopped => pc \in {"finish", "classify"}
  /\ pc \notin {"rejected", "done"} /\ cancel = None /\ cancel' \in 0..now
  /\ UNCHANGED <<pc, treeVars, pipeVars, threadVars, final, seen, stopVars, now, endVars>>

Supervisor ==
  \/ Observe \/ QueryJob \/ Decide \/ Stop \/ Finish \/ Classify
  \/ Prepare \/ Gate \/ Cleanup \/ Create \/ Assign \/ CloseDuplicates \/ KillRoot
  \/ ResumeGate \/ Resume \/ Start
Writer == WriteChunk \/ WriteFails \/ WriterEnds
Collector == Drain \/ EndOfStream
Tree == ReadPrompt \/ WriteOut \/ Exits

Next == Supervisor \/ Writer \/ Collector \/ Tree \/ Tick \/ Cancel

\* The threads run, time passes, and Windows ends what it was told to terminate.
\* Nothing is assumed of a provider that runs.
Fairness ==
  /\ WF_vars(Supervisor) /\ WF_vars(Writer) /\ WF_vars(Collector) /\ WF_vars(Tick)
  /\ WF_vars(killed /\ Exits)

Spec == Init /\ [][Next]_vars /\ Fairness

(******************************** properties ********************************)

\* Whatever the outcome, the caller gets it with no process of the tree left, both
\* workers at their end, nothing in the pipe to the collector and the child's pipe
\* ends closed (the resource ledger at zero).
TreeIsGone ==
  pc \in {"rejected", "done"} =>
    ~TreeAlive /\ ~duplicates /\ (writer = "done") = (collector = "done")
    /\ (pc = "done" => writer = "done" /\ stdout = 0)

\* An ordinary exit is reported only for an attempt that nobody stopped, that was
\* given the whole prompt and whose output was kept to the last chunk.
OrdinaryExitIsComplete ==
  outcome \in Attempt!Ordinary =>
    ~stopped /\ sent = Prompt /\ kept = written /\ final # "over"

\* Terminating the tree breaks the pipe under the writer; that never shows up as a
\* delivery failure of the provider, which would hide the timeout or the
\* cancellation that the tree was terminated for.
DeliveryFailureIsGenuine ==
  [][WriteFails => ~killed]_vars

\* The inductive invariant.  Before the attempt is committed to there is no process, and
\* the workers are parked.
EarlyInv ==
  /\ pc \in {"prepare", "gate", "cleanup", "rejected", "create"} =>
       /\ root = "none" /\ descendant = "none" /\ ~assigned /\ ~killed /\ ~seen.root
       /\ signals = {} /\ started = None /\ sent = 0 /\ stdout = 0
  /\ pc \in {"prepare", "gate", "create"} =>
       release = "held" /\ writer = "open" /\ collector = "open"
  /\ pc = "rejected" =>
       \/ release = "held" /\ writer = "open" /\ collector = "open"
       \/ release = "rejected" /\ writer = "done" /\ collector = "done"
  /\ pc \notin {"prepare", "gate", "create", "rejected"} => release # "held"
  /\ pc = "cleanup" => release = "rejected"
  /\ pc \in {"assign", "close"} => signals = {}
  /\ pc \in {"prepare", "gate", "cleanup", "rejected", "create", "assign", "close"} => ~stopped
  /\ release = "rejected" => pc \in {"cleanup", "rejected"}
  /\ duplicates => pc \in {"gate", "create", "assign", "close"}
\* The root runs only in the Job, and only then it has descendants.
RootInv ==
  /\ pc \in {"assign", "resume_gate", "resume"} => root = "suspended"
  /\ pc \in {"assign", "close", "resume_gate", "resume"} => ~killed
  /\ pc = "assign" => ~assigned
  /\ pc = "close" /\ assigned => root = "suspended"
  /\ pc \in {"resume_gate", "resume", "start", "stop"} => assigned
  /\ ~assigned => root # "running" /\ descendant = "none"
  /\ started # None \/ pc = "start" => root \in {"running", "exited"}
  /\ started # None => pc \in {"observe", "job", "decide", "stop", "finish", "classify", "done"}
  /\ "go" \in signals => started # None
\* The writer is told to give up before the tree is terminated, and never without a cause.
TellInv ==
  /\ killed \/ pc \in {"kill", "stop"} => "abort" \in signals
  /\ "abort" \in signals \/ (pc = "close" /\ ~assigned) => structural \/ stopped
\* What the loop has read is still so when it is used.
SeenInv ==
  /\ seen.due => cancel # None \/ Reached(deadline)
  /\ seen.root => ~Alive(root)
  /\ seen.jobEmpty => pc = "decide" /\ JobEmpty
  /\ seen.workersDone => writer = "done" /\ collector = "done"
  /\ collector = "done" => ~PipesOpen /\ stdout = 0
  /\ pc \in {"finish", "classify", "done"} => ~TreeAlive /\ writer = "done" /\ collector = "done"
\* A stop had a cause, which the classification will see.
CauseInv ==
  /\ cancel # None => cancel <= now
  /\ pc \notin {"classify", "done"} /\ stopped =>
       structural \/ cancel # None \/ Reached(deadline) \/ seen.witness
  /\ pc = "classify" =>
       /\ ready # None
       /\ ready.cancelled => cancel # None /\ cancel <= ready.at
       /\ stopped => \/ structural \/ final = "over" \/ ready.cancelled
                     \/ deadline # None /\ deadline <= ready.at
  /\ ready # None => pc \in {"classify", "done"}
  /\ outcome # "none" => pc = "done"
\* Nothing of the prompt or the output is missing without a fact that says so.
OutputInv ==
  /\ writer = "done" => sent = Prompt \/ "writer_failure" \in facts \/ Told
  /\ kept = written \/ "overflow" \in facts \/ "collector_failure" \in facts
IInv ==
  /\ TypeOK /\ EarlyInv /\ RootInv /\ TellInv /\ SeenInv /\ CauseInv /\ OutputInv
  /\ OrdinaryExitIsComplete

\* Every attempt ends, unless the system refuses to terminate its tree.
AttemptEnds == []<>(pc \in {"rejected", "done"} \/ stopFailed)

\* The attempt implements what it promises its caller.
ImplementsAttempt == Attempt!AttemptSpec

=============================================================================
