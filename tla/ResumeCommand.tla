---------------------------- MODULE ResumeCommand ----------------------------
(***************************************************************************)
(* What the four stages of `work resume` share (_literature_resume.py,     *)
(* resume_work): one command at a time on a Work, its place in the         *)
(* pipeline, and the shape of a stage's run tree.  A stage keeps its runs  *)
(* in runs/<id> and the ones it is building in .staging/<id>; a run is     *)
(* made of one input, so a tree maps an ID to where the directory is, how  *)
(* far it got and the input it was made of.  IDs are handed out in order,  *)
(* where the code draws uuid4.                                             *)
(***************************************************************************)
EXTENDS Naturals, FiniteSets, Sequences

CONSTANT MaxRuns    \* bound: runs of one stage of the Work

ASSUME RunsAssumption == MaxRuns \in Nat \ {0}

VARIABLES
  pc,        \* where the command is; "idle" between two commands
  hand,      \* the run it has in hand
  attempts,  \* how each provider attempt of that run ended
  reason,    \* why that run stops short of a success
  advanced,  \* the stages it has advanced
  result,    \* what it reported, "none" before it has
  release,   \* the OCR profile of the installed release
  unfit,     \* the successes that the stage after them cannot use
  \* what a stage hands to the next one: the run its current.json names
  ocrCurrent, canonicalCurrent, semanticCurrent

command == <<pc, hand, attempts, reason, advanced, result, release>>

Stages == {"ocr", "canonicalize", "read"}
NoRun  == 0
Torn   == MaxRuns + 1     \* a pointer file whose bytes are not all there
Runs   == 1..MaxRuns
Inputs == 0..MaxRuns      \* a release, or a run of the stage before

Absent == [at |-> "none", state |-> "none", of |-> 0]
Dirs(states) == [at : {"staging", "runs"}, state : states, of : Inputs]
Trees(states) == [Runs -> {Absent} \union Dirs(states)]
EmptyTree == [r \in Runs |-> Absent]

Staged(tree)  == {r \in Runs : tree[r].at = "staging"}
Formal(tree)  == {r \in Runs : tree[r].at = "runs"}
Whole(tree)   == {r \in Runs : tree[r].state = "succeeded"}
Made(tree, input) == {r \in Whole(tree) : tree[r].of = input}
Free(tree)    == Runs \ (Staged(tree) \union Formal(tree))

\* The run an uuid4 draws: the next one, so that IDs tell the order of the runs.
IsNext(tree, r) == r \in Free(tree) /\ \A s \in Free(tree) : r <= s

Mkdir(tree, r, input)   == [tree EXCEPT ![r] = [at |-> "staging", state |-> "partial", of |-> input]]
Becomes(tree, r, state) == [tree EXCEPT ![r].state = state]
Renamed(tree, r)        == [tree EXCEPT ![r].at = "runs"]

Goto(label, run) ==
  pc' = label /\ hand' = run /\ UNCHANGED <<attempts, reason, advanced, result, release>>

\* A stage hands over to the next one, with the advance it made if any.
HandOver(label, stages) ==
  /\ pc' = label /\ hand' = NoRun /\ attempts' = <<>> /\ reason' = "none"
  /\ advanced' = advanced \union stages
  /\ UNCHANGED <<result, release>>

\* The run in hand goes on to the terminal step a reason asks for.
Ends(label, why) ==
  pc' = label /\ reason' = why /\ UNCHANGED <<hand, advanced, result, release>>

LastAttempt == attempts[Len(attempts)]

\* Whether a success is of use depends on what is in it alone: the stage after it finds
\* the same every time it looks.
Links == {"ocr", "canonical", "semantic"}
Unfit(link, run) == <<link, run>> \in unfit

\* The command ends; owner.close() releases the Work.
Stop(code) ==
  /\ pc' = "idle" /\ hand' = NoRun /\ attempts' = <<>> /\ reason' = "none" /\ result' = code
  /\ UNCHANGED <<advanced, release>>

=============================================================================
