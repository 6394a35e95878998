-------------------------- MODULE CandidateReview --------------------------
(***************************************************************************)
(* _literature_review.py: how Literature carries the human's decisions on  *)
(* the Candidates of one Work over to Knowledge.  Two commands write here, *)
(* "literature review", which decides on one Candidate, and "literature    *)
(* resume", which decides nothing and continues what was decided for all   *)
(* Candidates.  The Work writer mutex admits one command at a time; one    *)
(* that finds it taken ends without an effect and is no step here.         *)
(*                                                                         *)
(* Knowledge is its abstract Registry, which KnowledgeIntake implements.   *)
(* A file is published by writing it aside and renaming it, in one step.   *)
(* What a failed publication leaves aside is no state here: all it does is *)
(* make a later resume stop, and a command may stop at any step anyway.    *)
(***************************************************************************)
EXTENDS Naturals, Sequences

CONSTANTS
  Candidates,    \* numbered in the order of their IDs
  MaxRevision,   \* the bound on the revisions of each; 2^63 - 1 in the code
  None

ASSUME ReviewAssumption ==
  /\ Candidates \subseteq Nat
  /\ MaxRevision \in [Candidates -> Nat \ {0}]

VARIABLES
  decisions,   \* reviews/<candidate>/<revision>.json, the status of each revision
  pointed,     \* the revision that current.json names, 0 when there is none
  noActions,   \* the revisions with a no_actions/ receipt
  handoffs,    \* the revisions with a formal Handoff
  attempts,    \* the revisions with an import_attempts/ file
  receipts,    \* the revisions with an imports/ receipt
  recorded,    \* the Handoffs in the Candidate Registry of Knowledge
  pc,          \* where the command is
  command,     \* the command, None between two of them
  plan,        \* the obligations it still has to meet
  then,        \* where it goes after the last of them
  settled      \* the Candidates that the last command reported as done

disk  == <<decisions, pointed, noActions, handoffs, attempts, receipts>>
local == <<pc, command, plan, then, settled>>
vars  == <<disk, recorded, local>>

Revisions == UNION {1..MaxRevision[c] : c \in Candidates}
Statuses  == {"accepted", "rejected", "deferred"}

\* The intake adapter is only assembled when Knowledge is configured.
Reviews  == [kind : {"review"}, candidate : Candidates, status : Statuses, intake : BOOLEAN]
Resumes  == [kind : {"resume"}, intake : BOOLEAN]
Commands == Reviews \union Resumes

\* An obligation of one Decision: the Handoff or no-action receipt it still
\* needs, and whether it is to be imported.
Obligations == [candidate : Candidates, revision : Revisions,
                action : {"accept", "withdraw", "none"}, handoff : BOOLEAN, import : BOOLEAN]

Knowledge == INSTANCE KnowledgeRegistry WITH
  Revisions <- Revisions, Contents <- {"payload"}, Callers <- {}, answers <- <<>>

HandoffOf(o) == [candidate |-> o.candidate, revision |-> o.revision, action |-> o.action,
                 content |-> IF o.action = "accept" THEN "payload" ELSE None]

Init ==
  /\ decisions = [c \in Candidates |-> <<>>]
  /\ pointed = [c \in Candidates |-> 0]
  /\ noActions = [c \in Candidates |-> {}]
  /\ handoffs = [c \in Candidates |-> {}]
  /\ attempts = [c \in Candidates |-> {}]
  /\ receipts = [c \in Candidates |-> {}]
  /\ recorded = {}
  /\ pc = "idle" /\ command = None /\ plan = {} /\ then = "idle"
  /\ settled = {}

-----------------------------------------------------------------------------
(* What the files of one Candidate say.                                    *)

History(c)    == 1..Len(decisions[c])
Accepted(c)   == {r \in History(c) : decisions[c][r] = "accepted"}
Unresolved(c) == attempts[c] \ receipts[c]
Last(c)       == Len(decisions[c])
Status(c)     == IF decisions[c] = <<>> THEN None ELSE decisions[c][Last(c)]

ImportedBefore(c, r) == \E a \in receipts[c] \intersect Accepted(c) : a < r

Action(c, r) == IF r \in Accepted(c) THEN "accept"
                ELSE IF ImportedBefore(c, r) THEN "withdraw" ELSE "none"

\* At most the newest Decision leaf is not pointed at yet.
HistoryOK(c)   == pointed[c] <= Last(c) /\ Last(c) <= pointed[c] + 1
NoActionsOK(c) == noActions[c] \subseteq History(c) \ Accepted(c)
AttemptsOK(c)  == attempts[c] \subseteq History(c) \intersect handoffs[c]
ReceiptsOK(c)  == receipts[c] \subseteq attempts[c]
\* No revision was both imported and without need of it, none withdraws nothing.
AuthorityOK(c) ==
  /\ noActions[c] \intersect attempts[c] = {}
  /\ \A r \in noActions[c] : ~ImportedBefore(c, r)
  /\ \A r \in attempts[c] : Action(c, r) # "none"

WellFormed(c) ==
  HistoryOK(c) /\ NoActionsOK(c) /\ AttemptsOK(c) /\ ReceiptsOK(c) /\ AuthorityOK(c)

\* Which import is unresolved must be clear.
Unambiguous(c) ==
  \A r \in Unresolved(c) :
    /\ Unresolved(c) = {r}
    /\ r = Last(c) \/ (r \notin Accepted(c) /\ \A i \in receipts[c] : i < r)

\* _review_authority_snapshot
Valid(c) == WellFormed(c) /\ Unambiguous(c)

\* Mutant: an accept that was superseded is imported as well.
ImportRequiredAlways(c, r) == Action(c, r) # "none"

\* A withdraw must reach Knowledge; an accept only while it is the last word.
ImportRequired(c, r) ==
  \/ Action(c, r) = "withdraw"
  \/ Action(c, r) = "accept" /\ r = Last(c)

Obligation(c, r) ==
  [candidate |-> c, revision |-> r, action |-> Action(c, r),
   handoff |-> r \notin noActions[c] \union handoffs[c], import |-> ImportRequired(c, r)]

\* _work_decision_obligations
Outstanding(c) ==
  {o \in {Obligation(c, r) : r \in History(c) \ receipts[c]} : o.handoff \/ o.import}

\* A Handoff that must still be imported although a later one has been.
Overtaken(c) ==
  \E o \in Outstanding(c) : o.import /\ \E r \in receipts[c] : o.revision < r

\* Obligations are met by Candidate, then by revision.
First(S) == CHOOSE o \in S : \A x \in S :
  o.candidate < x.candidate \/ (o.candidate = x.candidate /\ o.revision <= x.revision)

-----------------------------------------------------------------------------
(* Steps.                                                                  *)

Goto(to) == pc' = to /\ UNCHANGED <<command, plan, then, settled>>

\* The command returns or raises; it vouches for the Candidates in S.
EndWith(S) ==
  /\ pc' = "idle" /\ command' = None /\ plan' = {} /\ then' = "idle"
  /\ settled' = S
Stop == EndWith({})

Start ==
  /\ pc = "idle"
  /\ \E m \in Commands :
       /\ command' = m
       /\ pc' = IF m.kind = "review" THEN "snapshot" ELSE "plan"
  /\ plan' = {} /\ then' = "idle" /\ settled' = {}
  /\ UNCHANGED <<disk, recorded>>

\* The step at hand has no effect and the command stops: an I/O error, a lost
\* Data Root, an unknown outcome, or the process dies.
Fail ==
  /\ pc # "idle"
  /\ Stop
  /\ UNCHANGED <<disk, recorded>>

\* Mutants: current.json is not repaired; the unresolved import is not replayed.
SnapshotNoRepair ==
  /\ pc = "snapshot"
  /\ LET c == command.candidate IN
       \/ ~Valid(c) /\ Stop
       \/ Valid(c) /\ Unresolved(c) = {} /\ Goto("decide")
       \/ /\ Valid(c) /\ Unresolved(c) # {}
          /\ plan' = {o \in Outstanding(c) : o.revision \in Unresolved(c)}
          /\ pc' = "import" /\ then' = "decide" /\ UNCHANGED <<command, settled>>
  /\ UNCHANGED <<disk, recorded>>
SnapshotNoReplay ==
  /\ pc = "snapshot"
  /\ LET c == command.candidate IN
       \/ ~Valid(c) /\ Stop /\ UNCHANGED pointed
       \/ Valid(c) /\ pointed' = [pointed EXCEPT ![c] = Last(c)] /\ Goto("decide")
  /\ UNCHANGED <<decisions, noActions, handoffs, attempts, receipts, recorded>>

\* review_candidate_v1 reads the Candidate's files and repairs current.json; an
\* import that began and has no receipt is replayed before anything is decided.
Snapshot ==
  /\ pc = "snapshot"
  /\ LET c == command.candidate IN
       \/ ~Valid(c) /\ Stop /\ UNCHANGED pointed
       \/ /\ Valid(c)
          /\ pointed' = [pointed EXCEPT ![c] = Last(c)]
          /\ \/ Unresolved(c) = {} /\ Goto("decide")
             \/ /\ Unresolved(c) # {}
                /\ plan' = {o \in Outstanding(c) : o.revision \in Unresolved(c)}
                /\ pc' = "import" /\ then' = "decide" /\ UNCHANGED <<command, settled>>
             \/ Stop
  /\ UNCHANGED <<decisions, noActions, handoffs, attempts, receipts, recorded>>

\* Mutant: revisions grow without a bound.
DecideUnbounded ==
  /\ pc = "decide"
  /\ LET c == command.candidate IN
       \/ /\ Status(c) = command.status
          /\ Goto("route") /\ UNCHANGED decisions
       \/ /\ Status(c) # command.status
          /\ decisions' = [decisions EXCEPT ![c] = Append(@, command.status)]
          /\ Goto("point") \/ Stop
  /\ UNCHANGED <<pointed, noActions, handoffs, attempts, receipts, recorded>>

\* _commit_or_reuse_decision: the same decision twice is one decision.
Decide ==
  /\ pc = "decide"
  /\ LET c == command.candidate IN
       \/ /\ Status(c) = command.status
          /\ Goto("route") /\ UNCHANGED decisions
       \/ /\ Status(c) # command.status
          /\ \/ Last(c) = MaxRevision[c] /\ Stop /\ UNCHANGED decisions
             \/ /\ Last(c) < MaxRevision[c]
                /\ decisions' = [decisions EXCEPT ![c] = Append(@, command.status)]
                /\ Goto("point") \/ Stop
  /\ UNCHANGED <<pointed, noActions, handoffs, attempts, receipts, recorded>>

\* _replace_review_current after the Decision leaf
Point ==
  /\ pc = "point"
  /\ pointed' = [pointed EXCEPT ![command.candidate] = Last(command.candidate)]
  /\ Goto("route") \/ Stop
  /\ UNCHANGED <<decisions, noActions, handoffs, attempts, receipts, recorded>>

\* What the last Decision asks for, unless it is known to be imported.
Route ==
  /\ pc = "route"
  /\ LET c == command.candidate IN
       \/ Last(c) \in receipts[c] /\ EndWith({c})
       \/ /\ Last(c) \notin receipts[c]
          /\ plan' = {o \in Outstanding(c) : o.revision = Last(c)}
          /\ pc' = "handoff" /\ then' = "done" /\ UNCHANGED <<command, settled>>
  /\ UNCHANGED <<disk, recorded>>

\* continue_work_review_v1 plans for every Candidate, then repairs the pointers.
Plan ==
  /\ pc = "plan"
  /\ \/ (\E c \in Candidates : ~Valid(c)) /\ Stop /\ UNCHANGED pointed
     \/ /\ \A c \in Candidates : Valid(c)
        /\ \/ /\ pointed' = [c \in Candidates |-> Last(c)]
              /\ \/ (\E c \in Candidates : Overtaken(c)) /\ Stop
                 \/ /\ \A c \in Candidates : ~Overtaken(c)
                    /\ plan' = UNION {Outstanding(c) : c \in Candidates}
                    /\ pc' = "handoff" /\ then' = "verify" /\ UNCHANGED <<command, settled>>
           \/ /\ \E S \in SUBSET Candidates :
                   pointed' = [c \in Candidates |-> IF c \in S THEN Last(c) ELSE pointed[c]]
              /\ Stop
  /\ UNCHANGED <<decisions, noActions, handoffs, attempts, receipts, recorded>>

\* o has its Handoff or no-action receipt.
Delivered(o) == (plan \ {o}) \union (IF o.import THEN {[o EXCEPT !.handoff = FALSE]} ELSE {})

\* _commit_no_action_receipt or _commit_or_reuse_handoff for the first obligation
\* that lacks one, then on to the imports.
Deliver ==
  /\ pc = "handoff"
  /\ LET lacking == {o \in plan : o.handoff}
         o == First(lacking)
     IN \/ lacking = {} /\ Goto("import") /\ UNCHANGED <<noActions, handoffs>>
        \/ /\ lacking # {}
           /\ \/ /\ o.action = "none"
                 /\ noActions' = [noActions EXCEPT ![o.candidate] = @ \union {o.revision}]
                 /\ UNCHANGED handoffs
              \/ /\ o.action # "none"
                 /\ handoffs' = [handoffs EXCEPT ![o.candidate] = @ \union {o.revision}]
                 /\ UNCHANGED noActions
           /\ \/ plan' = Delivered(o) /\ UNCHANGED <<pc, command, then, settled>>
              \/ Stop
  /\ UNCHANGED <<decisions, pointed, attempts, receipts, recorded>>

\* Mutant: an import that began is taken for one that ended.
BeginImportTrusts ==
  /\ pc = "import"
  /\ LET o == First(plan) IN
       \/ plan = {} /\ then = "done" /\ EndWith({command.candidate}) /\ UNCHANGED attempts
       \/ plan = {} /\ then # "done" /\ Goto(then) /\ UNCHANGED attempts
       \/ plan # {} /\ ~command.intake /\ Stop /\ UNCHANGED attempts
       \/ /\ plan # {} /\ command.intake
          /\ o.revision \in attempts[o.candidate]
          /\ plan' = plan \ {o} /\ UNCHANGED <<pc, command, then, settled, attempts>>
       \/ /\ plan # {} /\ command.intake
          /\ o.revision \notin attempts[o.candidate]
          /\ attempts' = [attempts EXCEPT ![o.candidate] = @ \union {o.revision}]
          /\ Goto("apply") \/ Stop
  /\ UNCHANGED <<decisions, pointed, noActions, handoffs, receipts, recorded>>

\* The import of the first obligation begins: the attempt is published, unless it
\* was before, so that Knowledge is never called without a trace of it.
BeginImport ==
  /\ pc = "import"
  /\ LET o == First(plan) IN
       \/ plan = {} /\ then = "done" /\ EndWith({command.candidate}) /\ UNCHANGED attempts
       \/ plan = {} /\ then # "done" /\ Goto(then) /\ UNCHANGED attempts
       \/ plan # {} /\ ~command.intake /\ Stop /\ UNCHANGED attempts
       \/ /\ plan # {} /\ command.intake
          /\ attempts' = [attempts EXCEPT ![o.candidate] = @ \union {o.revision}]
          /\ Goto("apply") \/ Stop
  /\ UNCHANGED <<decisions, pointed, noActions, handoffs, receipts, recorded>>

\* Mutant: every answer of Knowledge is taken for an acknowledgement.
ApplyTrusts ==
  /\ pc = "apply"
  /\ LET h == HandoffOf(First(plan)) IN
       \/ /\ h \in recorded \/ ~Knowledge!Recordable(h)
          /\ Goto("receipt") /\ UNCHANGED recorded
       \/ h \notin recorded /\ Knowledge!Record(h) /\ Goto("receipt")
  /\ UNCHANGED disk

\* KnowledgeIntake.apply: recorded now or before; or recorded and the verdict is
\* lost.  Any other verdict is Fail: a conflict cannot be told from it here.
Apply ==
  /\ pc = "apply"
  /\ LET h == HandoffOf(First(plan)) IN
       \/ h \in recorded /\ Goto("receipt") /\ UNCHANGED recorded
       \/ h \notin recorded /\ Knowledge!Record(h) /\ (Goto("receipt") \/ Stop)
  /\ UNCHANGED disk

\* _publish_import_receipt
Receipt ==
  /\ pc = "receipt"
  /\ LET o == First(plan) IN
       /\ receipts' = [receipts EXCEPT ![o.candidate] = @ \union {o.revision}]
       /\ \/ plan' = plan \ {o} /\ pc' = "import" /\ UNCHANGED <<command, then, settled>>
          \/ Stop
  /\ UNCHANGED <<decisions, pointed, noActions, handoffs, attempts, recorded>>

\* verify_work_review_continuation_v1 plans again before the command reports.
VerifyPlan ==
  /\ pc = "verify"
  /\ IF \A c \in Candidates : Valid(c) /\ pointed[c] = Last(c) /\ Outstanding(c) = {}
       THEN EndWith({c \in Candidates : decisions[c] # <<>>})
       ELSE Stop
  /\ UNCHANGED <<disk, recorded>>

Next ==
  \/ Start \/ Fail \/ Snapshot \/ Decide \/ Point \/ Route \/ Plan \/ Deliver
  \/ BeginImport \/ Apply \/ Receipt \/ VerifyPlan

Spec == Init /\ [][Next]_vars

-----------------------------------------------------------------------------

FilesTyped ==
  /\ decisions \in [Candidates -> Seq(Statuses)]
  /\ pointed \in [Candidates -> Revisions \union {0}]
  /\ {noActions, handoffs, attempts, receipts} \subseteq [Candidates -> SUBSET Revisions]
  /\ recorded \subseteq Knowledge!Handoffs
LocalTyped ==
  /\ pc \in {"idle", "snapshot", "decide", "point", "route", "plan", "handoff", "import",
             "apply", "receipt", "verify"}
  /\ command \in Commands \union {None}
  /\ plan \subseteq Obligations
  /\ then \in {"idle", "decide", "done", "verify"}
  /\ settled \subseteq Candidates
TypeOK == FilesTyped /\ LocalTyped

\* The files of one Candidate never contradict each other, wherever commands
\* stopped: they pass every test of _review_authority_snapshot except the last, on
\* several unresolved imports (see OneUnresolvedImport).  Of that test this much
\* holds: an accept whose import is unresolved is the last Decision.
ReviewIsWellFormed ==
  \A c \in Candidates :
    /\ WellFormed(c)
    /\ \A r \in Unresolved(c) \intersect Accepted(c) : r = Last(c)

\* The two Data Roots agree although nothing commits to both: Knowledge holds what a
\* receipt acknowledges, and was never called without an attempt on disk.
ReceiptsAreFacts ==
  \A c \in Candidates :
    LET known == {h.revision : h \in Knowledge!History(c)} IN
      receipts[c] \subseteq known /\ known \subseteq attempts[c]

\* A no-action receipt says "never imported": Knowledge knows no accept of an
\* earlier revision, also none whose acknowledgement was lost.
NoActionIsTrue ==
  \A c \in Candidates : \A h \in Knowledge!History(c) :
    h.action = "accept" => \A r \in noActions[c] : r < h.revision

\* An accept reaches Knowledge only while it is the human's last word.
SupersededStaysOut ==
  [][\A h \in recorded' \ recorded :
       h.action = "accept" => h.revision = Len(decisions[h.candidate])]_vars

\* When a review succeeds, or a resume completes, Knowledge offers a Candidate if
\* and only if its last Decision accepts it, and under that Decision.
SettledMeansInAgreement ==
  \A c \in settled :
    LET H == Knowledge!History(c)
        active == {h \in H : h.action = "accept" /\ \A g \in H : g.revision <= h.revision}
    IN {h.revision : h \in active} = Accepted(c) \intersect {Last(c)}

\* Between two commands at most one import of a Candidate began and has no receipt,
\* so that the next command knows what to replay.
OneUnresolvedImport ==
  pc = "idle" => \A c \in Candidates : \A r, s \in Unresolved(c) : r = s

-----------------------------------------------------------------------------
(* The inductive invariant.                                                *)

\* While obligations are met, and the reviews among the commands.
Meeting == {"handoff", "import", "apply", "receipt"}
CommandInv ==
  /\ pc # "idle" => command \in Commands /\ settled = {}
  /\ pc \in {"snapshot", "decide", "point", "route"} => command \in Reviews
  /\ pc \in Meeting => then # "idle" /\ (then # "verify" => command \in Reviews)
  /\ pc = "handoff" => then # "decide"

\* Beyond what WellFormed says, an accept whose import is unresolved is the last word.
DiskOK(c) ==
  /\ WellFormed(c)
  /\ Last(c) <= MaxRevision[c]
  /\ \A r \in Unresolved(c) \intersect Accepted(c) : r = Last(c)
DiskInv == \A c \in Candidates : DiskOK(c)

\* Knowledge holds Handoffs of the Decisions on disk, of each that is acknowledged and of
\* none without an attempt.
Known(c) == {h.revision : h \in Knowledge!History(c)}
KnownInv ==
  /\ \A c \in Candidates : receipts[c] \subseteq Known(c) /\ Known(c) \subseteq attempts[c]
  /\ \A h \in recorded : h.action = "accept" <=> h.revision \in Accepted(h.candidate)

\* An obligation still says what it said when it was planned, although receipts were
\* published since, and gets its Handoff before it is imported.
Current(o) ==
  /\ o.revision \in History(o.candidate)
  /\ o.action = Action(o.candidate, o.revision)
  /\ o.handoff \/ o.import
  /\ o.import => /\ ImportRequired(o.candidate, o.revision)
                 /\ o.handoff \/ o.revision \in handoffs[o.candidate]
PlanInv ==
  /\ pc \in Meeting => \A o \in plan : Current(o) /\ (pc # "handoff" => ~o.handoff)
  /\ pc \in {"apply", "receipt"} =>
       plan # {} /\ First(plan).revision \in attempts[First(plan).candidate]
  /\ pc = "receipt" => HandoffOf(First(plan)) \in recorded

\* A review decides only when no import of the Candidate is unresolved.
ReplayInv ==
  /\ pc = "decide" => /\ Unresolved(command.candidate) = {}
                      /\ pointed[command.candidate] = Last(command.candidate)
  /\ pc \in Meeting /\ then = "decide" =>
       /\ pointed[command.candidate] = Last(command.candidate)
       /\ \A r \in Unresolved(command.candidate) :
            \E o \in plan : o.candidate = command.candidate /\ o.revision = r

\* The last Decision on c is imported or asks for no import.
Answered(c) == Last(c) \in receipts[c] \/ Action(c, Last(c)) = "none"
SettledInv ==
  /\ pc \in Meeting /\ then = "done" =>
       \/ Answered(command.candidate)
       \/ \E o \in plan : /\ o.candidate = command.candidate
                          /\ o.revision = Last(command.candidate) /\ o.import
  /\ \A c \in settled : Answered(c)

IInv ==
  /\ TypeOK /\ CommandInv /\ DiskInv /\ KnownInv /\ PlanInv /\ ReplayInv /\ SettledInv

=============================================================================
