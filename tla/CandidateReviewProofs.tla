----------------------- MODULE CandidateReviewProofs -----------------------
(***************************************************************************)
(* What is proved of the review of the Candidates of one Work, for any     *)
(* number of Candidates and revisions and wherever commands stop.  IInv    *)
(* ties what a command still has to do to the files it found: an           *)
(* obligation stays current while receipts are published, and an accept    *)
(* whose import is unresolved stays the last word.                         *)
(***************************************************************************)
EXTENDS CandidateReview, WellFoundedInduction, TLAPS

\* Candidates and revisions are numbers.
LEMMA Numbers ==
  /\ Candidates \subseteq Nat /\ Revisions \subseteq Nat
  /\ \A c \in Candidates : 1..MaxRevision[c] \subseteq Revisions /\ MaxRevision[c] \in Nat
BY ReviewAssumption DEF Revisions

\* A nonempty set of numbers has a smallest one.
LEMMA Smallest ==
  ASSUME NEW S, S \subseteq Nat, S # {} PROVE \E x \in S : \A y \in S : x <= y
<1>1. PICK x \in S : \A y \in S : ~(<<y, x>> \in OpToRel(<, Nat))
  <2> HIDE DEF OpToRel
  <2> QED BY WFMin, NatLessThanWellFounded, Zenon
<1>2. \A y \in S : ~(y < x)
  BY <1>1 DEF OpToRel
<1> QED BY <1>2

\* The first obligation is one of them.
LEMMA FirstIs ==
  ASSUME NEW S, S \subseteq Obligations, S # {} PROVE First(S) \in S
<1> DEFINE C == {o.candidate : o \in S}
<1>1. \A o \in S : o.candidate \in Nat /\ o.revision \in Nat
  BY Numbers DEF Obligations
<1>2. PICK c \in C : \A d \in C : c <= d
  <2>1. C \subseteq Nat /\ C # {}
    BY <1>1
  <2> HIDE DEF C
  <2> QED BY <2>1, Smallest
<1> DEFINE R == {o.revision : o \in {x \in S : x.candidate = c}}
<1>3. PICK r \in R : \A q \in R : r <= q
  <2>1. R \subseteq Nat /\ R # {}
    BY <1>1, <1>2
  <2> HIDE DEF R
  <2> QED BY <2>1, Smallest
<1>4. PICK o \in S : o.candidate = c /\ o.revision = r
  BY <1>3
<1>5. \A x \in S : o.candidate < x.candidate \/ (o.candidate = x.candidate /\ o.revision <= x.revision)
  <2> TAKE x \in S
  <2>1. c <= x.candidate
    BY <1>2
  <2>2. x.candidate = c => r <= x.revision
    BY <1>3
  <2> QED BY <1>1, <1>2, <1>4, <2>1, <2>2
<1> QED BY <1>4, <1>5 DEF First

\* The history of each Candidate, and what is accepted in it.
LEMMA Histories ==
  ASSUME TypeOK, NEW c \in Candidates
  PROVE  Last(c) \in Nat /\ Accepted(c) \subseteq 1..Last(c) /\ History(c) = 1..Last(c)
BY DEF Last, Accepted, History

LEMMA SameHistory ==
  ASSUME NEW c, decisions'[c] = decisions[c]
  PROVE  Last(c)' = Last(c) /\ Accepted(c)' = Accepted(c) /\ History(c)' = History(c)
BY DEF Last, Accepted, History

LEMMA SameKnown ==
  ASSUME NEW c, UNCHANGED recorded PROVE Known(c)' = Known(c)
BY DEF Known, Knowledge!History

\* A repaired pointer harms no history.
LEMMA SameDisk ==
  ASSUME TypeOK, DiskInv, UNCHANGED <<decisions, noActions, handoffs, attempts, receipts>>,
         \A c \in Candidates : pointed'[c] \in {pointed[c], Last(c)}
  PROVE  DiskInv'
<1> SUFFICES ASSUME NEW c \in Candidates PROVE DiskOK(c)'
  BY DEF DiskInv
<1>1. Last(c)' = Last(c) /\ Accepted(c)' = Accepted(c) /\ History(c)' = History(c)
  BY SameHistory
<1>2. DiskOK(c) /\ Last(c) \in Nat
  BY Histories DEF DiskInv
<1>3. HistoryOK(c)'
  BY <1>1, <1>2 DEF DiskOK, WellFormed, HistoryOK
<1> QED BY <1>1, <1>2, <1>3 DEF DiskOK, WellFormed, NoActionsOK, AttemptsOK, ReceiptsOK,
           AuthorityOK, Action, ImportedBefore, Unresolved

LEMMA SameKnownInv ==
  ASSUME KnownInv, UNCHANGED <<decisions, attempts, receipts, recorded>>
  PROVE  KnownInv'
<1>1. \A c \in Candidates : Known(c)' = Known(c)
  BY SameKnown
<1>2. \A h \in recorded : Accepted(h.candidate)' = Accepted(h.candidate)
  BY SameHistory
<1> QED BY <1>1, <1>2 DEF KnownInv

\* An obligation stays current while nothing is decided and nothing acknowledged.
LEMMA CurrentStays ==
  ASSUME NEW o, Current(o), UNCHANGED <<decisions, receipts>>,
         handoffs[o.candidate] \subseteq handoffs'[o.candidate]
  PROVE  Current(o)'
<1>1. /\ Last(o.candidate)' = Last(o.candidate) /\ History(o.candidate)' = History(o.candidate)
      /\ Accepted(o.candidate)' = Accepted(o.candidate)
  BY SameHistory
<1>2. Action(o.candidate, o.revision)' = Action(o.candidate, o.revision)
  BY <1>1 DEF Action, ImportedBefore
<1>3. ImportRequired(o.candidate, o.revision)' = ImportRequired(o.candidate, o.revision)
  BY <1>1, <1>2 DEF ImportRequired
<1> QED BY <1>1, <1>2, <1>3 DEF Current

LEMMA SameAnswered ==
  ASSUME NEW c, UNCHANGED <<decisions, receipts>>
  PROVE  Answered(c)' = Answered(c)
<1>1. Last(c)' = Last(c) /\ Accepted(c)' = Accepted(c)
  BY SameHistory
<1> QED BY <1>1 DEF Answered, Action, ImportedBefore

\* What is outstanding are obligations, and they are current.
LEMMA ObligationsCurrent ==
  ASSUME TypeOK, DiskInv, NEW c \in Candidates
  PROVE  /\ Outstanding(c) \subseteq Obligations
         /\ \A o \in Outstanding(c) : Current(o) /\ o.candidate = c
<1> SUFFICES ASSUME NEW r \in History(c) \ receipts[c],
                    Obligation(c, r).handoff \/ Obligation(c, r).import
             PROVE  /\ Obligation(c, r) \in Obligations
                    /\ Current(Obligation(c, r)) /\ Obligation(c, r).candidate = c
  BY DEF Outstanding
<1> DEFINE o == Obligation(c, r)
<1>1. /\ o.candidate = c /\ o.revision = r /\ o.action = Action(c, r)
      /\ o.handoff = (r \notin noActions[c] \union handoffs[c])
      /\ o.import = ImportRequired(c, r)
  BY DEF Obligation
<1>2. r \in Revisions
  BY Histories, Numbers DEF DiskInv, DiskOK
<1>3. Action(c, r) \in {"accept", "withdraw", "none"}
  BY DEF Action
<1>4. o \in Obligations
  <2>1. ImportRequired(c, r) \in BOOLEAN
    BY DEF ImportRequired
  <2> QED BY <1>2, <1>3, <2>1 DEF Obligation, Obligations
<1>5. ImportRequired(c, r) => r \notin noActions[c]
  BY DEF DiskInv, DiskOK, WellFormed, NoActionsOK, AuthorityOK, ImportRequired, Action
<1> QED BY <1>1, <1>4, <1>5 DEF Current

\* One more Decision.
LEMMA Appended ==
  ASSUME IInv, NEW c \in Candidates, NEW status \in Statuses,
         decisions' = [decisions EXCEPT ![c] = Append(@, status)]
  PROVE  /\ Last(c)' = Last(c) + 1 /\ History(c)' = 1..(Last(c) + 1)
         /\ Accepted(c)' \intersect History(c) = Accepted(c)
<1>1. decisions[c] \in Seq(Statuses) /\ decisions'[c] = Append(decisions[c], status)
  BY DEF IInv, TypeOK, FilesTyped
<1>2. /\ Len(decisions'[c]) = Len(decisions[c]) + 1 /\ Len(decisions[c]) \in Nat
      /\ \A r \in 1..Len(decisions[c]) : decisions'[c][r] = decisions[c][r]
  BY <1>1
<1> QED BY <1>2 DEF Last, History, Accepted

\* Knowledge holds no Handoff of a Decision that is not on disk.
LEMMA KnownIsPlanned ==
  ASSUME IInv, NEW h \in recorded
  PROVE  h.candidate \in Candidates /\ h.revision \in History(h.candidate)
<1>1. h.candidate \in Candidates
  BY DEF IInv, TypeOK, FilesTyped, Knowledge!Handoffs, Knowledge!Accepts, Knowledge!Withdraws
<1>2. h.revision \in Known(h.candidate)
  BY DEF Known, Knowledge!History
<1> QED BY <1>1, <1>2 DEF IInv, KnownInv, DiskInv, DiskOK, WellFormed, AttemptsOK

\* A repaired pointer names a revision.
LEMMA Repairable ==
  ASSUME IInv, NEW c \in Candidates
  PROVE  {pointed[c], Last(c)} \subseteq Revisions \union {0}
<1>1. pointed[c] \in Revisions \union {0}
  BY DEF IInv, TypeOK, FilesTyped
<1>2. Last(c) \in Nat /\ Last(c) <= MaxRevision[c]
  BY Histories DEF IInv, DiskInv, DiskOK
<1>3. Last(c) = 0 \/ Last(c) \in 1..MaxRevision[c]
  BY <1>2, Numbers
<1> QED BY <1>1, <1>3, Numbers

\* The import of an obligation that is outstanding, and whose it is.
LEMMA OutstandingIs ==
  ASSUME NEW c, NEW o \in Outstanding(c)
  PROVE  /\ o.candidate = c /\ o.revision \in History(c) \ receipts[c]
         /\ o.handoff = (o.revision \notin noActions[c] \union handoffs[c])
         /\ o.import = ImportRequired(c, o.revision)
BY DEF Outstanding, Obligation

LEMMA ImportIsOutstanding ==
  ASSUME NEW c, NEW r \in History(c) \ receipts[c], ImportRequired(c, r)
  PROVE  \E o \in Outstanding(c) : o.candidate = c /\ o.revision = r /\ o.import
<1>1. /\ Obligation(c, r).candidate = c /\ Obligation(c, r).revision = r
      /\ Obligation(c, r).import
  BY DEF Obligation
<1> QED BY <1>1 DEF Outstanding

\* What is known of the obligation that is imported.
LEMMA FirstCurrent ==
  ASSUME IInv, pc \in {"import", "apply", "receipt"}, plan # {}, NEW o, o = First(plan)
  PROVE  /\ o \in plan /\ o.candidate \in Candidates /\ Current(o) /\ o.import
         /\ o.revision \in History(o.candidate) \intersect handoffs[o.candidate]
         /\ o.revision \notin noActions[o.candidate]
         /\ o.action = Action(o.candidate, o.revision) /\ o.action \in {"accept", "withdraw"}
         /\ o.action = "accept" <=> o.revision \in Accepted(o.candidate)
         /\ o.action = "accept" => o.revision = Last(o.candidate)
<1>1. o \in plan /\ o.candidate \in Candidates
  BY FirstIs DEF IInv, TypeOK, LocalTyped, Obligations
<1>2. Current(o) /\ ~o.handoff
  BY <1>1 DEF IInv, PlanInv, Meeting
<1>3. o.import /\ o.revision \in History(o.candidate) \intersect handoffs[o.candidate]
  BY <1>2 DEF Current
<1>4. /\ o.action = Action(o.candidate, o.revision)
      /\ ImportRequired(o.candidate, o.revision)
  BY <1>2, <1>3 DEF Current
<1>5. /\ o.action \in {"accept", "withdraw"}
      /\ o.action = "accept" <=> o.revision \in Accepted(o.candidate)
      /\ o.action = "accept" => o.revision = Last(o.candidate)
  BY <1>4 DEF ImportRequired, Action
<1>6. o.revision \notin noActions[o.candidate]
  BY <1>1, <1>4, <1>5 DEF IInv, DiskInv, DiskOK, WellFormed, NoActionsOK, AuthorityOK, Action
<1> QED BY <1>1, <1>2, <1>3, <1>4, <1>5, <1>6

\* What the delivery of a Handoff or no-action receipt does.
LEMMA DeliverIs ==
  ASSUME IInv, Deliver
  PROVE  /\ UNCHANGED <<decisions, pointed, attempts, receipts, recorded>>
         /\ \/ /\ \A o \in plan : ~o.handoff
               /\ Goto("import") /\ UNCHANGED <<noActions, handoffs>>
            \/ \E o \in plan :
                 /\ o.handoff /\ Current(o) /\ o.candidate \in Candidates
                 /\ \/ /\ o.action = "none" /\ UNCHANGED handoffs
                       /\ noActions' = [noActions EXCEPT ![o.candidate] = @ \union {o.revision}]
                    \/ /\ o.action # "none" /\ UNCHANGED noActions
                       /\ handoffs' = [handoffs EXCEPT ![o.candidate] = @ \union {o.revision}]
                 /\ \/ plan' = Delivered(o) /\ UNCHANGED <<pc, command, then, settled>>
                    \/ Stop
<1> DEFINE lacking == {o \in plan : o.handoff}
<1>1. UNCHANGED <<decisions, pointed, attempts, receipts, recorded>>
  BY DEF Deliver
<1>2. CASE lacking = {}
  BY <1>1, <1>2 DEF Deliver
<1>3. CASE lacking # {}
  <2>1. lacking \subseteq Obligations
    BY DEF IInv, TypeOK, LocalTyped
  <2>2. First(lacking) \in lacking
    <3> HIDE DEF lacking
    <3> QED BY <1>3, <2>1, FirstIs
  <2>3. First(lacking) \in plan /\ First(lacking).handoff /\ First(lacking).candidate \in Candidates
    BY <2>1, <2>2 DEF Obligations
  <2>4. Current(First(lacking))
    BY <2>3 DEF Deliver, IInv, PlanInv, Meeting
  <2>5. LET o == First(lacking) IN
          /\ \/ /\ o.action = "none" /\ UNCHANGED handoffs
                /\ noActions' = [noActions EXCEPT ![o.candidate] = @ \union {o.revision}]
             \/ /\ o.action # "none" /\ UNCHANGED noActions
                /\ handoffs' = [handoffs EXCEPT ![o.candidate] = @ \union {o.revision}]
          /\ \/ plan' = Delivered(o) /\ UNCHANGED <<pc, command, then, settled>>
             \/ Stop
    BY <1>3 DEF Deliver
  <2> HIDE DEF lacking
  <2> QED BY <1>1, <2>3, <2>4, <2>5
<1> QED BY <1>2, <1>3

(*********************** each step keeps the invariant ***********************)

LEMMA StartStep == ASSUME IInv, Start PROVE IInv'
<1>1. TypeOK'
  <2>1. UNCHANGED <<decisions, pointed, noActions, handoffs, attempts, receipts, recorded>>
    BY DEF Start, disk
  <2>2. FilesTyped'
    BY <2>1 DEF IInv, TypeOK, FilesTyped
  <2>5. LocalTyped'
    BY DEF Start, IInv, LocalTyped
  <2> QED BY <2>2, <2>5 DEF TypeOK
<1>2. CommandInv'
  <2>1. PICK m \in Commands : /\ command' = m
                               /\ pc' = IF m.kind = "review" THEN "snapshot" ELSE "plan"
    BY DEF Start
  <2>2. m.kind = "review" => m \in Reviews
    BY DEF Commands, Reviews, Resumes
  <2> QED BY <2>1, <2>2 DEF Start, CommandInv, Meeting
<1>3. DiskInv'
  <2>1. UNCHANGED <<decisions, pointed, noActions, handoffs, attempts, receipts, recorded>>
    BY DEF Start, disk
  <2> QED BY <2>1, SameDisk DEF IInv
<1>4. KnownInv'
  <2>1. UNCHANGED <<decisions, pointed, noActions, handoffs, attempts, receipts, recorded>>
    BY DEF Start, disk
  <2> QED BY <2>1, SameKnownInv DEF IInv
<1>5. PlanInv'
  BY DEF IInv, Start, PlanInv, Current, HandoffOf, Action, ImportRequired, ImportedBefore
<1>6. ReplayInv'
  BY DEF IInv, Start, ReplayInv, Unresolved
<1>7. SettledInv'
  BY DEF IInv, Start, SettledInv, Answered, Action, ImportedBefore
<1> QED BY <1>1, <1>2, <1>3, <1>4, <1>5, <1>6, <1>7 DEF IInv

LEMMA FailStep == ASSUME IInv, Fail PROVE IInv'
<1>1. TypeOK'
  <2>1. UNCHANGED <<decisions, pointed, noActions, handoffs, attempts, receipts, recorded>>
    BY DEF Fail, disk
  <2>2. FilesTyped'
    BY <2>1 DEF IInv, TypeOK, FilesTyped
  <2>5. LocalTyped'
    BY DEF Fail, Stop, EndWith, IInv, LocalTyped
  <2> QED BY <2>2, <2>5 DEF TypeOK
<1>2. CommandInv'
  BY DEF IInv, Fail, CommandInv, Stop, Commands, Meeting, EndWith
<1>3. DiskInv'
  <2>1. UNCHANGED <<decisions, pointed, noActions, handoffs, attempts, receipts, recorded>>
    BY DEF Fail, disk
  <2> QED BY <2>1, SameDisk DEF IInv
<1>4. KnownInv'
  <2>1. UNCHANGED <<decisions, pointed, noActions, handoffs, attempts, receipts, recorded>>
    BY DEF Fail, disk
  <2> QED BY <2>1, SameKnownInv DEF IInv
<1>5. PlanInv'
  BY DEF IInv, Fail, PlanInv, Stop, Current, HandoffOf, EndWith, Action, ImportRequired,
     ImportedBefore
<1>6. ReplayInv'
  BY DEF IInv, Fail, ReplayInv, Stop, Unresolved, EndWith
<1>7. SettledInv'
  BY DEF IInv, Fail, SettledInv, Stop, Answered, EndWith, Action, ImportedBefore
<1> QED BY <1>1, <1>2, <1>3, <1>4, <1>5, <1>6, <1>7 DEF IInv

LEMMA SnapshotStep == ASSUME IInv, Snapshot PROVE IInv'
<1>1. TypeOK'
  <2>1. UNCHANGED <<decisions, noActions, handoffs, attempts, receipts, recorded>>
    BY DEF Snapshot
  <2>2. /\ pointed' \in [Candidates -> UNION {{pointed[c], Last(c)} : c \in Candidates}]
        /\ \A c \in Candidates : pointed'[c] \in {pointed[c], Last(c)}
    BY DEF Snapshot, IInv, TypeOK, FilesTyped
  <2>6. \A c \in Candidates : {pointed[c], Last(c)} \subseteq Revisions \union {0}
    BY Repairable
  <2>7. FilesTyped'
    BY <2>1, <2>2, <2>6 DEF IInv, TypeOK, FilesTyped
  <2>3. plan' \in {plan, {}} \/ plan' \subseteq Outstanding(command.candidate)
    BY DEF Snapshot, Goto, Stop, EndWith
  <2>4. plan' \subseteq Obligations
    BY <2>3, ObligationsCurrent DEF IInv, TypeOK, LocalTyped, CommandInv, Reviews, Snapshot
  <2>5. LocalTyped'
    BY <2>4 DEF Snapshot, Goto, Stop, EndWith, IInv, TypeOK, LocalTyped
  <2> QED BY <2>5, <2>7 DEF TypeOK
<1>2. CommandInv'
  BY DEF IInv, Snapshot, CommandInv, Stop, Unresolved, Goto, Commands, Meeting, EndWith
<1>3. DiskInv'
  <2>1. UNCHANGED <<decisions, noActions, handoffs, attempts, receipts, recorded>>
    BY DEF Snapshot
  <2>2. /\ pointed' \in [Candidates -> UNION {{pointed[c], Last(c)} : c \in Candidates}]
        /\ \A c \in Candidates : pointed'[c] \in {pointed[c], Last(c)}
    BY DEF Snapshot, IInv, TypeOK, FilesTyped
  <2> QED BY <2>1, <2>2, SameDisk DEF IInv
<1>4. KnownInv'
  <2>1. UNCHANGED <<decisions, noActions, handoffs, attempts, receipts, recorded>>
    BY DEF Snapshot
  <2> QED BY <2>1, SameKnownInv DEF IInv
<1>5. PlanInv'
  <2>1. UNCHANGED <<decisions, noActions, handoffs, attempts, receipts, recorded>>
    BY DEF Snapshot
  <2>2. CASE pc' \notin Meeting
    BY <2>2 DEF PlanInv, Meeting
  <2>3. CASE pc' \in Meeting
    <3> DEFINE c == command.candidate
    <3>1. pc' = "import" /\ plan' = {o \in Outstanding(c) : o.revision \in Unresolved(c)}
      BY <2>3 DEF Snapshot, Goto, Stop, EndWith, Meeting
    <3>2. c \in Candidates
      BY DEF Snapshot, IInv, CommandInv, Reviews
    <3> SUFFICES ASSUME NEW o \in plan' PROVE Current(o)' /\ ~o.handoff
      BY <3>1 DEF PlanInv
    <3>3. o \in Outstanding(c) /\ o.revision \in attempts[c]
      BY <3>1 DEF Unresolved
    <3>4. ~o.handoff
      BY <3>2, <3>3, OutstandingIs DEF IInv, DiskInv, DiskOK, WellFormed, AttemptsOK
    <3>5. Current(o)
      BY <3>2, <3>3, ObligationsCurrent DEF IInv
    <3> QED BY <2>1, <3>4, <3>5, CurrentStays
  <2> QED BY <2>2, <2>3
<1>6. ReplayInv'
  <2>1. UNCHANGED <<decisions, noActions, handoffs, attempts, receipts, recorded>>
    BY DEF Snapshot
  <2>2. PICK c \in Candidates : c = command.candidate
    BY DEF Snapshot, IInv, CommandInv, Reviews
  <2>3. Last(c)' = Last(c) /\ Unresolved(c)' = Unresolved(c)
    BY <2>1, SameHistory DEF Unresolved
  <2>4. CASE pc' = "idle"
    BY <2>4 DEF ReplayInv, Meeting
  <2>5. CASE pc' # "idle"
    <3>1. Valid(c) /\ pointed' = [pointed EXCEPT ![c] = Last(c)] /\ command' = command
      BY <2>2, <2>5 DEF Snapshot, Goto, Stop, EndWith
    <3>2. pointed'[c] = Last(c)
      BY <2>2, <3>1 DEF IInv, TypeOK, FilesTyped
    <3>3. CASE Unresolved(c) = {} /\ Goto("decide")
      BY <2>2, <2>3, <3>1, <3>2, <3>3 DEF ReplayInv
    <3>4. CASE /\ plan' = {o \in Outstanding(c) : o.revision \in Unresolved(c)}
               /\ pc' = "import" /\ then' = "decide"
      <4>1. ASSUME NEW r \in Unresolved(c)
            PROVE  \E o \in plan' : o.candidate = c /\ o.revision = r
        <5>1. r \in History(c) \ receipts[c] /\ Action(c, r) # "none"
          BY <2>2 DEF Unresolved, IInv, DiskInv, DiskOK, WellFormed, AttemptsOK, AuthorityOK
        <5>2. r = Last(c) \/ r \notin Accepted(c)
          BY <2>2 DEF IInv, DiskInv, DiskOK
        <5>3. ImportRequired(c, r)
          BY <5>1, <5>2 DEF ImportRequired, Action
        <5> QED BY <2>2, <3>4, <5>1, <5>3, ImportIsOutstanding
      <4> QED BY <2>2, <2>3, <3>1, <3>2, <3>4, <4>1 DEF ReplayInv
    <3> QED BY <2>2, <2>5, <3>3, <3>4 DEF Snapshot, Stop, EndWith
  <2> QED BY <2>4, <2>5
<1>7. SettledInv'
  BY DEF IInv, Snapshot, SettledInv, CommandInv, Stop, Unresolved, Goto, Meeting, Answered,
     Commands, EndWith, Action, ImportedBefore
<1> QED BY <1>1, <1>2, <1>3, <1>4, <1>5, <1>6, <1>7 DEF IInv

LEMMA DecideStep == ASSUME IInv, Decide PROVE IInv'
<1>1. TypeOK'
  <2>1. UNCHANGED <<pointed, noActions, handoffs, attempts, receipts, recorded>>
    BY DEF Decide
  <2>2. command.candidate \in Candidates /\ command.status \in Statuses
    BY DEF Decide, IInv, CommandInv, Reviews
  <2>3. decisions' \in [Candidates -> Seq(Statuses)]
    <3>1. decisions \in [Candidates -> Seq(Statuses)]
      BY DEF IInv, TypeOK, FilesTyped
    <3>2. Append(decisions[command.candidate], command.status) \in Seq(Statuses)
      BY <2>2, <3>1
    <3> QED BY <3>1, <3>2 DEF Decide
  <2>4. FilesTyped'
    BY <2>1, <2>3 DEF IInv, TypeOK, FilesTyped
  <2>5. LocalTyped'
    BY DEF Decide, Stop, EndWith, Goto, IInv, TypeOK, LocalTyped
  <2> QED BY <2>4, <2>5 DEF TypeOK
<1>2. CommandInv'
  BY DEF IInv, Decide, CommandInv, Goto, Stop, Commands, Meeting, EndWith
<1>3. DiskInv'
  <2>1. /\ command.candidate \in Candidates /\ command.status \in Statuses
        /\ UNCHANGED <<pointed, noActions, handoffs, attempts, receipts, recorded>>
    BY DEF Decide, IInv, CommandInv, Reviews
  <2> DEFINE d == command.candidate
  <2>2. CASE UNCHANGED decisions
    BY <2>1, <2>2, SameDisk DEF IInv
  <2>3. CASE Last(d) < MaxRevision[d] /\ decisions' = [decisions EXCEPT ![d] = Append(@, command.status)]
    <3> SUFFICES ASSUME NEW c \in Candidates PROVE DiskOK(c)'
      BY DEF DiskInv
    <3>1. DiskOK(c) /\ Last(c) \in Nat
      BY Histories DEF IInv, DiskInv
    <3>2. CASE c # d
      <4>1. Last(c)' = Last(c) /\ Accepted(c)' = Accepted(c) /\ History(c)' = History(c)
        BY <2>3, <3>2, SameHistory DEF IInv
      <4> QED BY <2>1, <3>1, <4>1 DEF DiskOK, WellFormed, HistoryOK, NoActionsOK, AttemptsOK,
                 ReceiptsOK, AuthorityOK, Action, ImportedBefore, Unresolved
    <3>3. CASE c = d
      <4>1. /\ Last(c)' = Last(c) + 1 /\ History(c)' = 1..(Last(c) + 1)
            /\ Accepted(c)' \intersect History(c) = Accepted(c)
        BY <2>1, <2>3, <3>3, Appended
      <4>2. Unresolved(c) = {} /\ pointed[c] = Last(c)
        BY <3>3 DEF Decide, IInv, ReplayInv
      <4>3. HistoryOK(c)' /\ Last(c)' <= MaxRevision[c]
        BY <2>1, <2>3, <3>1, <3>3, <4>1, <4>2, ReviewAssumption DEF HistoryOK
      <4>4. History(c) = 1..Last(c) /\ History(c) \subseteq History(c)'
        BY <3>1, <4>1, Histories DEF IInv
      <4>5. noActions[c] \subseteq History(c) /\ attempts[c] \subseteq History(c) /\ receipts[c] \subseteq History(c)
        BY <3>1 DEF DiskOK, WellFormed, NoActionsOK, AttemptsOK, ReceiptsOK
      <4>6. receipts[c] \intersect Accepted(c)' = receipts[c] \intersect Accepted(c)
        BY <4>1, <4>5
      <4>7. NoActionsOK(c)' /\ AttemptsOK(c)' /\ ReceiptsOK(c)'
        BY <2>1, <3>1, <4>1, <4>4, <4>5 DEF DiskOK, WellFormed, NoActionsOK, AttemptsOK,
           ReceiptsOK
      <4>8. \A r \in History(c) : ImportedBefore(c, r)' = ImportedBefore(c, r) /\ Action(c, r)' = Action(c, r)
        BY <2>1, <4>1, <4>6 DEF ImportedBefore, Action
      <4>9. AuthorityOK(c)'
        BY <2>1, <3>1, <4>5, <4>8 DEF DiskOK, WellFormed, AuthorityOK
      <4> QED BY <2>1, <4>2, <4>3, <4>7, <4>9 DEF DiskOK, WellFormed, Unresolved
    <3> QED BY <3>2, <3>3
  <2> QED BY <2>2, <2>3 DEF Decide
<1>4. KnownInv'
  <2>1. /\ command.candidate \in Candidates /\ command.status \in Statuses
        /\ UNCHANGED <<pointed, noActions, handoffs, attempts, receipts, recorded>>
    BY DEF Decide, IInv, CommandInv, Reviews
  <2>2. CASE UNCHANGED decisions
    BY <2>1, <2>2, SameKnownInv DEF IInv
  <2>3. CASE decisions' = [decisions EXCEPT ![command.candidate] = Append(@, command.status)]
    <3>1. \A c \in Candidates : Known(c)' = Known(c)
      BY <2>1, SameKnown
    <3> SUFFICES ASSUME NEW h \in recorded
                 PROVE  h.action = "accept" <=> h.revision \in Accepted(h.candidate)'
      BY <2>1, <3>1 DEF IInv, KnownInv
    <3> DEFINE c == h.candidate
    <3>2. c \in Candidates /\ h.revision \in History(c)
      BY KnownIsPlanned DEF IInv
    <3>3. CASE c # command.candidate
      BY <2>3, <3>2, <3>3, SameHistory DEF IInv, KnownInv
    <3>4. CASE c = command.candidate
      <4>1. Accepted(c)' \intersect History(c) = Accepted(c)
        BY <2>1, <2>3, <3>4, Appended DEF IInv
      <4> QED BY <3>2, <4>1 DEF IInv, KnownInv
    <3> QED BY <3>3, <3>4
  <2> QED BY <2>2, <2>3 DEF Decide
<1>5. PlanInv'
  BY DEF IInv, Decide, PlanInv, CommandInv, Goto, Stop, Meeting, Current, HandoffOf, Commands,
     EndWith, Action, ImportRequired, ImportedBefore
<1>6. ReplayInv'
  BY DEF IInv, Decide, ReplayInv, CommandInv, Goto, Stop, Unresolved, Meeting, Commands, EndWith
<1>7. SettledInv'
  BY DEF IInv, Decide, SettledInv, CommandInv, Goto, Stop, Meeting, Answered, Commands, EndWith,
     Action, ImportedBefore
<1> QED BY <1>1, <1>2, <1>3, <1>4, <1>5, <1>6, <1>7 DEF IInv

LEMMA PointStep == ASSUME IInv, Point PROVE IInv'
<1>1. TypeOK'
  <2>1. UNCHANGED <<decisions, noActions, handoffs, attempts, receipts, recorded>>
    BY DEF Point
  <2>2. /\ pointed' \in [Candidates -> UNION {{pointed[c], Last(c)} : c \in Candidates}]
        /\ \A c \in Candidates : pointed'[c] \in {pointed[c], Last(c)}
    BY DEF Point, IInv, CommandInv, Reviews, TypeOK, FilesTyped
  <2>6. \A c \in Candidates : {pointed[c], Last(c)} \subseteq Revisions \union {0}
    BY Repairable
  <2>7. FilesTyped'
    BY <2>1, <2>2, <2>6 DEF IInv, TypeOK, FilesTyped
  <2>5. LocalTyped'
    BY DEF Point, Stop, EndWith, Goto, IInv, TypeOK, LocalTyped, CommandInv
  <2> QED BY <2>5, <2>7 DEF TypeOK
<1>2. CommandInv'
  BY DEF IInv, Point, CommandInv, Goto, Stop, Commands, Meeting, EndWith
<1>3. DiskInv'
  <2>1. UNCHANGED <<decisions, noActions, handoffs, attempts, receipts, recorded>>
    BY DEF Point
  <2>2. /\ pointed' \in [Candidates -> UNION {{pointed[c], Last(c)} : c \in Candidates}]
        /\ \A c \in Candidates : pointed'[c] \in {pointed[c], Last(c)}
    BY DEF Point, IInv, CommandInv, Reviews, TypeOK, FilesTyped
  <2> QED BY <2>1, <2>2, SameDisk DEF IInv
<1>4. KnownInv'
  <2>1. UNCHANGED <<decisions, noActions, handoffs, attempts, receipts, recorded>>
    BY DEF Point
  <2> QED BY <2>1, SameKnownInv DEF IInv
<1>5. PlanInv'
  BY DEF IInv, Point, PlanInv, CommandInv, Goto, Stop, Meeting, Current, HandoffOf, Commands,
     EndWith, Action, ImportRequired, ImportedBefore
<1>6. ReplayInv'
  BY DEF IInv, Point, ReplayInv, CommandInv, Goto, Stop, Unresolved, Meeting, Commands, EndWith
<1>7. SettledInv'
  BY DEF IInv, Point, SettledInv, CommandInv, Goto, Stop, Meeting, Answered, Commands, EndWith,
     Action, ImportedBefore
<1> QED BY <1>1, <1>2, <1>3, <1>4, <1>5, <1>6, <1>7 DEF IInv

LEMMA RouteStep == ASSUME IInv, Route PROVE IInv'
<1>1. TypeOK'
  <2>1. UNCHANGED <<decisions, pointed, noActions, handoffs, attempts, receipts, recorded>>
    BY DEF Route, disk
  <2>2. FilesTyped'
    BY <2>1 DEF IInv, TypeOK, FilesTyped
  <2>3. plan' = {} \/ plan' \subseteq Outstanding(command.candidate)
    BY DEF Route, EndWith
  <2>4. plan' \subseteq Obligations
    BY <2>3, ObligationsCurrent DEF IInv, CommandInv, Reviews, Route
  <2>5. LocalTyped'
    BY <2>4 DEF Route, EndWith, IInv, LocalTyped, CommandInv, Reviews
  <2> QED BY <2>2, <2>5 DEF TypeOK
<1>2. CommandInv'
  BY DEF IInv, Route, CommandInv, EndWith, Commands, Meeting
<1>3. DiskInv'
  <2>1. UNCHANGED <<decisions, pointed, noActions, handoffs, attempts, receipts, recorded>>
    BY DEF Route, disk
  <2> QED BY <2>1, SameDisk DEF IInv
<1>4. KnownInv'
  <2>1. UNCHANGED <<decisions, pointed, noActions, handoffs, attempts, receipts, recorded>>
    BY DEF Route, disk
  <2> QED BY <2>1, SameKnownInv DEF IInv
<1>5. PlanInv'
  <2>1. UNCHANGED <<decisions, pointed, noActions, handoffs, attempts, receipts, recorded>>
    BY DEF Route, disk
  <2>2. PICK c \in Candidates : c = command.candidate
    BY DEF Route, IInv, CommandInv, Reviews
  <2>3. CASE pc' = "handoff" /\ plan' \subseteq Outstanding(c)
    BY <2>1, <2>2, <2>3, ObligationsCurrent, CurrentStays DEF PlanInv, IInv
  <2>4. CASE pc' = "idle"
    BY <2>4 DEF PlanInv, Meeting
  <2> QED BY <2>2, <2>3, <2>4 DEF Route, EndWith
<1>6. ReplayInv'
  BY DEF IInv, Route, ReplayInv, EndWith, Unresolved
<1>7. SettledInv'
  <2>1. UNCHANGED <<decisions, pointed, noActions, handoffs, attempts, receipts, recorded>>
    BY DEF Route, disk
  <2>2. PICK c \in Candidates : c = command.candidate
    BY DEF Route, IInv, CommandInv, Reviews
  <2>3. Answered(c)' = Answered(c) /\ Last(c)' = Last(c)
    BY <2>1, SameAnswered, SameHistory
  <2>4. CASE Last(c) \in receipts[c] /\ EndWith({c})
    BY <2>2, <2>3, <2>4 DEF SettledInv, EndWith, Answered
  <2>5. CASE /\ Last(c) \notin receipts[c] /\ plan' = {o \in Outstanding(c) : o.revision = Last(c)}
             /\ pc' = "handoff" /\ then' = "done" /\ UNCHANGED <<command, settled>>
    <3>1. settled' = {}
      BY <2>5 DEF IInv, CommandInv, Route
    <3>2. CASE Answered(c)
      BY <2>2, <2>3, <2>5, <3>1, <3>2 DEF SettledInv
    <3>3. CASE ~Answered(c)
      <4>1. Action(c, Last(c)) # "none"
        BY <3>3 DEF Answered
      <4>2. Last(c) \in History(c)
        <5>1. Last(c) \in Accepted(c) \/ ImportedBefore(c, Last(c))
          BY <4>1 DEF Action
        <5>2. Last(c) # 0
          BY <2>2, <5>1, Histories DEF ImportedBefore, IInv
        <5> QED BY <2>2, <5>2, Histories DEF IInv
      <4>3. ImportRequired(c, Last(c))
        BY <4>1 DEF ImportRequired, Action
      <4>4. \E o \in plan' : o.candidate = c /\ o.revision = Last(c) /\ o.import
        BY <2>2, <2>5, <4>2, <4>3, ImportIsOutstanding
      <4> QED BY <2>2, <2>3, <2>5, <3>1, <4>4 DEF SettledInv
    <3> QED BY <3>2, <3>3
  <2> QED BY <2>2, <2>4, <2>5 DEF Route
<1> QED BY <1>1, <1>2, <1>3, <1>4, <1>5, <1>6, <1>7 DEF IInv

LEMMA PlanStep == ASSUME IInv, Plan PROVE IInv'
<1>1. TypeOK'
  <2>1. UNCHANGED <<decisions, noActions, handoffs, attempts, receipts, recorded>>
    BY DEF Plan
  <2>2. /\ pointed' \in [Candidates -> UNION {{pointed[c], Last(c)} : c \in Candidates}]
        /\ \A c \in Candidates : pointed'[c] \in {pointed[c], Last(c)}
    BY DEF Plan, IInv, TypeOK, FilesTyped
  <2>6. \A c \in Candidates : {pointed[c], Last(c)} \subseteq Revisions \union {0}
    BY Repairable
  <2>7. FilesTyped'
    BY <2>1, <2>2, <2>6 DEF IInv, TypeOK, FilesTyped
  <2>3. plan' = {} \/ plan' = UNION {Outstanding(c) : c \in Candidates}
    BY DEF Plan, Stop, EndWith
  <2>4. plan' \subseteq Obligations
    BY <2>3, ObligationsCurrent DEF IInv
  <2>5. LocalTyped'
    BY <2>4 DEF Plan, Stop, EndWith, IInv, TypeOK, LocalTyped
  <2> QED BY <2>5, <2>7 DEF TypeOK
<1>2. CommandInv'
  BY DEF IInv, Plan, CommandInv, Stop, Commands, Meeting, EndWith
<1>3. DiskInv'
  <2>1. UNCHANGED <<decisions, noActions, handoffs, attempts, receipts, recorded>>
    BY DEF Plan
  <2>2. /\ pointed' \in [Candidates -> UNION {{pointed[c], Last(c)} : c \in Candidates}]
        /\ \A c \in Candidates : pointed'[c] \in {pointed[c], Last(c)}
    BY DEF Plan, IInv, TypeOK, FilesTyped
  <2> QED BY <2>1, <2>2, SameDisk DEF IInv
<1>4. KnownInv'
  <2>1. UNCHANGED <<decisions, noActions, handoffs, attempts, receipts, recorded>>
    BY DEF Plan
  <2> QED BY <2>1, SameKnownInv DEF IInv
<1>5. PlanInv'
  <2>1. UNCHANGED <<decisions, noActions, handoffs, attempts, receipts, recorded>>
    BY DEF Plan
  <2>2. CASE pc' = "handoff" /\ plan' = UNION {Outstanding(c) : c \in Candidates}
    BY <2>1, <2>2, ObligationsCurrent, CurrentStays DEF PlanInv, IInv
  <2>3. CASE pc' = "idle"
    BY <2>3 DEF PlanInv, Meeting
  <2> QED BY <2>2, <2>3 DEF Plan, Stop, EndWith
<1>6. ReplayInv'
  BY DEF IInv, Plan, ReplayInv, Stop, Unresolved, EndWith
<1>7. SettledInv'
  BY DEF IInv, Plan, SettledInv, CommandInv, Stop, Answered, EndWith, Action, ImportedBefore
<1> QED BY <1>1, <1>2, <1>3, <1>4, <1>5, <1>6, <1>7 DEF IInv

LEMMA DeliverStep == ASSUME IInv, Deliver PROVE IInv'
<1>1. TypeOK'
  <2>1. UNCHANGED <<decisions, pointed, attempts, receipts, recorded>>
    BY DEF Deliver
  <2>2. CASE /\ \A o \in plan : ~o.handoff
             /\ Goto("import") /\ UNCHANGED <<noActions, handoffs>>
    BY <2>1, <2>2 DEF IInv, TypeOK, FilesTyped, LocalTyped, Goto
  <2>3. CASE ~(UNCHANGED <<noActions, handoffs>> /\ Goto("import") /\ \A o \in plan : ~o.handoff)
    <3>1. PICK o \in plan :
             /\ o.handoff /\ Current(o) /\ o.candidate \in Candidates
             /\ \/ /\ o.action = "none" /\ UNCHANGED handoffs
                   /\ noActions' = [noActions EXCEPT ![o.candidate] = @ \union {o.revision}]
                \/ /\ o.action # "none" /\ UNCHANGED noActions
                   /\ handoffs' = [handoffs EXCEPT ![o.candidate] = @ \union {o.revision}]
             /\ \/ plan' = Delivered(o) /\ UNCHANGED <<pc, command, then, settled>>
                \/ Stop
      BY <2>3, DeliverIs, Zenon
    <3>2. o \in Obligations
      BY DEF IInv, TypeOK, LocalTyped
    <3>3. FilesTyped'
      <4>0. /\ noActions \in [Candidates -> SUBSET Revisions]
            /\ handoffs \in [Candidates -> SUBSET Revisions] /\ o.revision \in Revisions
        BY <3>2 DEF IInv, TypeOK, FilesTyped, Obligations
      <4>1. noActions' \in [Candidates -> SUBSET Revisions]
        BY <3>1, <4>0
      <4>2. handoffs' \in [Candidates -> SUBSET Revisions]
        BY <3>1, <4>0
      <4> QED BY <2>1, <4>1, <4>2 DEF IInv, TypeOK, FilesTyped
    <3>4. plan' \subseteq Obligations
      <4>1. [o EXCEPT !.handoff = FALSE] \in Obligations
        BY <3>2 DEF Obligations
      <4> QED BY <3>1, <4>1 DEF Delivered, Stop, EndWith, IInv, TypeOK, LocalTyped
    <3>5. LocalTyped'
      BY <3>1, <3>4 DEF IInv, TypeOK, LocalTyped, Stop, EndWith
    <3> QED BY <3>3, <3>5 DEF TypeOK
  <2> QED BY <2>2, <2>3
<1>2. CommandInv'
  BY DEF IInv, Deliver, CommandInv, Goto, Stop, Commands, Meeting, EndWith
<1>3. DiskInv'
  <2>1. UNCHANGED <<decisions, pointed, attempts, receipts, recorded>>
    BY DEF Deliver
  <2>2. CASE /\ \A o \in plan : ~o.handoff
             /\ Goto("import") /\ UNCHANGED <<noActions, handoffs>>
    BY <2>1, <2>2, SameDisk DEF IInv
  <2>3. CASE ~(UNCHANGED <<noActions, handoffs>> /\ Goto("import") /\ \A o \in plan : ~o.handoff)
    <3>1. PICK o \in plan :
             /\ o.handoff /\ Current(o) /\ o.candidate \in Candidates
             /\ \/ /\ o.action = "none" /\ UNCHANGED handoffs
                   /\ noActions' = [noActions EXCEPT ![o.candidate] = @ \union {o.revision}]
                \/ /\ o.action # "none" /\ UNCHANGED noActions
                   /\ handoffs' = [handoffs EXCEPT ![o.candidate] = @ \union {o.revision}]
             /\ \/ plan' = Delivered(o) /\ UNCHANGED <<pc, command, then, settled>>
                \/ Stop
      BY <2>3, DeliverIs, Zenon
    <3> SUFFICES ASSUME NEW c \in Candidates PROVE DiskOK(c)'
      BY DEF DiskInv
    <3>2. DiskOK(c)
      BY DEF IInv, DiskInv
    <3>3. Last(c)' = Last(c) /\ Accepted(c)' = Accepted(c) /\ History(c)' = History(c)
      BY <2>1, SameHistory
    <3>4. HistoryOK(c)' /\ ReceiptsOK(c)'
      BY <2>1, <3>2, <3>3 DEF DiskOK, WellFormed, HistoryOK, ReceiptsOK
    <3>5. /\ \A r : ImportedBefore(c, r)' = ImportedBefore(c, r) /\ Action(c, r)' = Action(c, r)
          /\ Unresolved(c)' = Unresolved(c)
      BY <2>1, <3>3 DEF ImportedBefore, Action, Unresolved
    <3>6. handoffs[c] \subseteq handoffs'[c] /\ AttemptsOK(c)'
      BY <2>1, <3>1, <3>2, <3>3 DEF DiskOK, WellFormed, AttemptsOK, IInv, TypeOK, FilesTyped
    <3>7. \A r \in noActions'[c] \ noActions[c] :
            r \in History(c) \ Accepted(c) /\ Action(c, r) = "none" /\ ~ImportedBefore(c, r)
      BY <3>1 DEF Current, Action, IInv, TypeOK, FilesTyped
    <3>8. NoActionsOK(c)' /\ AuthorityOK(c)'
      BY <2>1, <3>2, <3>3, <3>5, <3>7 DEF DiskOK, WellFormed, NoActionsOK, AuthorityOK
    <3> QED BY <2>1, <3>2, <3>3, <3>4, <3>5, <3>6, <3>8 DEF DiskOK, WellFormed
  <2> QED BY <2>2, <2>3
<1>4. KnownInv'
  <2>1. UNCHANGED <<decisions, pointed, attempts, receipts, recorded>>
    BY DEF Deliver
  <2> QED BY <2>1, SameKnownInv DEF IInv
<1>5. PlanInv'
  <2>1. UNCHANGED <<decisions, pointed, attempts, receipts, recorded>>
    BY DEF Deliver
  <2>2. CASE /\ \A o \in plan : ~o.handoff
             /\ Goto("import") /\ UNCHANGED <<noActions, handoffs>>
    BY <2>1, <2>2, CurrentStays DEF IInv, PlanInv, Goto, Meeting, Deliver
  <2>3. CASE ~(UNCHANGED <<noActions, handoffs>> /\ Goto("import") /\ \A o \in plan : ~o.handoff)
    <3>1. PICK o \in plan :
             /\ o.handoff /\ Current(o) /\ o.candidate \in Candidates
             /\ \/ /\ o.action = "none" /\ UNCHANGED handoffs
                   /\ noActions' = [noActions EXCEPT ![o.candidate] = @ \union {o.revision}]
                \/ /\ o.action # "none" /\ UNCHANGED noActions
                   /\ handoffs' = [handoffs EXCEPT ![o.candidate] = @ \union {o.revision}]
             /\ \/ plan' = Delivered(o) /\ UNCHANGED <<pc, command, then, settled>>
                \/ Stop
      BY <2>3, DeliverIs, Zenon
    <3>2. CASE Stop
      BY <3>2 DEF Stop, EndWith, PlanInv
    <3>3. CASE plan' = Delivered(o) /\ pc' = "handoff"
      <4> SUFFICES ASSUME NEW x \in plan' PROVE Current(x)'
        BY <3>3 DEF PlanInv
      <4>1. CASE x \in plan
        <5>1. Current(x) /\ x.candidate \in Candidates
          BY <4>1 DEF Deliver, IInv, PlanInv, Meeting, TypeOK, LocalTyped, Obligations
        <5>2. handoffs[x.candidate] \subseteq handoffs'[x.candidate]
          BY <3>1, <5>1 DEF IInv, TypeOK, FilesTyped
        <5> QED BY <2>1, <5>1, <5>2, CurrentStays
      <4>2. CASE x = [o EXCEPT !.handoff = FALSE] /\ o.import
        <5>1. handoffs[o.candidate] \subseteq handoffs'[o.candidate] /\ Current(o)'
          BY <2>1, <3>1, CurrentStays DEF IInv, TypeOK, FilesTyped
        <5>2. /\ x.candidate = o.candidate /\ x.revision = o.revision /\ x.action = o.action
              /\ ~x.handoff /\ x.import
          BY <4>2 DEF IInv, Obligations
        <5>3. o.revision \in handoffs'[o.candidate]
          BY <3>1, <4>2 DEF Current, ImportRequired, IInv, TypeOK, FilesTyped
        <5> QED BY <4>2, <5>1, <5>2, <5>3 DEF Current
      <4> QED BY <3>3, <4>1, <4>2 DEF Delivered
    <3> QED BY <3>1, <3>2, <3>3 DEF Deliver
  <2> QED BY <2>2, <2>3
<1>6. ReplayInv'
  BY DEF IInv, Deliver, ReplayInv, CommandInv, Goto, Stop, Unresolved, EndWith
<1>7. SettledInv'
  <2>1. UNCHANGED <<decisions, pointed, attempts, receipts, recorded>>
    BY DEF Deliver
  <2>2. CASE /\ \A o \in plan : ~o.handoff
             /\ Goto("import") /\ UNCHANGED <<noActions, handoffs>>
    BY <2>1, <2>2, SameAnswered, SameHistory DEF IInv, SettledInv, Goto, Meeting, Deliver
  <2>3. CASE ~(UNCHANGED <<noActions, handoffs>> /\ Goto("import") /\ \A o \in plan : ~o.handoff)
    <3>1. PICK o \in plan :
             /\ o.handoff /\ Current(o) /\ o.candidate \in Candidates
             /\ \/ /\ o.action = "none" /\ UNCHANGED handoffs
                   /\ noActions' = [noActions EXCEPT ![o.candidate] = @ \union {o.revision}]
                \/ /\ o.action # "none" /\ UNCHANGED noActions
                   /\ handoffs' = [handoffs EXCEPT ![o.candidate] = @ \union {o.revision}]
             /\ \/ plan' = Delivered(o) /\ UNCHANGED <<pc, command, then, settled>>
                \/ Stop
      BY <2>3, DeliverIs, Zenon
    <3>2. CASE Stop
      BY <3>2 DEF Stop, EndWith, SettledInv
    <3>3. CASE plan' = Delivered(o) /\ UNCHANGED <<pc, command, then, settled>>
      <4> DEFINE c == command.candidate
      <4>1. /\ settled' = {} /\ Answered(c)' = Answered(c) /\ Last(c)' = Last(c)
        BY <2>1, <3>3, SameAnswered, SameHistory DEF Deliver, IInv, CommandInv
      <4>2. ASSUME NEW x \in plan, x.candidate = c, x.revision = Last(c), x.import
            PROVE  \E e \in plan' : e.candidate = c /\ e.revision = Last(c) /\ e.import
        <5>1. CASE x # o
          BY <3>3, <4>2, <5>1 DEF Delivered
        <5>2. CASE x = o
          <6> DEFINE e == [o EXCEPT !.handoff = FALSE]
          <6>1. e \in plan'
            BY <3>3, <4>2, <5>2 DEF Delivered
          <6>2. e.candidate = o.candidate /\ e.revision = o.revision /\ e.import = o.import
            BY DEF IInv, Obligations
          <6> QED BY <4>2, <5>2, <6>1, <6>2
        <5> QED BY <5>1, <5>2
      <4> QED BY <3>3, <4>1, <4>2 DEF Deliver, IInv, SettledInv
    <3> QED BY <3>1, <3>2, <3>3
  <2> QED BY <2>2, <2>3
<1> QED BY <1>1, <1>2, <1>3, <1>4, <1>5, <1>6, <1>7 DEF IInv

LEMMA BeginImportStep == ASSUME IInv, BeginImport PROVE IInv'
<1>1. TypeOK'
  <2>1. UNCHANGED <<decisions, pointed, noActions, handoffs, receipts, recorded>>
    BY DEF BeginImport
  <2>2. attempts' \in [Candidates -> SUBSET Revisions]
    <3>1. attempts \in [Candidates -> SUBSET Revisions]
      BY DEF IInv, TypeOK, FilesTyped
    <3>2. plan # {} => First(plan).revision \in Revisions
      BY FirstIs DEF IInv, TypeOK, LocalTyped, Obligations
    <3> QED BY <3>1, <3>2 DEF BeginImport
  <2>3. FilesTyped'
    BY <2>1, <2>2 DEF IInv, TypeOK, FilesTyped
  <2>4. plan' \in {plan, {}}
    BY DEF BeginImport, Goto, Stop, EndWith
  <2>5. LocalTyped'
    BY <2>4 DEF BeginImport, Goto, Stop, EndWith, IInv, TypeOK, LocalTyped, CommandInv, Meeting,
       Reviews
  <2> QED BY <2>3, <2>5 DEF TypeOK
<1>2. CommandInv'
  BY DEF IInv, BeginImport, CommandInv, EndWith, Goto, Stop, Commands, Meeting
<1>3. DiskInv'
  <2>1. UNCHANGED <<decisions, pointed, noActions, handoffs, receipts, recorded>>
    BY DEF BeginImport
  <2>2. CASE UNCHANGED attempts
    BY <2>1, <2>2, SameDisk DEF IInv
  <2>3. CASE /\ plan # {}
             /\ Goto("apply") \/ Stop
             /\ attempts' = [attempts EXCEPT ![First(plan).candidate] = @ \union {First(plan).revision}]
    <3>1. PICK o \in plan : o = First(plan)
      BY <2>3, FirstCurrent DEF BeginImport, IInv
    <3>2. attempts' = [attempts EXCEPT ![o.candidate] = @ \union {o.revision}]
      BY <2>3, <3>1
    <3>3. /\ o.candidate \in Candidates /\ o.import
          /\ o.revision \in History(o.candidate) \intersect handoffs[o.candidate]
          /\ o.revision \notin noActions[o.candidate]
          /\ o.action = Action(o.candidate, o.revision) /\ o.action # "none"
          /\ o.action = "accept" <=> o.revision \in Accepted(o.candidate)
          /\ o.action = "accept" => o.revision = Last(o.candidate)
      BY <2>3, <3>1, FirstCurrent DEF BeginImport
    <3> SUFFICES ASSUME NEW c \in Candidates PROVE DiskOK(c)'
      BY DEF DiskInv
    <3>4. DiskOK(c)
      BY DEF IInv, DiskInv
    <3>5. Last(c)' = Last(c) /\ Accepted(c)' = Accepted(c) /\ History(c)' = History(c)
      BY <2>1, SameHistory
    <3>6. /\ attempts[c] \subseteq attempts'[c]
          /\ \A r \in attempts'[c] \ attempts[c] : c = o.candidate /\ r = o.revision
      BY <3>2 DEF IInv
    <3>7. HistoryOK(c)' /\ NoActionsOK(c)' /\ ReceiptsOK(c)'
      BY <2>1, <3>4, <3>5, <3>6 DEF DiskOK, WellFormed, HistoryOK, NoActionsOK, ReceiptsOK
    <3>8. \A r : ImportedBefore(c, r)' = ImportedBefore(c, r) /\ Action(c, r)' = Action(c, r)
      BY <2>1, <3>5 DEF ImportedBefore, Action
    <3>9. AttemptsOK(c)'
      BY <2>1, <3>3, <3>4, <3>5, <3>6 DEF DiskOK, WellFormed, AttemptsOK
    <3>10. AuthorityOK(c)'
      BY <2>1, <3>3, <3>4, <3>6, <3>8 DEF DiskOK, WellFormed, AuthorityOK
    <3>11. \A r \in Unresolved(c)' \intersect Accepted(c) : r = Last(c)
      BY <2>1, <3>3, <3>4, <3>6 DEF DiskOK, Unresolved
    <3> QED BY <2>1, <3>4, <3>5, <3>7, <3>9, <3>10, <3>11 DEF DiskOK, WellFormed
  <2> QED BY <2>2, <2>3 DEF BeginImport
<1>4. KnownInv'
  <2>1. UNCHANGED <<decisions, pointed, noActions, handoffs, receipts, recorded>>
    BY DEF BeginImport
  <2>2. CASE UNCHANGED attempts
    BY <2>1, <2>2, SameKnownInv DEF IInv
  <2>3. CASE /\ plan # {}
             /\ Goto("apply") \/ Stop
             /\ attempts' = [attempts EXCEPT ![First(plan).candidate] = @ \union {First(plan).revision}]
    <3>1. PICK o \in plan : o = First(plan)
      BY <2>3, FirstCurrent DEF BeginImport, IInv
    <3>2. attempts' = [attempts EXCEPT ![o.candidate] = @ \union {o.revision}]
      BY <2>3, <3>1
    <3>3. /\ o.candidate \in Candidates /\ o.import
          /\ o.revision \in History(o.candidate) \intersect handoffs[o.candidate]
          /\ o.revision \notin noActions[o.candidate]
          /\ o.action = Action(o.candidate, o.revision) /\ o.action # "none"
          /\ o.action = "accept" <=> o.revision \in Accepted(o.candidate)
          /\ o.action = "accept" => o.revision = Last(o.candidate)
      BY <2>3, <3>1, FirstCurrent DEF BeginImport
    <3>4. \A c \in Candidates : attempts[c] \subseteq attempts'[c] /\ Known(c)' = Known(c)
      BY <2>1, <3>2, SameKnown DEF IInv
    <3>5. \A h \in recorded : Accepted(h.candidate)' = Accepted(h.candidate)
      BY <2>1, SameHistory
    <3> QED BY <2>1, <3>4, <3>5 DEF IInv, KnownInv
  <2> QED BY <2>2, <2>3 DEF BeginImport
<1>5. PlanInv'
  <2>1. UNCHANGED <<decisions, pointed, noActions, handoffs, receipts, recorded>>
    BY DEF BeginImport
  <2>2. CASE pc' \notin Meeting
    BY <2>2 DEF PlanInv, Meeting
  <2>3. CASE pc' \in Meeting
    <3>1. plan # {} /\ pc' = "apply" /\ UNCHANGED plan
      BY <2>3 DEF BeginImport, Goto, Stop, EndWith, IInv, TypeOK, LocalTyped, Meeting
    <3>2. PICK o \in plan : o = First(plan)
      BY <3>1, FirstCurrent DEF BeginImport
    <3>3. o.candidate \in Candidates
      BY DEF IInv, TypeOK, LocalTyped, Obligations
    <3>4. o.revision \in attempts'[o.candidate]
      <4>1. attempts' = [attempts EXCEPT ![o.candidate] = @ \union {o.revision}]
        BY <3>1, <3>2 DEF BeginImport, Stop, EndWith
      <4>2. attempts \in [Candidates -> SUBSET Revisions]
        BY DEF IInv, TypeOK, FilesTyped
      <4> QED BY <3>3, <4>1, <4>2
    <3>5. \A x \in plan : Current(x)' /\ ~x.handoff
      BY <2>1, CurrentStays DEF BeginImport, IInv, PlanInv, Meeting
    <3> QED BY <3>1, <3>2, <3>4, <3>5 DEF PlanInv
  <2> QED BY <2>2, <2>3
<1>6. ReplayInv'
  <2>1. UNCHANGED <<decisions, pointed, noActions, handoffs, receipts, recorded>>
    BY DEF BeginImport
  <2>2. CASE pc' = "idle" \/ then' # "decide"
    BY <2>2 DEF ReplayInv, BeginImport, Goto, Stop, EndWith
  <2>3. CASE pc' # "idle" /\ then' = "decide"
    <3>1. UNCHANGED <<command, plan, then>> /\ then = "decide" /\ pc = "import"
      BY <2>3 DEF BeginImport, Goto, Stop, EndWith
    <3>2. PICK c \in Candidates : c = command.candidate
      BY <3>1 DEF IInv, CommandInv, Reviews, Meeting
    <3>3. /\ pointed[c] = Last(c)
          /\ \A r \in Unresolved(c) : \E x \in plan : x.candidate = c /\ x.revision = r
      BY <3>1, <3>2 DEF IInv, ReplayInv, Meeting
    <3>4. Last(c)' = Last(c)
      BY <2>1, SameHistory
    <3>5. CASE plan = {} /\ pc' = "decide" /\ UNCHANGED attempts
      BY <2>1, <3>1, <3>2, <3>3, <3>4, <3>5 DEF ReplayInv, Unresolved
    <3>6. CASE /\ plan # {} /\ pc' = "apply"
               /\ attempts' = [attempts EXCEPT ![First(plan).candidate] = @ \union {First(plan).revision}]
      <4>1. PICK o \in plan : o = First(plan)
        BY <3>1, <3>6, FirstCurrent
      <4>2. \A r \in Unresolved(c)' : r \in Unresolved(c) \/ (o.candidate = c /\ o.revision = r)
        BY <2>1, <3>6, <4>1 DEF Unresolved, IInv
      <4>3. \A r \in Unresolved(c)' : \E x \in plan' : x.candidate = c /\ x.revision = r
        BY <3>1, <3>3, <4>1, <4>2
      <4> QED BY <2>1, <3>1, <3>2, <3>3, <3>4, <3>6, <4>3 DEF ReplayInv
    <3> QED BY <2>3, <3>1, <3>5, <3>6 DEF BeginImport, Goto, Stop, EndWith
  <2> QED BY <2>2, <2>3
<1>7. SettledInv'
  <2>1. UNCHANGED <<decisions, pointed, noActions, handoffs, receipts, recorded>>
    BY DEF BeginImport
  <2>2. CASE plan = {} /\ then = "done" /\ EndWith({command.candidate})
    <3>1. PICK c \in Candidates : c = command.candidate
      BY <2>2 DEF BeginImport, IInv, CommandInv, Reviews, Meeting
    <3>2. Answered(c)
      BY <2>2, <3>1 DEF BeginImport, IInv, SettledInv, Meeting
    <3>3. Answered(c)'
      BY <2>1, <3>2, SameAnswered
    <3> QED BY <2>2, <3>1, <3>3 DEF SettledInv, EndWith
  <2>3. CASE Stop
    BY <2>3 DEF Stop, EndWith, SettledInv
  <2>4. CASE UNCHANGED <<command, plan, then, settled>>
    <3>1. settled' = {}
      BY <2>4 DEF BeginImport, IInv, CommandInv
    <3>2. CASE then # "done"
      BY <2>4, <3>1, <3>2 DEF SettledInv
    <3>3. CASE then = "done"
      <4>1. PICK c \in Candidates : c = command.candidate
        BY <3>3 DEF BeginImport, IInv, CommandInv, Reviews, Meeting
      <4>2. Answered(c)' = Answered(c) /\ Last(c)' = Last(c)
        BY <2>1, SameAnswered, SameHistory
      <4> QED BY <2>4, <3>1, <3>3, <4>1, <4>2 DEF BeginImport, IInv, SettledInv, Meeting
    <3> QED BY <3>2, <3>3
  <2> QED BY <2>2, <2>3, <2>4 DEF BeginImport, Goto
<1> QED BY <1>1, <1>2, <1>3, <1>4, <1>5, <1>6, <1>7 DEF IInv

LEMMA ApplyStep == ASSUME IInv, Apply PROVE IInv'
<1>1. TypeOK'
  <2>1. UNCHANGED <<decisions, pointed, noActions, handoffs, attempts, receipts>>
    BY DEF Apply, disk
  <2>2. PICK o \in plan : o = First(plan)
    BY FirstCurrent DEF Apply, IInv, PlanInv
  <2>3. /\ recorded' \in {recorded, recorded \union {HandoffOf(o)}}
        /\ pc' # "idle" => pc' = "receipt" /\ HandoffOf(o) \in recorded'
                          /\ UNCHANGED <<command, plan, then, settled>>
    BY <2>2 DEF Apply, Knowledge!Record, Goto, Stop, EndWith
  <2>4. /\ o.candidate \in Candidates /\ o.revision \in attempts[o.candidate]
        /\ o.action \in {"accept", "withdraw"}
        /\ o.action = "accept" <=> o.revision \in Accepted(o.candidate)
    BY <2>2, FirstCurrent DEF Apply, IInv, PlanInv
  <2>5. HandoffOf(o) \in Knowledge!Handoffs
    <3>1. o.revision \in Revisions
      BY DEF IInv, TypeOK, LocalTyped, Obligations
    <3> QED BY <2>4, <3>1 DEF HandoffOf, Knowledge!Handoffs, Knowledge!Accepts,
               Knowledge!Withdraws
  <2>6. FilesTyped'
    BY <2>1, <2>3, <2>5 DEF IInv, TypeOK, FilesTyped
  <2>7. LocalTyped'
    BY DEF Apply, Goto, Stop, EndWith, IInv, TypeOK, LocalTyped
  <2> QED BY <2>6, <2>7 DEF TypeOK
<1>2. CommandInv'
  BY DEF IInv, Apply, CommandInv, HandoffOf, Goto, Stop, Commands, Meeting, EndWith
<1>3. DiskInv'
  <2>1. UNCHANGED <<decisions, pointed, noActions, handoffs, attempts, receipts>>
    BY DEF Apply, disk
  <2> QED BY <2>1, SameDisk DEF IInv
<1>4. KnownInv'
  <2>1. UNCHANGED <<decisions, pointed, noActions, handoffs, attempts, receipts>>
    BY DEF Apply, disk
  <2>2. PICK o \in plan : o = First(plan)
    BY FirstCurrent DEF Apply, IInv, PlanInv
  <2>3. /\ recorded' \in {recorded, recorded \union {HandoffOf(o)}}
        /\ pc' # "idle" => pc' = "receipt" /\ HandoffOf(o) \in recorded'
                          /\ UNCHANGED <<command, plan, then, settled>>
    BY <2>2 DEF Apply, Knowledge!Record, Goto, Stop, EndWith
  <2>4. /\ o.candidate \in Candidates /\ o.revision \in attempts[o.candidate]
        /\ o.action \in {"accept", "withdraw"}
        /\ o.action = "accept" <=> o.revision \in Accepted(o.candidate)
    BY <2>2, FirstCurrent DEF Apply, IInv, PlanInv
  <2>5. /\ HandoffOf(o).candidate = o.candidate /\ HandoffOf(o).revision = o.revision
        /\ HandoffOf(o).action = o.action
    BY DEF HandoffOf
  <2>6. \A c \in Candidates : Accepted(c)' = Accepted(c)
    BY <2>1, SameHistory
  <2>7. ASSUME NEW c \in Candidates
        PROVE  receipts'[c] \subseteq Known(c)' /\ Known(c)' \subseteq attempts'[c]
    <3>1. Known(c) \subseteq Known(c)' /\ \A r \in Known(c)' : r \in Known(c) \/ (c = o.candidate /\ r = o.revision)
      BY <2>3, <2>5 DEF Known, Knowledge!History
    <3> QED BY <2>1, <2>4, <3>1 DEF IInv, KnownInv
  <2>8. ASSUME NEW h \in recorded'
        PROVE  h.action = "accept" <=> h.revision \in Accepted(h.candidate)'
    <3>1. CASE h \in recorded
      BY <2>6, <3>1, KnownIsPlanned DEF IInv, KnownInv
    <3>2. CASE h = HandoffOf(o)
      BY <2>4, <2>5, <2>6, <3>2
    <3> QED BY <2>3, <2>8, <3>1, <3>2
  <2> QED BY <2>7, <2>8 DEF KnownInv
<1>5. PlanInv'
  <2>1. UNCHANGED <<decisions, pointed, noActions, handoffs, attempts, receipts>>
    BY DEF Apply, disk
  <2>2. PICK o \in plan : o = First(plan)
    BY FirstCurrent DEF Apply, IInv, PlanInv
  <2>3. /\ recorded' \in {recorded, recorded \union {HandoffOf(o)}}
        /\ pc' # "idle" => pc' = "receipt" /\ HandoffOf(o) \in recorded'
                          /\ UNCHANGED <<command, plan, then, settled>>
    BY <2>2 DEF Apply, Knowledge!Record, Goto, Stop, EndWith
  <2>4. /\ o.candidate \in Candidates /\ o.revision \in attempts[o.candidate]
        /\ o.action \in {"accept", "withdraw"}
        /\ o.action = "accept" <=> o.revision \in Accepted(o.candidate)
    BY <2>2, FirstCurrent DEF Apply, IInv, PlanInv
  <2>5. CASE pc' = "idle"
    BY <2>5 DEF PlanInv, Meeting
  <2>6. CASE pc' # "idle"
    <3>1. \A x \in plan : Current(x)' /\ ~x.handoff
      BY <2>1, CurrentStays DEF Apply, IInv, PlanInv, Meeting
    <3> QED BY <2>1, <2>2, <2>3, <2>4, <2>6, <3>1 DEF PlanInv, HandoffOf
  <2> QED BY <2>5, <2>6
<1>6. ReplayInv'
  <2>1. UNCHANGED <<decisions, pointed, noActions, handoffs, attempts, receipts>>
    BY DEF Apply, disk
  <2>2. PICK o \in plan : o = First(plan)
    BY FirstCurrent DEF Apply, IInv, PlanInv
  <2>3. /\ recorded' \in {recorded, recorded \union {HandoffOf(o)}}
        /\ pc' # "idle" => pc' = "receipt" /\ HandoffOf(o) \in recorded'
                          /\ UNCHANGED <<command, plan, then, settled>>
    BY <2>2 DEF Apply, Knowledge!Record, Goto, Stop, EndWith
  <2>4. /\ o.candidate \in Candidates /\ o.revision \in attempts[o.candidate]
        /\ o.action \in {"accept", "withdraw"}
        /\ o.action = "accept" <=> o.revision \in Accepted(o.candidate)
    BY <2>2, FirstCurrent DEF Apply, IInv, PlanInv
  <2>5. CASE pc' = "idle"
    BY <2>5 DEF ReplayInv, Meeting
  <2>6. CASE pc' # "idle" /\ then # "decide"
    BY <2>3, <2>6 DEF ReplayInv
  <2>7. CASE pc' # "idle" /\ then = "decide"
    <3>1. PICK c \in Candidates : c = command.candidate
      BY <2>7 DEF Apply, IInv, CommandInv, Reviews, Meeting
    <3>2. Last(c)' = Last(c) /\ Unresolved(c)' = Unresolved(c)
      BY <2>1, SameHistory DEF Unresolved
    <3> QED BY <2>1, <2>3, <2>7, <3>1, <3>2 DEF Apply, IInv, ReplayInv, Meeting
  <2> QED BY <2>5, <2>6, <2>7
<1>7. SettledInv'
  <2>1. UNCHANGED <<decisions, pointed, noActions, handoffs, attempts, receipts>>
    BY DEF Apply, disk
  <2>2. PICK o \in plan : o = First(plan)
    BY FirstCurrent DEF Apply, IInv, PlanInv
  <2>3. /\ recorded' \in {recorded, recorded \union {HandoffOf(o)}}
        /\ pc' # "idle" => pc' = "receipt" /\ HandoffOf(o) \in recorded'
                          /\ UNCHANGED <<command, plan, then, settled>>
    BY <2>2 DEF Apply, Knowledge!Record, Goto, Stop, EndWith
  <2>4. /\ o.candidate \in Candidates /\ o.revision \in attempts[o.candidate]
        /\ o.action \in {"accept", "withdraw"}
        /\ o.action = "accept" <=> o.revision \in Accepted(o.candidate)
    BY <2>2, FirstCurrent DEF Apply, IInv, PlanInv
  <2>5. settled' = {}
    BY DEF Apply, IInv, CommandInv, Goto, Stop, EndWith
  <2>6. CASE pc' = "idle" \/ then # "done"
    BY <2>3, <2>5, <2>6 DEF SettledInv, Meeting
  <2>7. CASE pc' # "idle" /\ then = "done"
    <3>1. PICK c \in Candidates : c = command.candidate
      BY <2>7 DEF Apply, IInv, CommandInv, Reviews, Meeting
    <3>2. Answered(c)' = Answered(c) /\ Last(c)' = Last(c)
      BY <2>1, SameAnswered, SameHistory
    <3> QED BY <2>3, <2>5, <2>7, <3>1, <3>2 DEF Apply, IInv, SettledInv, Meeting
  <2> QED BY <2>6, <2>7
<1> QED BY <1>1, <1>2, <1>3, <1>4, <1>5, <1>6, <1>7 DEF IInv

LEMMA ReceiptStep == ASSUME IInv, Receipt PROVE IInv'
<1>1. TypeOK'
  <2>1. UNCHANGED <<decisions, pointed, noActions, handoffs, attempts, recorded>>
    BY DEF Receipt
  <2>2. PICK o \in plan : o = First(plan)
    BY FirstCurrent DEF Receipt, IInv, PlanInv
  <2>3. /\ receipts' = [receipts EXCEPT ![o.candidate] = @ \union {o.revision}]
        /\ \/ plan' = plan \ {o} /\ pc' = "import" /\ UNCHANGED <<command, then, settled>>
           \/ Stop
    BY <2>2 DEF Receipt
  <2>4. /\ o.candidate \in Candidates /\ o.revision \in attempts[o.candidate]
        /\ HandoffOf(o) \in recorded
        /\ o.revision \in Accepted(o.candidate) => o.revision = Last(o.candidate)
    BY <2>2, FirstCurrent DEF Receipt, IInv, PlanInv
  <2>5. receipts' \in [Candidates -> SUBSET Revisions]
    <3>1. receipts \in [Candidates -> SUBSET Revisions] /\ o.revision \in Revisions
      BY DEF IInv, TypeOK, FilesTyped, LocalTyped, Obligations
    <3> QED BY <2>3, <3>1
  <2>6. FilesTyped'
    BY <2>1, <2>5 DEF IInv, TypeOK, FilesTyped
  <2>7. LocalTyped'
    BY <2>3 DEF Stop, EndWith, IInv, TypeOK, LocalTyped
  <2> QED BY <2>6, <2>7 DEF TypeOK
<1>2. CommandInv'
  BY DEF IInv, Receipt, CommandInv, Stop, Commands, Meeting, EndWith
<1>3. DiskInv'
  <2>1. UNCHANGED <<decisions, pointed, noActions, handoffs, attempts, recorded>>
    BY DEF Receipt
  <2>2. PICK o \in plan : o = First(plan)
    BY FirstCurrent DEF Receipt, IInv, PlanInv
  <2>3. /\ receipts' = [receipts EXCEPT ![o.candidate] = @ \union {o.revision}]
        /\ \/ plan' = plan \ {o} /\ pc' = "import" /\ UNCHANGED <<command, then, settled>>
           \/ Stop
    BY <2>2 DEF Receipt
  <2>4. /\ o.candidate \in Candidates /\ o.revision \in attempts[o.candidate]
        /\ HandoffOf(o) \in recorded
        /\ o.revision \in Accepted(o.candidate) => o.revision = Last(o.candidate)
    BY <2>2, FirstCurrent DEF Receipt, IInv, PlanInv
  <2>5. ASSUME NEW c \in Candidates
        PROVE  /\ receipts[c] \subseteq receipts'[c]
               /\ \A r \in receipts'[c] : r \in receipts[c] \/ (c = o.candidate /\ r = o.revision)
    BY <2>3, <2>4 DEF IInv
  <2> SUFFICES ASSUME NEW c \in Candidates PROVE DiskOK(c)'
    BY DEF DiskInv
  <2>6. DiskOK(c) /\ Last(c) \in Nat /\ History(c) = 1..Last(c)
    BY Histories DEF IInv, DiskInv
  <2>7. Last(c)' = Last(c) /\ Accepted(c)' = Accepted(c) /\ History(c)' = History(c)
    BY <2>1, SameHistory
  <2>8. HistoryOK(c)' /\ NoActionsOK(c)' /\ AttemptsOK(c)'
    BY <2>1, <2>6, <2>7 DEF DiskOK, WellFormed, HistoryOK, NoActionsOK, AttemptsOK
  <2>9. ReceiptsOK(c)'
    BY <2>1, <2>4, <2>5, <2>6 DEF DiskOK, WellFormed, ReceiptsOK
  <2>10. \A r \in noActions[c] : ~ImportedBefore(c, r)'
    <3> SUFFICES ASSUME NEW r \in noActions[c], NEW a \in receipts'[c] \intersect Accepted(c), a < r
                 PROVE  FALSE
      BY <2>7 DEF ImportedBefore
    <3>1. r \in 1..Last(c) /\ ~ImportedBefore(c, r)
      BY <2>6 DEF DiskOK, WellFormed, NoActionsOK, AuthorityOK
    <3>2. a = Last(c)
      BY <2>4, <2>5, <3>1 DEF ImportedBefore
    <3> QED BY <2>6, <3>1, <3>2
  <2>11. \A r \in attempts[c] : Action(c, r)' # "none"
    BY <2>5, <2>6, <2>7 DEF DiskOK, WellFormed, AuthorityOK, Action, ImportedBefore
  <2>12. AuthorityOK(c)'
    BY <2>1, <2>6, <2>10, <2>11 DEF DiskOK, WellFormed, AuthorityOK
  <2>13. \A r \in Unresolved(c)' \intersect Accepted(c) : r = Last(c)
    BY <2>1, <2>5, <2>6 DEF DiskOK, Unresolved
  <2> QED BY <2>1, <2>6, <2>7, <2>8, <2>9, <2>12, <2>13 DEF DiskOK, WellFormed
<1>4. KnownInv'
  <2>1. UNCHANGED <<decisions, pointed, noActions, handoffs, attempts, recorded>>
    BY DEF Receipt
  <2>2. PICK o \in plan : o = First(plan)
    BY FirstCurrent DEF Receipt, IInv, PlanInv
  <2>3. /\ receipts' = [receipts EXCEPT ![o.candidate] = @ \union {o.revision}]
        /\ \/ plan' = plan \ {o} /\ pc' = "import" /\ UNCHANGED <<command, then, settled>>
           \/ Stop
    BY <2>2 DEF Receipt
  <2>4. /\ o.candidate \in Candidates /\ o.revision \in attempts[o.candidate]
        /\ HandoffOf(o) \in recorded
        /\ o.revision \in Accepted(o.candidate) => o.revision = Last(o.candidate)
    BY <2>2, FirstCurrent DEF Receipt, IInv, PlanInv
  <2>5. ASSUME NEW c \in Candidates
        PROVE  /\ receipts[c] \subseteq receipts'[c]
               /\ \A r \in receipts'[c] : r \in receipts[c] \/ (c = o.candidate /\ r = o.revision)
    BY <2>3, <2>4 DEF IInv
  <2>6. ASSUME NEW c \in Candidates
        PROVE  receipts'[c] \subseteq Known(c) /\ Known(c)' = Known(c)
    <3>1. c = o.candidate => o.revision \in Known(c)
      BY <2>4 DEF Known, Knowledge!History, HandoffOf
    <3> QED BY <2>1, <2>5, <3>1, SameKnown DEF IInv, KnownInv
  <2>7. \A h \in recorded : Accepted(h.candidate)' = Accepted(h.candidate)
    BY <2>1, SameHistory
  <2> QED BY <2>1, <2>6, <2>7 DEF IInv, KnownInv
<1>5. PlanInv'
  <2>1. UNCHANGED <<decisions, pointed, noActions, handoffs, attempts, recorded>>
    BY DEF Receipt
  <2>2. PICK o \in plan : o = First(plan)
    BY FirstCurrent DEF Receipt, IInv, PlanInv
  <2>3. /\ receipts' = [receipts EXCEPT ![o.candidate] = @ \union {o.revision}]
        /\ \/ plan' = plan \ {o} /\ pc' = "import" /\ UNCHANGED <<command, then, settled>>
           \/ Stop
    BY <2>2 DEF Receipt
  <2>4. /\ o.candidate \in Candidates /\ o.revision \in attempts[o.candidate]
        /\ HandoffOf(o) \in recorded
        /\ o.revision \in Accepted(o.candidate) => o.revision = Last(o.candidate)
    BY <2>2, FirstCurrent DEF Receipt, IInv, PlanInv
  <2>5. ASSUME NEW c \in Candidates
        PROVE  /\ receipts[c] \subseteq receipts'[c]
               /\ \A r \in receipts'[c] : r \in receipts[c] \/ (c = o.candidate /\ r = o.revision)
    BY <2>3, <2>4 DEF IInv
  <2>6. CASE Stop
    BY <2>6 DEF Stop, EndWith, PlanInv
  <2>7. CASE plan' = plan \ {o} /\ pc' = "import"
    <3> SUFFICES ASSUME NEW x \in plan PROVE Current(x)' /\ ~x.handoff
      BY <2>7 DEF PlanInv
    <3>1. Current(x) /\ ~x.handoff /\ x.candidate \in Candidates
      BY DEF Receipt, IInv, PlanInv, Meeting, TypeOK, LocalTyped, Obligations
    <3> DEFINE c == x.candidate
    <3>2. Last(c)' = Last(c) /\ Accepted(c)' = Accepted(c) /\ History(c)' = History(c)
      BY <2>1, SameHistory
    <3>3. x.action # "none" /\ Action(c, x.revision) # "none"
      BY <3>1 DEF Current, ImportRequired
    <3>4. Action(c, x.revision)' = Action(c, x.revision)
      BY <2>5, <3>1, <3>2, <3>3 DEF Action, ImportedBefore
    <3> QED BY <2>1, <3>1, <3>2, <3>4 DEF Current, ImportRequired
  <2> QED BY <2>3, <2>6, <2>7
<1>6. ReplayInv'
  <2>1. UNCHANGED <<decisions, pointed, noActions, handoffs, attempts, recorded>>
    BY DEF Receipt
  <2>2. PICK o \in plan : o = First(plan)
    BY FirstCurrent DEF Receipt, IInv, PlanInv
  <2>3. /\ receipts' = [receipts EXCEPT ![o.candidate] = @ \union {o.revision}]
        /\ \/ plan' = plan \ {o} /\ pc' = "import" /\ UNCHANGED <<command, then, settled>>
           \/ Stop
    BY <2>2 DEF Receipt
  <2>4. /\ o.candidate \in Candidates /\ o.revision \in attempts[o.candidate]
        /\ HandoffOf(o) \in recorded
        /\ o.revision \in Accepted(o.candidate) => o.revision = Last(o.candidate)
    BY <2>2, FirstCurrent DEF Receipt, IInv, PlanInv
  <2>5. ASSUME NEW c \in Candidates
        PROVE  /\ receipts[c] \subseteq receipts'[c]
               /\ \A r \in receipts'[c] : r \in receipts[c] \/ (c = o.candidate /\ r = o.revision)
    BY <2>3, <2>4 DEF IInv
  <2>6. CASE Stop \/ then # "decide"
    BY <2>3, <2>6 DEF Stop, EndWith, ReplayInv
  <2>7. CASE then = "decide" /\ plan' = plan \ {o} /\ pc' = "import" /\ UNCHANGED <<command, then>>
    <3>1. PICK c \in Candidates : c = command.candidate
      BY <2>7 DEF Receipt, IInv, CommandInv, Reviews, Meeting
    <3>2. /\ pointed[c] = Last(c) /\ Last(c)' = Last(c)
          /\ \A r \in Unresolved(c) : \E x \in plan : x.candidate = c /\ x.revision = r
      BY <2>1, <2>7, <3>1, SameHistory DEF Receipt, IInv, ReplayInv, Meeting
    <3>3. \A r \in Unresolved(c)' : r \in Unresolved(c) /\ ~(c = o.candidate /\ r = o.revision)
      BY <2>1, <2>3, <2>4, <2>5 DEF Unresolved, IInv, TypeOK, FilesTyped
    <3>4. \A r \in Unresolved(c)' : \E x \in plan' : x.candidate = c /\ x.revision = r
      BY <2>7, <3>2, <3>3
    <3> QED BY <2>1, <2>7, <3>1, <3>2, <3>4 DEF ReplayInv
  <2> QED BY <2>3, <2>6, <2>7
<1>7. SettledInv'
  <2>1. UNCHANGED <<decisions, pointed, noActions, handoffs, attempts, recorded>>
    BY DEF Receipt
  <2>2. PICK o \in plan : o = First(plan)
    BY FirstCurrent DEF Receipt, IInv, PlanInv
  <2>3. /\ receipts' = [receipts EXCEPT ![o.candidate] = @ \union {o.revision}]
        /\ \/ plan' = plan \ {o} /\ pc' = "import" /\ UNCHANGED <<command, then, settled>>
           \/ Stop
    BY <2>2 DEF Receipt
  <2>4. /\ o.candidate \in Candidates /\ o.revision \in attempts[o.candidate]
        /\ HandoffOf(o) \in recorded
        /\ o.revision \in Accepted(o.candidate) => o.revision = Last(o.candidate)
    BY <2>2, FirstCurrent DEF Receipt, IInv, PlanInv
  <2>5. ASSUME NEW c \in Candidates
        PROVE  /\ receipts[c] \subseteq receipts'[c]
               /\ \A r \in receipts'[c] : r \in receipts[c] \/ (c = o.candidate /\ r = o.revision)
    BY <2>3, <2>4 DEF IInv
  <2>6. settled' = {}
    BY <2>3 DEF Receipt, IInv, CommandInv, Stop, EndWith
  <2>7. CASE Stop \/ then # "done"
    BY <2>3, <2>6, <2>7 DEF Stop, EndWith, SettledInv
  <2>8. CASE then = "done" /\ plan' = plan \ {o} /\ pc' = "import" /\ UNCHANGED <<command, then>>
    <3>1. PICK c \in Candidates : c = command.candidate
      BY <2>8 DEF Receipt, IInv, CommandInv, Reviews, Meeting
    <3>2. Last(c)' = Last(c) /\ Accepted(c)' = Accepted(c)
      BY <2>1, SameHistory
    <3>3. CASE Answered(c)
      <4>1. CASE Last(c) \in receipts[c]
        BY <2>5, <2>6, <2>8, <3>1, <3>2, <4>1 DEF SettledInv, Answered
      <4>2. CASE Action(c, Last(c)) = "none"
        <5>1. \A a \in receipts'[c] \intersect Accepted(c) : a \in receipts[c] \/ a = Last(c)
          BY <2>4, <2>5
        <5>2. Last(c) \in Nat /\ Last(c) \notin Accepted(c)
          BY <4>2, Histories DEF Action, IInv
        <5>3. Action(c, Last(c))' = "none"
          BY <3>2, <4>2, <5>1, <5>2 DEF Action, ImportedBefore
        <5> QED BY <2>6, <2>8, <3>1, <5>3 DEF SettledInv, Answered
      <4> QED BY <3>3, <4>1, <4>2 DEF Answered
    <3>4. CASE \E x \in plan : x.candidate = c /\ x.revision = Last(c) /\ x.import
      <4>1. PICK x \in plan : x.candidate = c /\ x.revision = Last(c) /\ x.import
        BY <3>4
      <4>2. CASE x = o
        <5>1. Last(c) \in receipts'[c]
          BY <2>3, <2>4, <4>1, <4>2 DEF IInv, TypeOK, FilesTyped
        <5> QED BY <2>6, <2>8, <3>1, <3>2, <5>1 DEF SettledInv, Answered
      <4>3. CASE x # o
        <5>1. x \in plan'
          BY <2>8, <4>1, <4>3
        <5> QED BY <2>6, <2>8, <3>1, <3>2, <4>1, <5>1 DEF SettledInv
      <4> QED BY <4>2, <4>3
    <3> QED BY <2>8, <3>1, <3>3, <3>4 DEF Receipt, IInv, SettledInv, Meeting
  <2> QED BY <2>3, <2>7, <2>8
<1> QED BY <1>1, <1>2, <1>3, <1>4, <1>5, <1>6, <1>7 DEF IInv

LEMMA VerifyPlanStep == ASSUME IInv, VerifyPlan PROVE IInv'
<1>1. TypeOK'
  <2>1. UNCHANGED <<decisions, pointed, noActions, handoffs, attempts, receipts, recorded>>
    BY DEF VerifyPlan, disk
  <2>2. FilesTyped'
    BY <2>1 DEF IInv, TypeOK, FilesTyped
  <2>5. LocalTyped'
    BY DEF VerifyPlan, Stop, EndWith, IInv, LocalTyped
  <2> QED BY <2>2, <2>5 DEF TypeOK
<1>2. CommandInv'
  BY DEF IInv, VerifyPlan, CommandInv, EndWith, Stop, Commands, Meeting
<1>3. DiskInv'
  <2>1. UNCHANGED <<decisions, pointed, noActions, handoffs, attempts, receipts, recorded>>
    BY DEF VerifyPlan, disk
  <2> QED BY <2>1, SameDisk DEF IInv
<1>4. KnownInv'
  <2>1. UNCHANGED <<decisions, pointed, noActions, handoffs, attempts, receipts, recorded>>
    BY DEF VerifyPlan, disk
  <2> QED BY <2>1, SameKnownInv DEF IInv
<1>5. PlanInv'
  BY DEF IInv, VerifyPlan, PlanInv, EndWith, Stop, Current, HandoffOf, Action, ImportRequired,
     ImportedBefore
<1>6. ReplayInv'
  BY DEF IInv, VerifyPlan, ReplayInv, EndWith, Stop, Unresolved
<1>7. SettledInv'
  <2>1. UNCHANGED <<decisions, pointed, noActions, handoffs, attempts, receipts, recorded>>
    BY DEF VerifyPlan, disk
  <2>2. pc' = "idle"
    BY DEF VerifyPlan, Stop, EndWith
  <2>3. CASE settled' = {}
    BY <2>2, <2>3 DEF SettledInv, Meeting
  <2>4. CASE settled' = {c \in Candidates : decisions[c] # <<>>} /\ \A c \in Candidates : Outstanding(c) = {}
    <3> SUFFICES ASSUME NEW c \in settled' PROVE Answered(c)'
      BY <2>2 DEF SettledInv, Meeting
    <3>1. c \in Candidates /\ Last(c) \in History(c)
      BY <2>4 DEF IInv, Last, History
    <3>2. Answered(c)
      BY <2>4, <3>1, ImportIsOutstanding DEF Answered, ImportRequired, Action
    <3> QED BY <2>1, <3>2, SameAnswered
  <2> QED BY <2>3, <2>4 DEF VerifyPlan, Stop, EndWith
<1> QED BY <1>1, <1>2, <1>3, <1>4, <1>5, <1>6, <1>7 DEF IInv

(******************** the invariant and what follows *********************)

LEMMA InitIInv == Init => IInv
<1> SUFFICES ASSUME Init PROVE IInv
  OBVIOUS
<1>1. TypeOK
  BY DEF Init, TypeOK, FilesTyped, LocalTyped
<1>2. ASSUME NEW c \in Candidates PROVE Last(c) = 0 /\ Accepted(c) = {}
  <2>1. Last(c) = 0
    BY DEF Init, Last
  <2>2. History(c) = {}
    BY <2>1 DEF History, Last
  <2> QED BY <2>1, <2>2 DEF Accepted
<1>3. DiskInv
  <2> SUFFICES ASSUME NEW c \in Candidates PROVE DiskOK(c)
    BY DEF DiskInv
  <2>1. /\ pointed[c] = 0 /\ noActions[c] = {} /\ handoffs[c] = {}
        /\ attempts[c] = {} /\ receipts[c] = {}
    BY DEF Init
  <2> QED BY <1>2, <2>1, Numbers DEF DiskOK, WellFormed, HistoryOK, NoActionsOK, AttemptsOK,
             ReceiptsOK, AuthorityOK, Unresolved
<1>4. KnownInv
  BY DEF Init, KnownInv, Known, Knowledge!History
<1>5. CommandInv /\ PlanInv /\ ReplayInv /\ SettledInv
  BY DEF Init, CommandInv, PlanInv, ReplayInv, SettledInv, Meeting
<1> QED BY <1>1, <1>3, <1>4, <1>5 DEF IInv

LEMMA StutterStep == ASSUME IInv, UNCHANGED vars PROVE IInv'
<1>1. /\ UNCHANGED <<decisions, pointed, noActions, handoffs, attempts, receipts, recorded>>
      /\ UNCHANGED <<pc, command, plan, then, settled>>
  BY DEF vars, disk, local
<1>2. TypeOK'
  BY <1>1 DEF IInv, TypeOK, FilesTyped, LocalTyped
<1>3. DiskInv' /\ KnownInv' /\ CommandInv'
  BY <1>1, SameDisk, SameKnownInv DEF IInv, CommandInv
<1>4. PlanInv'
  BY <1>1, CurrentStays DEF IInv, PlanInv, HandoffOf
<1>5. ReplayInv'
  <2>1. /\ Last(command.candidate)' = Last(command.candidate)
        /\ Unresolved(command.candidate)' = Unresolved(command.candidate)
    BY <1>1 DEF Last, Unresolved
  <2> QED BY <1>1, <2>1 DEF IInv, ReplayInv
<1>6. SettledInv'
  <2>1. /\ Last(command.candidate)' = Last(command.candidate)
        /\ Answered(command.candidate)' = Answered(command.candidate)
    BY <1>1 DEF Last, Answered, Action, ImportedBefore, Accepted, History
  <2>2. \A c \in settled : Answered(c)' = Answered(c)
    BY <1>1, SameAnswered
  <2> QED BY <1>1, <2>1, <2>2 DEF IInv, SettledInv
<1> QED BY <1>2, <1>3, <1>4, <1>5, <1>6 DEF IInv

LEMMA StepIInv == IInv /\ [Next]_vars => IInv'
BY StartStep, FailStep, SnapshotStep, DecideStep, PointStep, RouteStep, PlanStep, DeliverStep,
   BeginImportStep, ApplyStep, ReceiptStep, VerifyPlanStep, StutterStep DEF Next

LEMMA Invariance == Spec => []IInv
BY InitIInv, StepIInv, PTL DEF Spec

\* Every variable keeps its type.
THEOREM TypeCorrect == Spec => []TypeOK
<1>1. IInv => TypeOK
  BY DEF IInv
<1> QED BY <1>1, Invariance, PTL

\* Wherever commands stop, the files of a Candidate are well formed, and an accept whose
\* import is unresolved is its last Decision.  They need not be unambiguous: a withdraw
\* may be unresolved beside it.
THEOREM FilesAgree == Spec => []ReviewIsWellFormed
<1>1. IInv => ReviewIsWellFormed
  BY DEF IInv, DiskInv, DiskOK, ReviewIsWellFormed
<1> QED BY <1>1, Invariance, PTL

\* A receipt is of what Knowledge holds, and Knowledge holds nothing without an attempt.
THEOREM ReceiptsTrue == Spec => []ReceiptsAreFacts
<1>1. IInv => ReceiptsAreFacts
  BY DEF IInv, KnownInv, Known, ReceiptsAreFacts
<1> QED BY <1>1, Invariance, PTL

\* What a no-action receipt says of Knowledge is true, also when an acknowledgement was lost.
THEOREM NoActionsTrue == Spec => []NoActionIsTrue
<1>1. IInv => NoActionIsTrue
  <2> SUFFICES ASSUME IInv, NEW c \in Candidates, NEW h \in Knowledge!History(c),
                      h.action = "accept", NEW r \in noActions[c]
               PROVE  r < h.revision
    BY DEF NoActionIsTrue
  <2> DEFINE a == h.revision
  <2>1. a \in attempts[c] /\ a \in Accepted(c)
    BY DEF Knowledge!History, IInv, KnownInv, Known
  <2>2. /\ DiskOK(c) /\ r \in 1..Last(c) /\ r \notin Accepted(c)
        /\ a \in 1..Last(c) /\ Last(c) \in Nat
    BY <2>1, Histories DEF IInv, DiskInv, DiskOK, WellFormed, NoActionsOK
  <2>3. CASE a \in receipts[c]
    <3>1. ~(a < r)
      BY <2>1, <2>2, <2>3 DEF DiskOK, WellFormed, AuthorityOK, ImportedBefore
    <3> QED BY <2>1, <2>2, <3>1
  <2>4. CASE a \notin receipts[c]
    <3>1. a = Last(c)
      BY <2>1, <2>2, <2>4 DEF DiskOK, Unresolved
    <3> QED BY <2>1, <2>2, <3>1
  <2> QED BY <2>3, <2>4
<1> QED BY <1>1, Invariance, PTL

\* When the last Decision is answered, Knowledge offers the Candidate exactly if that
\* Decision accepts it.
LEMMA AnsweredAgrees ==
  ASSUME IInv, NEW c \in Candidates, Answered(c)
  PROVE  LET H == Knowledge!History(c)
             active == {h \in H : h.action = "accept" /\ \A g \in H : g.revision <= h.revision}
         IN {h.revision : h \in active} = Accepted(c) \intersect {Last(c)}
<1> DEFINE H == Knowledge!History(c)
           active == {h \in H : h.action = "accept" /\ \A g \in H : g.revision <= h.revision}
<1>1. /\ Last(c) \in Nat /\ Accepted(c) \subseteq 1..Last(c) /\ DiskOK(c)
      /\ receipts[c] \subseteq Known(c) /\ Known(c) \subseteq attempts[c]
      /\ attempts[c] \subseteq 1..Last(c)
  BY Histories DEF IInv, DiskInv, KnownInv, DiskOK, WellFormed, AttemptsOK
<1>2. \A h \in H : h.revision \in Known(c) /\ (h.action = "accept" <=> h.revision \in Accepted(c))
  BY DEF Known, Knowledge!History, IInv, KnownInv
<1>3. ASSUME Last(c) \in receipts[c]
      PROVE  {h.revision : h \in active} = Accepted(c) \intersect {Last(c)}
  <2>1. PICK g \in H : g.revision = Last(c)
    BY <1>1, <1>3 DEF Known
  <2>2. \A h \in active : h.revision = Last(c) /\ h.revision \in Accepted(c)
    BY <1>1, <1>2, <2>1
  <2>3. Last(c) \in Accepted(c) => g \in active
    BY <1>1, <1>2, <2>1
  <2> HIDE DEF active
  <2> QED BY <2>1, <2>2, <2>3
<1>4. ASSUME Last(c) \notin receipts[c], Action(c, Last(c)) = "none"
      PROVE  active = {} /\ Last(c) \notin Accepted(c)
  <2>1. Last(c) \notin Accepted(c) /\ ~ImportedBefore(c, Last(c))
    BY <1>4 DEF Action
  <2>2. ASSUME NEW h \in active PROVE FALSE
    <3>1. h.revision \in attempts[c] \intersect Accepted(c)
      BY <1>1, <1>2
    <3>2. h.revision \in receipts[c]
      BY <1>1, <2>1, <3>1 DEF DiskOK, Unresolved
    <3>3. h.revision < Last(c)
      BY <1>1, <2>1, <3>1
    <3> QED BY <2>1, <3>1, <3>2, <3>3 DEF ImportedBefore
  <2> QED BY <2>1, <2>2
<1> HIDE DEF active
<1>5. {h.revision : h \in active} = Accepted(c) \intersect {Last(c)}
  BY <1>3, <1>4 DEF Answered
<1> QED BY <1>5 DEF active

\* A review that succeeds and a resume that completes leave both Data Roots in agreement.
THEOREM SettledAgrees == Spec => []SettledMeansInAgreement
<1>1. IInv => SettledMeansInAgreement
  <2> SUFFICES ASSUME IInv PROVE SettledMeansInAgreement
    OBVIOUS
  <2>1. \A c \in settled : c \in Candidates /\ Answered(c)
    BY DEF IInv, SettledInv, TypeOK, LocalTyped
  <2> QED BY <2>1, AnsweredAgrees DEF SettledMeansInAgreement
<1> QED BY <1>1, Invariance, PTL

\* An accept reaches Knowledge only while it is the last word.
THEOREM SupersededOut == Spec => SupersededStaysOut
<1>1. IInv /\ [Next]_vars =>
        [\A h \in recorded' \ recorded :
           h.action = "accept" => h.revision = Len(decisions[h.candidate])]_vars
  <2> SUFFICES ASSUME IInv, Next, NEW h \in recorded' \ recorded, h.action = "accept"
               PROVE  h.revision = Len(decisions[h.candidate])
    BY DEF vars
  <2>1. Apply
    BY DEF Next, Start, Fail, Snapshot, Decide, Point, Route, Plan, Deliver, BeginImport, Receipt,
       VerifyPlan
  <2>2. pc = "apply" /\ plan # {} /\ h = HandoffOf(First(plan))
    BY <2>1 DEF Apply, Knowledge!Record, IInv, PlanInv
  <2>3. /\ First(plan).action = "accept" => First(plan).revision = Last(First(plan).candidate)
    BY <2>2, FirstCurrent
  <2> QED BY <2>2, <2>3 DEF HandoffOf, Last
<1> QED BY <1>1, Invariance, PTL DEF Spec, SupersededStaysOut

=============================================================================
