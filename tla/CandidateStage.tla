--------------------------- MODULE CandidateStage ---------------------------
(***************************************************************************)
(* The materialization that ends the read stage:                           *)
(* advance_candidate_materialization_v1 of _literature_candidate.py.  A    *)
(* run is made, deterministically, of one semantic run.  current.json is   *)
(* replaced by .current.next.json, which the next command reads first and  *)
(* validates against the semantic run it was made of, current or not.      *)
(***************************************************************************)
EXTENDS ResumeCommand

VARIABLES
  material,         \* semantic/materializations/runs/<id> and .staging/<id>
  materialNext,     \* the run .current.next.json names
  materialCurrent   \* the run current.json names

candidateVars == <<material, materialNext, materialCurrent>>

CandidatePcs == {"candidate", "candidate_next", "candidate_staging", "candidate_current",
                 "candidate_fill", "candidate_commit", "candidate_publish",
                 "candidate_pointer", "candidate_replace", "review"}

CandidateTypeOK ==
  /\ material \in Trees({"partial", "succeeded"})
  /\ materialNext \in Inputs \union {Torn} /\ materialCurrent \in Inputs

CandidateInit == material = EmptyTree /\ materialNext = NoRun /\ materialCurrent = NoRun

OfReader(r) == material[r].of = semanticCurrent
CandidateMatches == Made(material, semanticCurrent) \intersect Formal(material)

CandidateIsCurrent == materialCurrent # NoRun /\ OfReader(materialCurrent)
CandidateSettled == pc = "candidate_current" /\ ~CandidateIsCurrent

\* A torn pointer, a staged run that is not the one whole success, or two successes.
CandidateLost ==
  /\ \/ pc = "candidate" /\ materialNext = Torn
     \/ /\ pc = "candidate_staging" /\ Staged(material) # {}
        /\ \A r \in Made(material, semanticCurrent) : Staged(material) # {r}
     \/ CandidateSettled /\ Cardinality(CandidateMatches) > 1
  /\ Stop("uncertain")
  /\ UNCHANGED candidateVars

\* _recover_next_pointer: a whole pointer is committed, whatever its semantic run.
CandidateNextPointer ==
  /\ pc = "candidate"
  /\ \/ materialNext = NoRun /\ Goto("candidate_staging", NoRun)
     \/ materialNext \in Runs /\ Goto("candidate_next", materialNext)
  /\ UNCHANGED candidateVars

CandidateCommitNext ==
  /\ pc = "candidate_next"
  /\ materialCurrent' = hand /\ materialNext' = NoRun
  /\ IF OfReader(hand) THEN HandOver("review", {"read"})
                       ELSE Goto("candidate_staging", NoRun)
  /\ UNCHANGED material

\* _recover_staging: one whole success of this semantic run, or the evidence is lost.
CandidateStaging ==
  /\ pc = "candidate_staging"
  /\ \/ /\ Staged(material) = {}
        /\ Goto("candidate_current", NoRun)
        /\ UNCHANGED material
     \/ \E r \in Made(material, semanticCurrent) :
          /\ Staged(material) = {r}
          /\ material' = Renamed(material, r)
          /\ Goto("candidate_current", NoRun)
  /\ UNCHANGED <<materialNext, materialCurrent>>

CandidateReuse ==
  /\ pc = "candidate_current" /\ CandidateIsCurrent
  /\ HandOver("review", {})
  /\ UNCHANGED candidateVars

CandidateRecover ==
  /\ CandidateSettled
  /\ \E r \in Runs : CandidateMatches = {r} /\ Goto("candidate_publish", r)
  /\ UNCHANGED candidateVars

\* The Candidates of the semantic run exceed the budget of a type, or collide with the
\* identities of an earlier run.
CandidateRefused ==
  /\ CandidateSettled /\ CandidateMatches = {} /\ Unfit("semantic", semanticCurrent)
  /\ Stop("candidate_validation_failed")
  /\ UNCHANGED candidateVars

CandidateBegin ==
  /\ CandidateSettled /\ CandidateMatches = {} /\ ~Unfit("semantic", semanticCurrent)
  /\ \E r \in Runs : IsNext(material, r) /\ material' = Mkdir(material, r, semanticCurrent)
                     /\ Goto("candidate_fill", r)
  /\ UNCHANGED <<materialNext, materialCurrent>>

CandidateFill ==
  /\ pc = "candidate_fill"
  /\ material' = Becomes(material, hand, "succeeded")
  /\ Goto("candidate_commit", hand)
  /\ UNCHANGED <<materialNext, materialCurrent>>

CandidateCommit ==
  /\ pc = "candidate_commit"
  /\ material' = Renamed(material, hand)
  /\ Goto("candidate_publish", hand)
  /\ UNCHANGED <<materialNext, materialCurrent>>

\* _replace_current: the pointer is written beside current.json, then replaces it.
CandidatePublish ==
  /\ pc = "candidate_publish"
  /\ materialNext' = Torn
  /\ Goto("candidate_pointer", hand)
  /\ UNCHANGED <<material, materialCurrent>>

CandidatePointer ==
  /\ pc = "candidate_pointer"
  /\ materialNext' = hand
  /\ Goto("candidate_replace", hand)
  /\ UNCHANGED <<material, materialCurrent>>

CandidateReplace ==
  /\ pc = "candidate_replace"
  /\ materialCurrent' = hand /\ materialNext' = NoRun
  /\ HandOver("review", {"read"})
  /\ UNCHANGED material

CandidateNext ==
  \/ CandidateLost \/ CandidateNextPointer \/ CandidateCommitNext \/ CandidateStaging \/ CandidateReuse
  \/ CandidateRecover \/ CandidateRefused \/ CandidateBegin \/ CandidateFill
  \/ CandidateCommit \/ CandidatePublish \/ CandidatePointer \/ CandidateReplace

=============================================================================
