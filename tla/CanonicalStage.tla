--------------------------- MODULE CanonicalStage ---------------------------
(***************************************************************************)
(* The canonicalize stage: advance_canonicalize_v1 of                      *)
(* _literature_canonical.py.  A run is made of one OCR run and is always   *)
(* a success or torn.  Unlike the OCR stage it takes a staged run that is  *)
(* not whole, or not of this input, for lost evidence, and so it does the  *)
(* copy that is to replace current.json.                                   *)
(***************************************************************************)
EXTENDS ResumeCommand

VARIABLES
  canonical,         \* canonical/runs/<id> and canonical/runs/.staging/<id>
  canonicalTemp,     \* the run canonical/.current.json.<uuid>.tmp names
  canonicalCopy      \* the run .staging/.current-replace.<uuid>.tmp names

canonicalVars == <<canonical, canonicalTemp, canonicalCopy, canonicalCurrent>>

CanonicalPcs == {"canonical", "canonical_fill", "canonical_commit", "canonical_publish",
                 "canonical_temp", "canonical_copy", "canonical_copying",
                 "canonical_replace", "canonical_unlink"}

CanonicalTypeOK ==
  /\ canonical \in Trees({"partial", "succeeded"})
  /\ canonicalTemp \in Inputs \union {Torn} /\ canonicalCopy \in Inputs \union {Torn}
  /\ canonicalCurrent \in Inputs

CanonicalInit ==
  /\ canonical = EmptyTree
  /\ canonicalTemp = NoRun /\ canonicalCopy = NoRun /\ canonicalCurrent = NoRun

CanonicalMatches == Made(canonical, ocrCurrent)
CanonicalIsCurrent == canonicalCurrent # NoRun /\ canonical[canonicalCurrent].of = ocrCurrent

\* _scan_runs and the check that what is staged belongs to this input.
CanonicalStagingUsable ==
  /\ Staged(canonical) \subseteq CanonicalMatches
  /\ Cardinality(CanonicalMatches) <= 1

\* Mutant: a copy that was begun is never taken up again.
CanonicalTempNoCopy ==
  /\ canonicalTemp \in Formal(canonical) \intersect CanonicalMatches
  /\ canonicalCopy = NoRun

\* The pointer in the making names a formal run of this input, and its copy, if it
\* was begun, has the same bytes.
CanonicalTempUsable ==
  /\ canonicalTemp \in Formal(canonical) \intersect CanonicalMatches
  /\ canonicalCopy \in {NoRun, canonicalTemp}

CanonicalPointersUsable ==
  \/ CanonicalTempUsable
  \/ canonicalTemp = NoRun /\ canonicalCopy = NoRun

CanonicalLost ==
  /\ pc = "canonical"
  /\ ~(CanonicalStagingUsable /\ CanonicalPointersUsable)
  /\ Stop("uncertain")
  /\ UNCHANGED canonicalVars

CanonicalRepair ==
  /\ pc = "canonical" /\ CanonicalStagingUsable /\ CanonicalTempUsable
  /\ Goto(IF canonicalCopy = NoRun THEN "canonical_copy" ELSE "canonical_replace",
          canonicalTemp)
  /\ UNCHANGED canonicalVars

CanonicalSettled ==
  /\ pc = "canonical" /\ CanonicalStagingUsable
  /\ canonicalTemp = NoRun /\ canonicalCopy = NoRun

CanonicalReuse ==
  /\ CanonicalSettled /\ CanonicalIsCurrent
  /\ HandOver("reader", {})
  /\ UNCHANGED canonicalVars

CanonicalRecover ==
  /\ CanonicalSettled /\ ~CanonicalIsCurrent
  /\ \E r \in CanonicalMatches :
       Goto(IF r \in Staged(canonical) THEN "canonical_commit" ELSE "canonical_publish", r)
  /\ UNCHANGED canonicalVars

\* _build_bundle cannot make a document of the OCR output.  An OCR run that has its
\* canonical run has been through it.
CanonicalRefused ==
  /\ CanonicalSettled /\ CanonicalMatches = {} /\ Unfit("ocr", ocrCurrent)
  /\ Stop("canonicalization_failed")
  /\ UNCHANGED canonicalVars

CanonicalBegin ==
  /\ CanonicalSettled /\ CanonicalMatches = {} /\ ~Unfit("ocr", ocrCurrent)
  /\ \E r \in Runs : IsNext(canonical, r) /\ canonical' = Mkdir(canonical, r, ocrCurrent)
                     /\ Goto("canonical_fill", r)
  /\ UNCHANGED <<canonicalTemp, canonicalCopy, canonicalCurrent>>

\* Document, blocks, images, provenance, then the manifest.
CanonicalFill ==
  /\ pc = "canonical_fill"
  /\ canonical' = Becomes(canonical, hand, "succeeded")
  /\ Goto("canonical_commit", hand)
  /\ UNCHANGED <<canonicalTemp, canonicalCopy, canonicalCurrent>>

CanonicalCommit ==
  /\ pc = "canonical_commit"
  /\ canonical' = Renamed(canonical, hand)
  /\ Goto("canonical_publish", hand)
  /\ UNCHANGED <<canonicalTemp, canonicalCopy, canonicalCurrent>>

CanonicalPublish ==
  /\ pc = "canonical_publish"
  /\ canonicalTemp' = Torn
  /\ Goto("canonical_temp", hand)
  /\ UNCHANGED <<canonical, canonicalCopy, canonicalCurrent>>

CanonicalTempWritten ==
  /\ pc = "canonical_temp"
  /\ canonicalTemp' = hand
  /\ Goto("canonical_copy", hand)
  /\ UNCHANGED <<canonical, canonicalCopy, canonicalCurrent>>

CanonicalCopyBegin ==
  /\ pc = "canonical_copy"
  /\ canonicalCopy' = Torn
  /\ Goto("canonical_copying", hand)
  /\ UNCHANGED <<canonical, canonicalTemp, canonicalCurrent>>

CanonicalCopyWritten ==
  /\ pc = "canonical_copying"
  /\ canonicalCopy' = hand
  /\ Goto("canonical_replace", hand)
  /\ UNCHANGED <<canonical, canonicalTemp, canonicalCurrent>>

CanonicalReplace ==
  /\ pc = "canonical_replace"
  /\ canonicalCurrent' = canonicalCopy /\ canonicalCopy' = NoRun
  /\ Goto("canonical_unlink", hand)
  /\ UNCHANGED <<canonical, canonicalTemp>>

CanonicalUnlink ==
  /\ pc = "canonical_unlink"
  /\ canonicalTemp' = NoRun
  /\ HandOver("reader", {"canonicalize"})
  /\ UNCHANGED <<canonical, canonicalCopy, canonicalCurrent>>

CanonicalNext ==
  \/ CanonicalLost \/ CanonicalRepair \/ CanonicalReuse \/ CanonicalRecover
  \/ CanonicalRefused \/ CanonicalBegin \/ CanonicalFill \/ CanonicalCommit \/ CanonicalPublish
  \/ CanonicalTempWritten \/ CanonicalCopyBegin \/ CanonicalCopyWritten
  \/ CanonicalReplace \/ CanonicalUnlink

=============================================================================
