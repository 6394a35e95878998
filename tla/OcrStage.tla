------------------------------ MODULE OcrStage ------------------------------
(***************************************************************************)
(* The OCR stage of `work resume`: _advance_ocr of _literature_resume.py.  *)
(* A run is made under the profile of the installed release.  Staged runs  *)
(* that are not whole successes of that profile are left alone; the one    *)
(* whole success is renamed to runs/, and current.json follows through     *)
(* .current.json.<uuid>.tmp, which stays until current.json was read back. *)
(***************************************************************************)
EXTENDS ResumeCommand

VARIABLES
  ocr,         \* ocr/runs/<id> and ocr/runs/.staging/<id>
  ocrTemp      \* the run ocr/.current.json.<uuid>.tmp names

ocrVars == <<ocr, ocrTemp, ocrCurrent>>

OcrStates   == {"partial", "succeeded", "stopped"}
OcrAttempts == 2      \* MinerU attempts of one run
OcrTransient == {"timed_out", "process_failed"}
OcrOutcomes  == OcrTransient \union {"succeeded", "runtime_unavailable", "output_invalid",
                                    "output_limit_exceeded"}
OcrReasons   == {"ocr_transient_exhausted", "ocr_runtime_unavailable", "ocr_failed"}
OcrPcs == {"ocr", "ocr_attempt", "ocr_finish", "ocr_stop", "ocr_commit",
           "ocr_publish", "ocr_temp", "ocr_replace", "ocr_unlink"}

OcrTypeOK ==
  /\ ocr \in Trees(OcrStates)
  /\ ocrTemp \in Inputs \union {Torn} /\ ocrCurrent \in Inputs

OcrInit == ocr = EmptyTree /\ ocrTemp = NoRun /\ ocrCurrent = NoRun

\* Mutant: the staged successes are forgotten.
OcrMatchesFormal == Made(ocr, release) \intersect Formal(ocr)

\* The successes of the installed profile, formal and staged.
OcrMatches == Made(ocr, release)

\* Mutant: current.json is reused whatever its profile.
OcrIsCurrentAnyProfile == ocrCurrent # NoRun
\* _run_matches_current_profile over what current.json names.
OcrIsCurrent == ocrCurrent # NoRun /\ ocr[ocrCurrent].of = release

\* A pointer that was being replaced must be the only success of the profile,
\* and current.json must be absent or already the same.
OcrTempUsable ==
  /\ ocrTemp # Torn
  /\ OcrMatches = {ocrTemp} /\ ocrTemp \in Formal(ocr)
  /\ ocrCurrent \in {NoRun, ocrTemp}

OcrLost ==
  /\ pc = "ocr"
  /\ \/ Cardinality(OcrMatches) > 1
     \/ ocrTemp # NoRun /\ ~OcrTempUsable
  /\ Stop("uncertain")
  /\ UNCHANGED ocrVars

OcrRepair ==
  /\ pc = "ocr" /\ ocrTemp # NoRun /\ OcrTempUsable
  /\ Goto("ocr_replace", ocrTemp)
  /\ UNCHANGED ocrVars

OcrSettled == pc = "ocr" /\ ocrTemp = NoRun /\ Cardinality(OcrMatches) <= 1

OcrReuse ==
  /\ OcrSettled /\ OcrIsCurrent
  /\ HandOver("canonical", {})
  /\ UNCHANGED ocrVars

\* The success an earlier command left: staged, or formal and never current.
OcrRecover ==
  /\ OcrSettled /\ ~OcrIsCurrent
  /\ \E r \in OcrMatches :
       Goto(IF r \in Staged(ocr) THEN "ocr_commit" ELSE "ocr_publish", r)
  /\ UNCHANGED ocrVars

OcrBegin ==
  /\ OcrSettled /\ OcrMatches = {}
  /\ \E r \in Runs : IsNext(ocr, r) /\ ocr' = Mkdir(ocr, r, release)
                     /\ Goto("ocr_attempt", r)
  /\ UNCHANGED <<ocrTemp, ocrCurrent>>

\* The PDF has a text layer: no provider runs.
OcrNative ==
  /\ pc = "ocr_attempt" /\ attempts = <<>>
  /\ Goto("ocr_finish", hand)
  /\ UNCHANGED ocrVars

\* _resolve_ocr_runtime_v1 finds no runtime: no attempt is made.
OcrUnresolved ==
  /\ pc = "ocr_attempt" /\ attempts = <<>>
  /\ Ends("ocr_stop", "ocr_runtime_unavailable")
  /\ UNCHANGED <<attempts, ocrVars>>

OcrReasonOf(outcome) ==
  CASE outcome = "succeeded"           -> "none"
    [] outcome = "runtime_unavailable" -> "ocr_runtime_unavailable"
    [] outcome \in OcrTransient        -> "ocr_transient_exhausted"
    [] OTHER                           -> "ocr_failed"

\* Mutant: a retry overwrites the record of the attempt before it.
OcrAttemptOverwrites ==
  /\ pc = "ocr_attempt"
  /\ \E outcome \in OcrOutcomes :
       /\ attempts' = <<outcome>>
       /\ IF outcome \in OcrTransient /\ Len(attempts') < OcrAttempts
            THEN Ends("ocr_attempt", "none")
            ELSE Ends(IF outcome = "succeeded" THEN "ocr_finish" ELSE "ocr_stop",
                      OcrReasonOf(outcome))
  /\ UNCHANGED ocrVars

\* A MinerU attempt ends; a timeout or a nonzero exit is tried once more.
OcrAttempt ==
  /\ pc = "ocr_attempt"
  /\ \E outcome \in OcrOutcomes :
       /\ attempts' = Append(attempts, outcome)
       /\ IF outcome \in OcrTransient /\ Len(attempts') < OcrAttempts
            THEN Ends("ocr_attempt", "none")
            ELSE Ends(IF outcome = "succeeded" THEN "ocr_finish" ELSE "ocr_stop",
                      OcrReasonOf(outcome))
  /\ UNCHANGED ocrVars

\* What the provider left exceeds the budget: the run stays staged as it is.
OcrOverBudget ==
  /\ pc = "ocr_attempt"
  /\ Stop("ocr_failed")
  /\ UNCHANGED ocrVars

\* Receipt and manifest: the staged run is terminal.
OcrFinish ==
  /\ pc \in {"ocr_finish", "ocr_stop"}
  /\ ocr' = Becomes(ocr, hand, IF reason = "none" THEN "succeeded" ELSE "stopped")
  /\ Goto("ocr_commit", hand)
  /\ UNCHANGED <<ocrTemp, ocrCurrent>>

\* The rename to runs/; a blocked or failed run is committed and never current.
OcrCommit ==
  /\ pc = "ocr_commit"
  /\ ocr' = Renamed(ocr, hand)
  /\ IF hand \in Whole(ocr) THEN Goto("ocr_publish", hand) ELSE Stop(reason)
  /\ UNCHANGED <<ocrTemp, ocrCurrent>>

OcrPublish ==
  /\ pc = "ocr_publish"
  /\ ocrTemp' = Torn
  /\ Goto("ocr_temp", hand)
  /\ UNCHANGED <<ocr, ocrCurrent>>

OcrTempWritten ==
  /\ pc = "ocr_temp"
  /\ ocrTemp' = hand
  /\ Goto("ocr_replace", hand)
  /\ UNCHANGED <<ocr, ocrCurrent>>

\* A copy of the pointer is written among the staged runs, where the scans pass
\* over it, and replaces current.json.
OcrReplace ==
  /\ pc = "ocr_replace"
  /\ ocrCurrent' = hand
  /\ Goto("ocr_unlink", hand)
  /\ UNCHANGED <<ocr, ocrTemp>>

\* Mutant: the repaired pointer is not reported as an advance.
OcrUnlinkSilently ==
  /\ pc = "ocr_unlink"
  /\ ocrTemp' = NoRun
  /\ HandOver("canonical", {})
  /\ UNCHANGED <<ocr, ocrCurrent>>

OcrUnlink ==
  /\ pc = "ocr_unlink"
  /\ ocrTemp' = NoRun
  /\ HandOver("canonical", {"ocr"})
  /\ UNCHANGED <<ocr, ocrCurrent>>

OcrProviderStep == OcrNative \/ OcrUnresolved \/ OcrAttempt \/ OcrOverBudget
\* What every later command asks of the receipt and attempts of a run in runs/.
OcrAttemptsValid ==
  /\ \A i \in 1..(Len(attempts) - 1) : attempts[i] \in OcrTransient
  /\ CASE reason = "none"                    -> attempts # <<>> => LastAttempt = "succeeded"
       [] reason = "ocr_runtime_unavailable" ->
            attempts # <<>> => LastAttempt = "runtime_unavailable"
       [] reason = "ocr_transient_exhausted" ->
            Len(attempts) = OcrAttempts /\ LastAttempt \in OcrTransient
       [] OTHER                              ->
            attempts # <<>> /\ LastAttempt \in {"output_invalid", "output_limit_exceeded"}

OcrNext ==
  \/ OcrLost \/ OcrRepair \/ OcrReuse \/ OcrRecover \/ OcrBegin \/ OcrProviderStep
  \/ OcrFinish \/ OcrCommit \/ OcrPublish \/ OcrTempWritten \/ OcrReplace \/ OcrUnlink

=============================================================================
