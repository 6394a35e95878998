---------------------------- MODULE ReaderStage ----------------------------
(***************************************************************************)
(* The read stage up to the Reader's result: advance_reader_v1 of          *)
(* _literature_reader.py.  A semantic run is made of one canonical run.    *)
(* A run found staged is closed as interrupted if every attempt in it is   *)
(* recorded whole and nothing terminal was begun; any other staged run is  *)
(* uncertain.  current.json is replaced by one os.replace; the file it is  *)
(* written to first is never read back, so it has no variable.             *)
(***************************************************************************)
EXTENDS ResumeCommand

VARIABLE semantic   \* semantic/runs/<id> and semantic/.staging/<id>

readerVars == <<semantic, semanticCurrent>>

\* "begun": the inputs and the attempts so far are recorded whole; "terminal": a
\* manifest without a success.
ReaderStates   == {"partial", "begun", "terminal", "succeeded"}
ReaderAttempts == 3
ReaderPcs == {"reader", "reader_interrupted", "reader_current", "reader_prepare",
              "reader_attempt", "reader_record", "reader_stop", "reader_stopped",
              "reader_result", "reader_commit", "reader_replace"}
AttemptKinds  == {"timeout", "process_error", "clean"}
ReaderReasons == {"codex_runtime_unavailable", "codex_timeout_exhausted",
                  "codex_process_failed", "reader_output_invalid"}
ReaderInputReasons == {"reader_input_invalid", "reader_input_too_large"}

ReaderTypeOK == semantic \in Trees(ReaderStates) /\ semanticCurrent \in Inputs

ReaderInit == semantic = EmptyTree /\ semanticCurrent = NoRun

\* The codex runtime or its environment is not there.
ReaderUnavailable ==
  /\ pc = "reader"
  /\ Stop("blocked")
  /\ UNCHANGED readerVars

\* The prefix of a run's manifest: its input is what the canonical asset gives now.
OfCanonical(r) == semantic[r].of = canonicalCurrent

\* Mutant: any staged run of the canonical run is closed as interrupted.
ReaderInterruptibleAny(r) == OfCanonical(r)

\* Every attempt of it has its record, and nothing terminal was begun.
ReaderInterruptible(r) == semantic[r].state = "begun" /\ OfCanonical(r)

\* The successes of the canonical run that were committed.
ReaderMatches == Made(semantic, canonicalCurrent) \intersect Formal(semantic)

\* What is staged is not one interrupted run, or there are two successes to recover.
ReaderLost ==
  /\ \/ pc = "reader" /\ Cardinality(Staged(semantic)) > 1
     \/ pc = "reader" /\ \E r \in Staged(semantic) : ~ReaderInterruptible(r)
     \/ pc = "reader_current" /\ semanticCurrent = NoRun /\ Cardinality(ReaderMatches) > 1
  /\ Stop("uncertain")
  /\ UNCHANGED readerVars

\* The manifest of the interrupted run; if the next step fails it stays staged
\* with its manifest.
ReaderInterrupt ==
  /\ pc = "reader"
  /\ \E r \in Runs :
       /\ Staged(semantic) = {r} /\ ReaderInterruptible(r)
       /\ semantic' = Becomes(semantic, r, "terminal")
       /\ Goto("reader_interrupted", r)
  /\ UNCHANGED semanticCurrent

\* Mutant: the interrupted run is left staged.
ReaderInterruptedStays ==
  /\ pc = "reader_interrupted"
  /\ Goto("reader_current", NoRun)
  /\ UNCHANGED readerVars

ReaderInterrupted ==
  /\ pc = "reader_interrupted"
  /\ semantic' = Renamed(semantic, hand)
  /\ Goto("reader_current", NoRun)
  /\ UNCHANGED semanticCurrent

ReaderClean ==
  /\ pc = "reader" /\ Staged(semantic) = {}
  /\ Goto("reader_current", NoRun)
  /\ UNCHANGED readerVars

\* _load_current: whatever current.json names must be of this canonical run.
ReaderReuse ==
  /\ pc = "reader_current" /\ semanticCurrent # NoRun
  /\ OfCanonical(semanticCurrent)
  /\ HandOver("candidate", {})
  /\ UNCHANGED readerVars

ReaderForeignCurrent ==
  /\ pc = "reader_current" /\ semanticCurrent # NoRun
  /\ ~OfCanonical(semanticCurrent)
  /\ Stop("asset_integrity_lost")
  /\ UNCHANGED readerVars

\* A success that an earlier command committed and did not make current.
ReaderRecover ==
  /\ pc = "reader_current" /\ semanticCurrent = NoRun
  /\ \E r \in Runs : ReaderMatches = {r} /\ Goto("reader_replace", r)
  /\ UNCHANGED readerVars

\* _reader_input: the canonical document is too large for the Reader or cannot form
\* its input.
ReaderInputRefused ==
  /\ pc = "reader_current" /\ semanticCurrent = NoRun /\ ReaderMatches = {}
  /\ Unfit("canonical", canonicalCurrent)
  /\ \E code \in ReaderInputReasons : Stop(code)
  /\ UNCHANGED readerVars

ReaderBegin ==
  /\ pc = "reader_current" /\ semanticCurrent = NoRun /\ ReaderMatches = {}
  /\ ~Unfit("canonical", canonicalCurrent)
  /\ \E r \in Runs : IsNext(semantic, r) /\ semantic' = Mkdir(semantic, r, canonicalCurrent)
                     /\ Goto("reader_prepare", r)
  /\ UNCHANGED semanticCurrent

\* Input, prompt and schema are written; the runtime may be missing.
ReaderPrepare ==
  /\ pc = "reader_prepare"
  /\ semantic' = Becomes(semantic, hand, "begun")
  /\ \/ Ends("reader_attempt", "none")
     \/ Ends("reader_stop", "codex_runtime_unavailable")
  /\ UNCHANGED <<attempts, semanticCurrent>>

\* The launch is refused before it commits to an attempt, which leaves no evidence.
ReaderRefused ==
  /\ pc = "reader_attempt"
  /\ Ends("reader_stop", "codex_runtime_unavailable")
  /\ UNCHANGED <<attempts, readerVars>>

\* An attempt ends and its evidence is being copied into the staged run.
ReaderAttempt ==
  /\ pc = "reader_attempt"
  /\ \E kind \in AttemptKinds : attempts' = Append(attempts, kind)
  /\ semantic' = Becomes(semantic, hand, "partial")
  /\ Ends("reader_record", "none")
  /\ UNCHANGED semanticCurrent

\* attempt.json is there: only a timeout is tried again, and the output of a clean
\* attempt may be invalid.
ReaderRecord ==
  /\ pc = "reader_record"
  /\ semantic' = Becomes(semantic, hand, "begun")
  /\ \/ LastAttempt = "timeout" /\ Len(attempts) < ReaderAttempts /\ Ends("reader_attempt", "none")
     \/ LastAttempt = "timeout" /\ Len(attempts) = ReaderAttempts
          /\ Ends("reader_stop", "codex_timeout_exhausted")
     \/ LastAttempt = "process_error" /\ Ends("reader_stop", "codex_process_failed")
     \/ LastAttempt = "clean" /\ Ends("reader_stop", "reader_output_invalid")
     \/ LastAttempt = "clean" /\ Ends("reader_result", "none")
  /\ UNCHANGED <<attempts, semanticCurrent>>

\* The manifest of a run without a success; then it is renamed to runs/.
ReaderStop ==
  /\ pc = "reader_stop"
  /\ semantic' = Becomes(semantic, hand, "terminal")
  /\ Goto("reader_stopped", hand)
  /\ UNCHANGED semanticCurrent

ReaderStopped ==
  /\ pc = "reader_stopped"
  /\ semantic' = Renamed(semantic, hand)
  /\ Stop(reason)
  /\ UNCHANGED semanticCurrent

\* What `status` asks of the attempts of a run that ended without a success.
ReaderAttemptsValid ==
  LET Timeouts == \A i \in DOMAIN attempts : attempts[i] = "timeout"
  IN CASE reason = "codex_runtime_unavailable" -> attempts = <<>>
       [] reason = "codex_timeout_exhausted"   -> Len(attempts) = ReaderAttempts /\ Timeouts
       [] reason = "codex_process_failed"      -> attempts # <<>> /\ LastAttempt = "process_error"
       [] OTHER                                -> attempts # <<>> /\ LastAttempt = "clean"

\* The result bundle and the manifest of a success.
ReaderResult ==
  /\ pc = "reader_result"
  /\ \/ semantic[hand].state = "begun" /\ semantic' = Becomes(semantic, hand, "partial")
        /\ Goto("reader_result", hand)
     \/ semantic[hand].state = "partial" /\ semantic' = Becomes(semantic, hand, "succeeded")
        /\ Goto("reader_commit", hand)
  /\ UNCHANGED semanticCurrent

ReaderCommit ==
  /\ pc = "reader_commit"
  /\ semantic' = Renamed(semantic, hand)
  /\ Goto("reader_replace", hand)
  /\ UNCHANGED semanticCurrent

ReaderReplace ==
  /\ pc = "reader_replace"
  /\ semanticCurrent' = hand
  /\ HandOver("candidate", {})
  /\ UNCHANGED semantic

ReaderNext ==
  \/ ReaderUnavailable \/ ReaderLost \/ ReaderInterrupt \/ ReaderInterrupted
  \/ ReaderClean \/ ReaderReuse \/ ReaderForeignCurrent
  \/ ReaderRecover \/ ReaderInputRefused \/ ReaderBegin \/ ReaderPrepare \/ ReaderRefused \/ ReaderAttempt \/ ReaderRecord
  \/ ReaderStop \/ ReaderStopped \/ ReaderResult \/ ReaderCommit \/ ReaderReplace

=============================================================================
