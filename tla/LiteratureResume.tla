-------------------------- MODULE LiteratureResume --------------------------
(***************************************************************************)
(* `work resume` over one Work whose identity is settled: resume_work of   *)
(* _literature_resume.py drives the OCR, canonicalize and read stages in   *)
(* order, each over what the one before made current, up to the point      *)
(* where the review continuation (CandidateReview) takes over.  The Work   *)
(* writer lock admits one command at a time; between two of them another   *)
(* release with another OCR profile may be installed.  A command may be    *)
(* killed, or stopped by a failing access, before any of its steps.        *)
(***************************************************************************)
EXTENDS OcrStage, CanonicalStage, ReaderStage, CandidateStage

CONSTANT Releases    \* bound: OCR profiles installed one after the other

ASSUME ReleasesAssumption == Releases \in 1..MaxRuns

VARIABLES
  moved,     \* history: the pointers this command replaced
  scarred    \* history: a window without recovery was hit

work == <<ocrVars, canonicalVars, readerVars, candidateVars>>
vars == <<command, work, unfit, moved, scarred>>

Init ==
  /\ pc = "idle" /\ hand = NoRun /\ attempts = <<>> /\ reason = "none"
  /\ advanced = {} /\ result = "none"
  /\ release = 1 /\ unfit = {} /\ moved = {} /\ scarred = FALSE
  /\ OcrInit /\ CanonicalInit /\ ReaderInit /\ CandidateInit

Room == \A tree \in {ocr, canonical, semantic, material} : Free(tree) # {}

\* The command takes the Work lock and finds the identity ready.
Start ==
  /\ pc = "idle" /\ Room
  /\ pc' = "ocr" /\ advanced' = {} /\ result' = "none" /\ moved' = {}
  /\ UNCHANGED <<hand, attempts, reason, release, work, unfit, scarred>>

\* The four assets stand and the review continuation begins.
Pass ==
  /\ pc = "review"
  /\ Stop("passed")
  /\ UNCHANGED <<work, unfit, moved, scarred>>

\* Pointers a step replaced.
Moves ==
  (IF pc = "ocr_replace" THEN {"ocr"} ELSE {})
  \union (IF pc = "canonical_replace" THEN {"canonicalize"} ELSE {})
  \union (IF pc = "reader_replace" THEN {"reader"} ELSE {})
  \union (IF pc \in {"candidate_next", "candidate_replace"} THEN {"read"} ELSE {})

\* The success a step completes, which may turn out to be of no use.
Completes ==
  CASE pc = "ocr_finish"     -> {<<"ocr", hand>>}
    [] pc = "canonical_fill" -> {<<"canonical", hand>>}
    [] pc = "reader_result" /\ semantic[hand].state = "partial" -> {<<"semantic", hand>>}
    [] OTHER                 -> {}

ProviderStep == OcrProviderStep \/ ReaderRefused \/ ReaderAttempt

StageStep ==
  /\ \/ OcrNext /\ UNCHANGED <<canonicalVars, readerVars, candidateVars>>
     \/ CanonicalNext /\ UNCHANGED <<ocrVars, readerVars, candidateVars>>
     \/ ReaderNext /\ UNCHANGED <<ocrVars, canonicalVars, candidateVars>>
     \/ CandidateNext /\ UNCHANGED <<ocrVars, canonicalVars, readerVars>>
  /\ moved' = moved \union Moves
  /\ unfit' \in {unfit, unfit \union Completes}
  /\ UNCHANGED scarred

CommandStep == StageStep \/ Pass

\* What is half made while the command is there: the file or directory is torn, or
\* complete and yet refused by the next command.
NoRecovery ==
  \/ pc \in {"ocr_temp", "canonical_fill", "canonical_temp", "canonical_copying",
             "reader_prepare", "reader_record", "reader_interrupted", "reader_stopped", "reader_commit",
             "candidate_fill", "candidate_pointer"}
  \/ pc = "reader_result" /\ semantic[hand].state = "partial"
  \/ pc = "ocr_replace" /\ ocrCurrent \notin {NoRun, hand}

Halt ==
  /\ pc # "idle"
  /\ Stop("halted")
  /\ scarred' = (scarred \/ NoRecovery)
  /\ UNCHANGED <<work, unfit, moved>>

\* What an earlier command left for the next one of the same release.
Pending == ocrTemp # NoRun \/ Staged(canonical) # {} \/ canonicalTemp # NoRun
             \/ Staged(semantic) # {}

Upgrade ==
  /\ pc = "idle" /\ release < Releases
  /\ release' = release + 1
  /\ scarred' = (scarred \/ Pending \/ semanticCurrent # NoRun)
  /\ UNCHANGED <<pc, hand, attempts, reason, advanced, result, unfit, moved, work>>

Next == Start \/ CommandStep \/ Halt \/ Upgrade

\* Fairness: the command is one sequential process, and a provider attempt ends
\* because it runs under a deadline.
Spec == Init /\ [][Next]_vars /\ WF_vars(CommandStep)

-----------------------------------------------------------------------------
UnfitTypeOK == unfit \subseteq Links \X Runs
TypeOK ==
  /\ OcrTypeOK /\ CanonicalTypeOK /\ ReaderTypeOK /\ CandidateTypeOK /\ UnfitTypeOK
  /\ pc \in {"idle"} \union OcrPcs \union CanonicalPcs \union ReaderPcs \union CandidatePcs
  /\ hand \in Inputs /\ advanced \subseteq Stages
  /\ attempts \in Seq(OcrOutcomes \union AttemptKinds) /\ Len(attempts) <= ReaderAttempts
  /\ reason \in {"none"} \union OcrReasons \union ReaderReasons
  /\ result \in {"none", "passed", "uncertain", "asset_integrity_lost", "halted", "blocked",
                  "canonicalization_failed", "candidate_validation_failed"}
                 \union OcrReasons \union ReaderReasons \union ReaderInputReasons
  /\ release \in 1..Releases /\ moved \subseteq Stages \union {"reader"}
  /\ scarred \in BOOLEAN

\* However often the command is killed and whatever is left behind, no input is ever
\* given two whole successes: the OCR profile, the OCR run, the canonical run and the
\* semantic run each keep at most one, formal or staged (the uniqueness every
\* recovery relies on, e.g. _inventory_matching_successes).
OneSuccessPerInput ==
  \A tree \in {ocr, canonical, semantic, material} : \A i \in 1..MaxRuns :
     Cardinality(Made(tree, i)) <= 1

\* A command that gets through the four stages leaves the whole chain: each pointer
\* names a formal success made of what the pointer before it names, the first one of
\* the installed OCR profile, and no replacement is left pending.
PassedIsDerived ==
  pc = "review" =>
    /\ ocrCurrent \in Formal(ocr) \intersect Made(ocr, release)
    /\ canonicalCurrent \in Formal(canonical) \intersect Made(canonical, ocrCurrent)
    /\ semanticCurrent \in Formal(semantic) \intersect Made(semantic, canonicalCurrent)
    /\ materialCurrent \in Formal(material) \intersect Made(material, semanticCurrent)
    /\ NoRun = ocrTemp /\ NoRun = canonicalTemp /\ NoRun = canonicalCopy /\ NoRun = materialNext

\* advanced_stages tells exactly which assets this command made current; the Reader's
\* own pointer never moves without a materialization that is reported as "read".
AdvanceIsReported ==
  pc = "review" => /\ advanced = moved \ {"reader"}
                   /\ "reader" \in moved => "read" \in advanced

\* Certainty is lost only where the code gives it up: unless a halt fell in a window
\* without recovery, or a release was installed over pending work or over a read
\* Work, no command stops as uncertain or as having lost an asset.
LostOnlyWhenScarred == result \in {"uncertain", "asset_integrity_lost"} => scarred

\* What was paid for stays: a success is never overwritten or removed, a formal run
\* never leaves runs/, and no new run is begun while a success of its input stands.
WorkStaysDone ==
  [][/\ \A r \in Whole(ocr) : ocr'[r].state = "succeeded" /\ ocr'[r].of = ocr[r].of
     /\ \A r \in Whole(semantic) : semantic'[r].state = "succeeded"
     /\ Formal(ocr) \subseteq Formal(ocr)' /\ Formal(semantic) \subseteq Formal(semantic)'
     /\ \A r \in Staged(ocr)' \ Staged(ocr) : Made(ocr, ocr'[r].of) = {}
     /\ \A r \in Staged(semantic)' \ Staged(semantic) : Made(semantic, semantic'[r].of) = {}]_vars

\* The OCR stage never commits a run that its own validator would refuse: a refused run
\* in runs/ would stop every later command of the Work.
OcrRunsAreValid == pc = "ocr_commit" => OcrAttemptsValid

\* The same for the terminal runs of the Reader, which `status` validates.
ReaderRunsAreValid == pc = "reader_stopped" => ReaderAttemptsValid

\* "asset_integrity_lost" is for assets that were lost; an old success of another
\* upstream is history (docs/contracts/literature-commands-v1.md).
OnlyLossIsLost ==
  result = "asset_integrity_lost" => semanticCurrent \notin Formal(semantic) \intersect Whole(semantic)

\* Every command ends.
ResumeEnds == pc # "idle" ~> pc = "idle"

\* With no more halts and upgrades, providers that answer and commands that go on
\* being issued, the Work gets through its four stages, unless it was scarred or one of
\* the successes made for the installed release is of no use to the stage after it.
Calm ==
  /\ ~Halt /\ ~Upgrade /\ ~ReaderUnavailable
  /\ ProviderStep => pc' = "ocr_finish" \/ (pc' = "reader_record" /\ LastAttempt' = "clean")
  /\ (ReaderRecord /\ LastAttempt = "clean") => pc' = "reader_result"
Useless ==
  \E i \in Made(ocr, release) :
     \/ Unfit("ocr", i)
     \/ \E c \in Made(canonical, i) :
          Unfit("canonical", c) \/ \E s \in Made(semantic, c) : Unfit("semantic", s)
Converges ==
  (<>[][Calm]_vars /\ WF_vars(Start)) => []<>(result = "passed" \/ scarred \/ ~Room \/ Useless)

-----------------------------------------------------------------------------
(* The inductive invariant.                                                *)

AfterCanonical == ReaderPcs \union CandidatePcs
AfterOcr       == CanonicalPcs \union AfterCanonical

\* Two whole successes are made of two inputs.
Unique(tree) == \A r, s \in Whole(tree) : tree[r].of = tree[s].of => r = s
UniqueInv == Unique(ocr) /\ Unique(canonical) /\ Unique(semantic) /\ Unique(material)

\* Provider attempts belong to the run in hand and are bounded.
AttemptsInv ==
  /\ pc \notin (OcrPcs \ {"ocr"}) \union (ReaderPcs \ {"reader", "reader_interrupted", "reader_current",
                                                      "reader_prepare"}) => attempts = <<>>
  /\ pc = "ocr_attempt" => Len(attempts) < OcrAttempts
  /\ pc = "reader_attempt" => Len(attempts) < ReaderAttempts

\* The run in hand while the OCR stage makes and publishes it, and what the stage leaves.
OcrInv ==
  /\ ocrCurrent # NoRun => ocrCurrent \in Formal(ocr) \intersect Whole(ocr)
  /\ pc \in {"ocr_attempt", "ocr_finish", "ocr_stop"} =>
       hand \in Staged(ocr) \ Whole(ocr) /\ ocr[hand].of = release /\ Made(ocr, release) = {}
  /\ pc = "ocr_commit" => hand \in Staged(ocr) /\ ocr[hand].of = release
  /\ pc \in {"ocr_publish", "ocr_temp", "ocr_replace", "ocr_unlink"} =>
       hand \in Formal(ocr) \intersect Made(ocr, release)
  /\ pc \in {"ocr_attempt", "ocr_finish", "ocr_stop", "ocr_commit", "ocr_publish"} \union AfterOcr =>
       ocrTemp = NoRun
  /\ pc = "ocr_temp" => ocrTemp = Torn
  /\ pc \in {"ocr_replace", "ocr_unlink"} => ocrTemp = hand
  /\ pc = "ocr_unlink" => ocrCurrent = hand
  /\ pc \in AfterOcr => ocrCurrent \in Formal(ocr) \intersect Made(ocr, release)

CanonicalInv ==
  /\ canonicalCurrent # NoRun => canonicalCurrent \in Formal(canonical) \intersect Whole(canonical)
  /\ pc = "canonical_fill" =>
       /\ Staged(canonical) = {hand} /\ hand \notin Whole(canonical)
       /\ canonical[hand].of = ocrCurrent /\ CanonicalMatches = {}
  /\ pc = "canonical_commit" => Staged(canonical) = {hand} /\ hand \in CanonicalMatches
  /\ pc \in CanonicalPcs \ {"canonical", "canonical_fill", "canonical_commit"} =>
       hand \in Formal(canonical) \intersect CanonicalMatches /\ Staged(canonical) = {}
  /\ pc \in {"canonical_fill", "canonical_commit", "canonical_publish"} \union AfterCanonical =>
       canonicalTemp = NoRun
  /\ pc = "canonical_temp" => canonicalTemp = Torn
  /\ pc \in {"canonical_copy", "canonical_copying", "canonical_replace", "canonical_unlink"} =>
       canonicalTemp = hand
  /\ pc \in {"canonical_fill", "canonical_commit", "canonical_publish", "canonical_temp",
             "canonical_copy", "canonical_unlink"} \union AfterCanonical => canonicalCopy = NoRun
  /\ pc = "canonical_replace" => canonicalCopy = hand
  /\ pc = "canonical_unlink" => canonicalCurrent = hand
  /\ pc \in AfterCanonical =>
       canonicalCurrent \in Formal(canonical) \intersect CanonicalMatches /\ Staged(canonical) = {}

ReaderMaking == {"reader_prepare", "reader_attempt", "reader_record", "reader_stop", "reader_result"}
ReaderInv ==
  /\ semanticCurrent # NoRun => semanticCurrent \in Formal(semantic) \intersect Whole(semantic)
  /\ \A r, s \in Staged(semantic) : r = s
  /\ pc \in ReaderMaking =>
       /\ hand \in Staged(semantic) \ Whole(semantic) /\ OfCanonical(hand)
       /\ Made(semantic, canonicalCurrent) = {}
  /\ pc \in {"reader_attempt", "reader_stop"} => semantic[hand].state = "begun"
  /\ pc = "reader_result" => semantic[hand].state \in {"begun", "partial"}
  /\ pc \in {"reader_interrupted", "reader_stopped"} => hand \in Staged(semantic) \ Whole(semantic)
  /\ pc = "reader_commit" => hand \in Staged(semantic) \intersect Made(semantic, canonicalCurrent)
  /\ pc = "reader_replace" => hand \in Formal(semantic) \intersect Made(semantic, canonicalCurrent)
  /\ pc \in ReaderMaking \union {"reader_stopped", "reader_commit", "reader_replace"} =>
       semanticCurrent = NoRun
  /\ pc \in {"reader_current", "reader_replace"} \union CandidatePcs => Staged(semantic) = {}
  /\ pc \in CandidatePcs =>
       semanticCurrent \in Formal(semantic) \intersect Made(semantic, canonicalCurrent)

\* Materializations are of the one semantic run that ever became current.
CandidateInv ==
  /\ materialCurrent # NoRun => materialCurrent \in Formal(material) \intersect Whole(material)
  /\ materialNext \in {NoRun, Torn} \union (Formal(material) \intersect Whole(material))
  /\ \A r, s \in Staged(material) : r = s
  /\ \A r \in Staged(material) \union Formal(material) : semanticCurrent # NoRun /\ OfReader(r)
  /\ pc = "candidate_next" => hand = materialNext /\ hand \in Runs
  /\ pc \in {"candidate_staging", "candidate_current", "candidate_fill", "candidate_commit",
             "candidate_publish", "review"} => materialNext = NoRun
  /\ pc = "candidate_current" => Staged(material) = {}
  /\ pc = "candidate_fill" => hand \in Staged(material) \ Whole(material) /\ Whole(material) = {}
  /\ pc = "candidate_commit" => hand \in Staged(material) \intersect Whole(material)
  /\ pc \in {"candidate_publish", "candidate_pointer", "candidate_replace"} =>
       hand \in Formal(material) \intersect Whole(material)
  /\ pc = "review" => materialCurrent # NoRun

\* What the command has moved is what it has advanced, up to the stage it is in.
MovedInv ==
  /\ pc \in OcrPcs => advanced = {} /\ moved = IF pc = "ocr_unlink" THEN {"ocr"} ELSE {}
  /\ pc \in CanonicalPcs =>
       /\ advanced \subseteq {"ocr"}
       /\ moved = advanced \union IF pc = "canonical_unlink" THEN {"canonicalize"} ELSE {}
  /\ pc \in ReaderPcs => moved = advanced /\ advanced \subseteq {"ocr", "canonicalize"}
  /\ pc \in CandidatePcs \ {"review"} =>
       /\ moved \ {"reader"} = advanced /\ advanced \subseteq {"ocr", "canonicalize"}
       /\ "reader" \in moved => materialCurrent = NoRun
  /\ AdvanceIsReported

\* Nothing a command of an unscarred Work left behind is in the way of the next one, and
\* nothing downstream of a pointer is pending when the pointer moves.
OcrLeft == pc \in {"idle", "ocr"} => ocrTemp = NoRun \/ OcrTempUsable
PendingIsDownstream ==
  /\ Staged(canonical) # {} \/ canonicalTemp # NoRun => ocrCurrent \in OcrMatches
  /\ Staged(semantic) # {} \/ semanticCurrent # NoRun =>
       ocrCurrent \in OcrMatches /\ canonicalCurrent \in CanonicalMatches
  /\ semanticCurrent # NoRun => OfCanonical(semanticCurrent)
CanonicalLeft ==
  pc \notin CanonicalPcs \ {"canonical"} =>
    Staged(canonical) \subseteq CanonicalMatches /\ CanonicalPointersUsable
ReaderLeft == pc \notin ReaderPcs \ {"reader"} => \A r \in Staged(semantic) : ReaderInterruptible(r)
CandidateLeft ==
  /\ pc # "candidate_pointer" => materialNext # Torn
  /\ pc # "candidate_fill" => Staged(material) \subseteq Whole(material)
CleanInv ==
  scarred \/ (OcrLeft /\ PendingIsDownstream /\ CanonicalLeft /\ ReaderLeft /\ CandidateLeft)

IInv ==
  /\ TypeOK /\ UniqueInv /\ AttemptsInv /\ OcrInv /\ CanonicalInv /\ ReaderInv /\ CandidateInv
  /\ MovedInv /\ CleanInv /\ LostOnlyWhenScarred

=============================================================================
