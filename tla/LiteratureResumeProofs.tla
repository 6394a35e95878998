------------------------- MODULE LiteratureResumeProofs -------------------------
(***************************************************************************)
(* What is proved of the four stages of literature resume, for any number  *)
(* of runs and releases and wherever commands are halted: IInv is kept by  *)
(* every step, and the properties follow from it.  A step's lemma first    *)
(* says where the command goes and what it leaves alone (<1>a), what the   *)
(* invariant says at the place it leaves (<1>g) and what the step did to   *)
(* the run tree (<1>t); the parts of the invariant then follow from these. *)
(***************************************************************************)
EXTENDS LiteratureResume, FiniteSetTheorems, TLAPS

(******************************* run trees *******************************)

\* A run is absent, staged or formal, and what is whole is one of the last two.
LEMMA TreeIs ==
  ASSUME NEW states, NEW tree \in Trees(states)
  PROVE /\ Staged(tree) \subseteq Runs /\ Formal(tree) \subseteq Runs /\ Whole(tree) \subseteq Runs
        /\ Staged(tree) \intersect Formal(tree) = {}
        /\ Whole(tree) \subseteq Staged(tree) \union Formal(tree)
        /\ \A r \in Runs : tree[r].of \in Inputs
BY RunsAssumption DEF Trees, Dirs, Staged, Formal, Whole, Absent, Inputs

\* What a new staging directory changes in a tree.
LEMMA MkdirIs ==
  ASSUME NEW states, "partial" \in states, NEW tree \in Trees(states),
         NEW r \in Free(tree), NEW input \in Inputs,
         NEW next, next = Mkdir(tree, r, input)
  PROVE /\ next \in Trees(states)
        /\ Staged(next) = Staged(tree) \union {r}
        /\ Formal(next) = Formal(tree) /\ Whole(next) = Whole(tree)
        /\ next[r].of = input /\ next[r].state = "partial"
        /\ \A s \in Runs \ {r} : next[s] = tree[s]
        /\ r \in Runs \ (Staged(tree) \union Formal(tree) \union Whole(tree))
        /\ \A s \in Whole(tree) : s \in Runs /\ next[s].of = tree[s].of
<1> DEFINE made == [at |-> "staging", state |-> "partial", of |-> input]
<1>1. r \in Runs /\ tree[r] = Absent
  BY DEF Free, Trees, Dirs, Staged, Formal
<1>2. made \in Dirs(states)
  BY DEF Dirs
<1>3. /\ next \in [Runs -> {Absent} \union Dirs(states)]
      /\ next[r] = made /\ \A s \in Runs \ {r} : next[s] = tree[s]
  BY <1>1, <1>2 DEF Mkdir, Trees
<1> QED BY <1>1, <1>3 DEF Trees, Staged, Formal, Whole, Absent, Free

\* What a new state of a run changes in a tree.
LEMMA BecomesIs ==
  ASSUME NEW states, NEW state \in states, NEW tree \in Trees(states),
         NEW r \in Staged(tree) \union Formal(tree),
         NEW next, next = Becomes(tree, r, state)
  PROVE /\ next \in Trees(states)
        /\ Staged(next) = Staged(tree) /\ Formal(next) = Formal(tree)
        /\ Whole(next) = IF state = "succeeded" THEN Whole(tree) \union {r} ELSE Whole(tree) \ {r}
        /\ r \notin Whole(tree) => Whole(tree) \subseteq Whole(next)
        /\ next[r].state = state /\ \A s \in Runs : next[s].of = tree[s].of
        /\ \A s \in Runs \ {r} : next[s] = tree[s]
        /\ Whole(tree) \subseteq Runs /\ r \in Runs
<1> DEFINE made == [tree[r] EXCEPT !.state = state]
<1>1. r \in Runs /\ tree[r] \in Dirs(states)
  BY DEF Trees, Dirs, Staged, Formal, Absent
<1>2. made \in Dirs(states) /\ made.state = state /\ made.of = tree[r].of /\ made.at = tree[r].at
  BY <1>1 DEF Dirs
<1>3. /\ next \in [Runs -> {Absent} \union Dirs(states)]
      /\ next[r] = made /\ \A s \in Runs \ {r} : next[s] = tree[s]
  BY <1>1, <1>2 DEF Becomes, Trees
<1>4. next \in Trees(states)
  BY <1>3 DEF Trees
<1> HIDE DEF made
<1> QED BY <1>1, <1>2, <1>3, <1>4 DEF Staged, Formal, Whole

\* What the rename from staging/ to runs/ changes in a tree.
LEMMA RenamedIs ==
  ASSUME NEW states, NEW tree \in Trees(states), NEW r \in Staged(tree),
         NEW next, next = Renamed(tree, r)
  PROVE /\ next \in Trees(states)
        /\ Staged(next) = Staged(tree) \ {r} /\ Formal(next) = Formal(tree) \union {r}
        /\ Whole(next) = Whole(tree)
        /\ \A s \in Runs : next[s].of = tree[s].of /\ next[s].state = tree[s].state
        /\ Whole(tree) \subseteq Runs /\ r \in Runs
<1> DEFINE made == [tree[r] EXCEPT !.at = "runs"]
<1>1. r \in Runs /\ tree[r] \in Dirs(states)
  BY DEF Trees, Dirs, Staged, Absent
<1>2. made \in Dirs(states) /\ made.at = "runs" /\ made.of = tree[r].of /\ made.state = tree[r].state
  BY <1>1 DEF Dirs
<1>3. /\ next \in [Runs -> {Absent} \union Dirs(states)]
      /\ next[r] = made /\ \A s \in Runs \ {r} : next[s] = tree[s]
  BY <1>1, <1>2 DEF Renamed, Trees
<1>4. next \in Trees(states)
  BY <1>3 DEF Trees
<1> HIDE DEF made
<1> QED BY <1>1, <1>2, <1>3, <1>4 DEF Staged, Formal, Whole

\* What cannot hold two runs is not counted as more than one.
LEMMA AtMostOne ==
  ASSUME NEW S \in SUBSET Runs, \A r, s \in S : r = s
  PROVE  Cardinality(S) <= 1 /\ ~(Cardinality(S) > 1)
<1>1. CASE S = {} BY <1>1, FS_EmptySet
<1>2. CASE S # {}
  <2> PICK r \in S : TRUE BY <1>2
  <2>1. S = {r} OBVIOUS
  <2>2. IsFiniteSet({r}) /\ Cardinality({r}) = 1 BY FS_Singleton
  <2> QED BY <2>1, <2>2
<1> QED BY <1>1, <1>2

(* What a stage leaves alone. *)
Along ==
  moved' = moved \union Moves /\ unfit' \in {unfit, unfit \union Completes} /\ UNCHANGED scarred
OcrOnly == UNCHANGED <<canonicalVars, readerVars, candidateVars>> /\ Along
CanonicalOnly == UNCHANGED <<ocrVars, readerVars, candidateVars>> /\ Along
ReaderOnly    == UNCHANGED <<ocrVars, canonicalVars, candidateVars>> /\ Along
CandidateOnly == UNCHANGED <<ocrVars, canonicalVars, readerVars>> /\ Along

\* The four trees.
LEMMA TreesAre ==
  ASSUME IInv
  PROVE \A tree \in {ocr, canonical, semantic, material} :
          /\ Staged(tree) \subseteq Runs /\ Formal(tree) \subseteq Runs
          /\ Whole(tree) \subseteq Runs
          /\ Staged(tree) \intersect Formal(tree) = {}
          /\ Whole(tree) \subseteq Staged(tree) \union Formal(tree)
          /\ \A r \in Runs : tree[r].of \in Inputs
<1> /\ ocr \in Trees(OcrStates) /\ canonical \in Trees({"partial", "succeeded"})
    /\ semantic \in Trees(ReaderStates) /\ material \in Trees({"partial", "succeeded"})
  BY DEF IInv, TypeOK, OcrTypeOK, CanonicalTypeOK, ReaderTypeOK, CandidateTypeOK
<1> QED BY TreeIs

(* What is found to be of no use is a success of a stage. *)
LEMMA UnfitTyped ==
  ASSUME IInv, OcrOnly \/ CanonicalOnly \/ ReaderOnly \/ CandidateOnly
  PROVE  UnfitTypeOK'
<1>1. unfit' \in {unfit, unfit \union Completes} /\ unfit \subseteq Links \X Runs
  BY DEF OcrOnly, CanonicalOnly, ReaderOnly, CandidateOnly, Along, IInv, TypeOK, UnfitTypeOK
<1>2. pc \in {"ocr_finish", "canonical_fill", "reader_result"} => hand \in Runs
  BY TreesAre DEF IInv, OcrInv, CanonicalInv, ReaderInv, ReaderMaking
<1>3. Completes \subseteq Links \X Runs
  BY <1>2 DEF Completes, Links
<1> QED BY <1>1, <1>3 DEF UnfitTypeOK

(* What a command reports. *)
LEMMA SameWord ==
  ASSUME IInv, result' = result, scarred' = scarred PROVE LostOnlyWhenScarred'
BY DEF LostOnlyWhenScarred, IInv

LEMMA OtherWord ==
  ASSUME NEW w, result' = w, w \notin {"uncertain", "asset_integrity_lost"}
  PROVE LostOnlyWhenScarred'
BY DEF LostOnlyWhenScarred

LEMMA Reasons ==
  ASSUME TypeOK PROVE reason \notin {"uncertain", "asset_integrity_lost"}
BY DEF TypeOK, OcrReasons, ReaderReasons

(* What the stages behind the command have left. *)
LEMMA OcrDone ==
  ASSUME IInv, pc \in AfterOcr
  PROVE  ocrTemp = NoRun /\ ocrCurrent \in Formal(ocr) \intersect Made(ocr, release)
BY DEF IInv, OcrInv

LEMMA CanonicalDone ==
  ASSUME IInv, pc \in AfterCanonical
  PROVE  /\ canonicalTemp = NoRun /\ canonicalCopy = NoRun /\ Staged(canonical) = {}
         /\ canonicalCurrent \in Formal(canonical) \intersect Made(canonical, ocrCurrent)
BY DEF IInv, CanonicalInv, CanonicalMatches

LEMMA ReaderDone ==
  ASSUME IInv, pc \in CandidatePcs
  PROVE  /\ Staged(semantic) = {}
         /\ semanticCurrent \in Formal(semantic) \intersect Made(semantic, canonicalCurrent)
BY DEF IInv, ReaderInv

\* A pointer names a run.
LEMMA NoRunIsNone == NoRun \notin Runs /\ Torn \notin Runs /\ NoRun # Torn
BY RunsAssumption DEF NoRun, Runs, Torn

(* What a stage that is not at work owes to its own variables alone. *)
LEMMA BeforeCanonical ==
  ASSUME IInv, UNCHANGED <<canonicalVars, readerVars, candidateVars>>,
         pc' \in OcrPcs \union {"idle", "canonical"}
  PROVE  CanonicalInv' /\ ReaderInv' /\ CandidateInv'
<1>1. CanonicalInv'
  BY DEF IInv, CanonicalInv, canonicalVars, OcrPcs, CanonicalPcs, AfterCanonical, ReaderPcs,
     CandidatePcs
<1>2. ReaderInv'
  BY DEF IInv, ReaderInv, readerVars, OcrPcs, ReaderMaking, CandidatePcs
<1>3. CandidateInv'
  BY DEF IInv, CandidateInv, candidateVars, readerVars, OcrPcs, OfReader
<1> QED BY <1>1, <1>2, <1>3

LEMMA BeforeReader ==
  ASSUME IInv, UNCHANGED <<readerVars, candidateVars>>,
         pc' \in CanonicalPcs \union {"idle", "reader"}
  PROVE  ReaderInv' /\ CandidateInv'
<1>1. ReaderInv'
  BY DEF IInv, ReaderInv, readerVars, CanonicalPcs, ReaderMaking, CandidatePcs
<1>2. CandidateInv'
  BY DEF IInv, CandidateInv, candidateVars, readerVars, CanonicalPcs, OfReader
<1> QED BY <1>1, <1>2

LEMMA BeforeCandidate ==
  ASSUME IInv, UNCHANGED <<semanticCurrent, candidateVars>>,
         pc' \in ReaderPcs \union {"idle", "candidate"}
  PROVE  CandidateInv'
BY DEF IInv, CandidateInv, candidateVars, ReaderPcs, OfReader

LEMMA AfterOcrStays ==
  ASSUME IInv, pc \in AfterOcr, pc' \in AfterOcr \union {"idle"}, UNCHANGED <<ocrVars, release>>
  PROVE  OcrInv'
BY DEF IInv, OcrInv, ocrVars, AfterOcr, AfterCanonical, CanonicalPcs, ReaderPcs, CandidatePcs

LEMMA AfterCanonicalStays ==
  ASSUME IInv, pc \in AfterCanonical, pc' \in AfterCanonical \union {"idle"},
         UNCHANGED <<canonicalVars, ocrCurrent>>
  PROVE  CanonicalInv'
BY DEF IInv, CanonicalInv, canonicalVars, AfterCanonical, CanonicalPcs, ReaderPcs, CandidatePcs,
   CanonicalMatches

LEMMA AfterReaderStays ==
  ASSUME IInv, pc \in CandidatePcs, pc' \in CandidatePcs \union {"idle"},
         UNCHANGED <<readerVars, canonicalCurrent>>
  PROVE  ReaderInv'
BY DEF IInv, ReaderInv, readerVars, CandidatePcs, ReaderMaking

LEMMA SameTrees == ASSUME IInv, UNCHANGED <<ocr, canonical, semantic, material>> PROVE UniqueInv'
BY DEF IInv, UniqueInv, Unique

LEMMA NothingMoves == ASSUME pc' = "idle" PROVE MovedInv'
BY DEF MovedInv, AdvanceIsReported, OcrPcs, CanonicalPcs, ReaderPcs, CandidatePcs

(*********************** each step keeps the invariant ***********************)

\* The steps of the OCR stage.
LEMMA OcrLostStep == ASSUME IInv, OcrLost, OcrOnly PROVE IInv'
<1>a. /\ pc = "ocr"
      /\ \/ Cardinality(OcrMatches) > 1
         \/ ocrTemp # NoRun /\ ~OcrTempUsable
      /\ pc' = "idle" /\ hand' = NoRun /\ attempts' = <<>> /\ reason' = "none"
      /\ result' = "uncertain"
      /\ UNCHANGED <<advanced, release, ocr, ocrTemp, ocrCurrent, canonical,
                    canonicalTemp, canonicalCopy, canonicalCurrent, semantic, semanticCurrent,
                    material, materialNext, materialCurrent, moved, scarred>>
  BY DEF OcrLost, OcrOnly, Stop, ocrVars, canonicalVars, readerVars, candidateVars, Along, Moves
<1>1. TypeOK'
  BY <1>a, UnfitTyped, RunsAssumption, ReleasesAssumption DEF IInv, TypeOK, OcrTypeOK,
     CanonicalTypeOK, ReaderTypeOK, CandidateTypeOK, Inputs, Runs, NoRun, Torn, Stages, OcrOutcomes, OcrTransient,
     AttemptKinds, OcrReasons, ReaderReasons, ReaderAttempts
<1>2. UniqueInv'
  BY <1>a, SameTrees
<1>3. AttemptsInv'
  BY <1>a DEF IInv, AttemptsInv
<1>4. OcrInv'
  BY <1>a DEF IInv, OcrInv, AfterOcr, AfterCanonical, CanonicalPcs, ReaderPcs, CandidatePcs
<1>5. CanonicalInv' /\ ReaderInv' /\ CandidateInv'
  BY <1>a, BeforeCanonical DEF canonicalVars, readerVars, candidateVars
<1>6. MovedInv'
  BY <1>a, NothingMoves
<1>7. CleanInv'
  BY <1>a DEF IInv, CleanInv, OcrLeft, PendingIsDownstream, CanonicalLeft, ReaderLeft,
     CandidateLeft, OcrTempUsable, OcrMatches, CanonicalMatches, CanonicalPcs, ReaderPcs,
     CanonicalPointersUsable, CanonicalTempUsable, ReaderInterruptible, OfCanonical, Made
<1>8. LostOnlyWhenScarred'
  <2> SUFFICES ASSUME ~scarred PROVE FALSE
    BY <1>a DEF LostOnlyWhenScarred
  <2>1. ocrTemp = NoRun \/ OcrTempUsable
    BY <1>a DEF IInv, CleanInv, OcrLeft
  <2>2. ~(Cardinality(OcrMatches) > 1)
    <3>1. OcrMatches \in SUBSET Runs /\ \A r, s \in OcrMatches : r = s
      BY TreesAre DEF IInv, UniqueInv, Unique, OcrMatches, Made
    <3> QED BY <3>1, AtMostOne
  <2> QED BY <1>a, <2>1, <2>2
<1> QED BY <1>1, <1>2, <1>3, <1>4, <1>5, <1>6, <1>7, <1>8 DEF IInv

LEMMA OcrRepairStep == ASSUME IInv, OcrRepair, OcrOnly PROVE IInv'
<1>a. /\ pc = "ocr"
      /\ ocrTemp # NoRun /\ OcrTempUsable
      /\ pc' = "ocr_replace"
      /\ hand' = ocrTemp
      /\ UNCHANGED <<attempts, reason, advanced, result, release, ocr,
                    ocrTemp, ocrCurrent, canonical, canonicalTemp, canonicalCopy,
                    canonicalCurrent, semantic, semanticCurrent, material, materialNext,
                    materialCurrent, moved, scarred>>
  BY DEF OcrRepair, OcrOnly, Goto, ocrVars, canonicalVars, readerVars, candidateVars, Along, Moves
<1>g. /\ ocrTemp \in Runs
      /\ ocrTemp \in Formal(ocr) \intersect Made(ocr, release)
  BY <1>a, TreesAre DEF OcrTempUsable, OcrMatches
<1>1. TypeOK'
  BY <1>a, UnfitTyped, <1>g DEF IInv, TypeOK, OcrTypeOK, CanonicalTypeOK, ReaderTypeOK,
     CandidateTypeOK,
     Inputs, Runs, NoRun, Torn, OcrPcs, CanonicalPcs, ReaderPcs, CandidatePcs
<1>2. UniqueInv'
  BY <1>a, SameTrees
<1>3. AttemptsInv'
  BY <1>a DEF IInv, AttemptsInv, OcrPcs, ReaderPcs
<1>4. OcrInv'
  BY <1>a, <1>g DEF IInv, OcrInv, AfterOcr, AfterCanonical, CanonicalPcs, ReaderPcs, CandidatePcs
<1>5. CanonicalInv' /\ ReaderInv' /\ CandidateInv'
  BY <1>a, BeforeCanonical DEF OcrPcs, canonicalVars, readerVars, candidateVars
<1>6. MovedInv'
  BY <1>a DEF IInv, MovedInv, OcrPcs, CanonicalPcs, ReaderPcs, CandidatePcs, AdvanceIsReported
<1>7. CleanInv'
  BY <1>a DEF IInv, CleanInv, OcrLeft, PendingIsDownstream, CanonicalLeft, ReaderLeft,
     CandidateLeft, OcrTempUsable, OcrMatches, CanonicalMatches, CanonicalPcs, ReaderPcs,
     CanonicalPointersUsable, CanonicalTempUsable, ReaderInterruptible, OfCanonical, Made
<1>8. LostOnlyWhenScarred'
  BY <1>a, SameWord
<1> QED BY <1>1, <1>2, <1>3, <1>4, <1>5, <1>6, <1>7, <1>8 DEF IInv

LEMMA OcrReuseStep == ASSUME IInv, OcrReuse, OcrOnly PROVE IInv'
<1>a. /\ pc = "ocr"
      /\ ocrTemp = NoRun /\ OcrIsCurrent
      /\ pc' = "canonical" /\ hand' = NoRun /\ attempts' = <<>> /\ reason' = "none"
      /\ UNCHANGED <<advanced, result, release, ocr, ocrTemp, ocrCurrent,
                    canonical, canonicalTemp, canonicalCopy, canonicalCurrent, semantic,
                    semanticCurrent, material, materialNext, materialCurrent, moved, scarred>>
  BY DEF OcrReuse, OcrOnly, OcrSettled, HandOver, ocrVars, canonicalVars, readerVars,
     candidateVars, Along, Moves
<1>g. /\ ocrCurrent \in Formal(ocr) \intersect Made(ocr, release)
  BY <1>a DEF IInv, OcrInv, OcrIsCurrent, Made
<1>1. TypeOK'
  BY <1>a, UnfitTyped, RunsAssumption, ReleasesAssumption DEF IInv, TypeOK, OcrTypeOK,
     CanonicalTypeOK, ReaderTypeOK, CandidateTypeOK, Inputs, Runs, NoRun, Torn, OcrPcs, CanonicalPcs, ReaderPcs,
     CandidatePcs, Stages, OcrOutcomes, OcrTransient, AttemptKinds, OcrReasons, ReaderReasons,
     ReaderAttempts
<1>2. UniqueInv'
  BY <1>a, SameTrees
<1>3. AttemptsInv'
  BY <1>a DEF IInv, AttemptsInv
<1>4. OcrInv'
  BY <1>a, <1>g DEF IInv, OcrInv
<1>5. CanonicalInv' /\ ReaderInv' /\ CandidateInv'
  BY <1>a, BeforeCanonical DEF canonicalVars, readerVars, candidateVars
<1>6. MovedInv'
  BY <1>a DEF IInv, MovedInv, OcrPcs, CanonicalPcs, ReaderPcs, CandidatePcs, AdvanceIsReported
<1>7. CleanInv'
  BY <1>a DEF IInv, CleanInv, OcrLeft, PendingIsDownstream, CanonicalLeft, ReaderLeft,
     CandidateLeft, OcrTempUsable, OcrMatches, CanonicalMatches, CanonicalPcs, ReaderPcs,
     CanonicalPointersUsable, CanonicalTempUsable, ReaderInterruptible, OfCanonical, Made
<1>8. LostOnlyWhenScarred'
  BY <1>a, SameWord
<1> QED BY <1>1, <1>2, <1>3, <1>4, <1>5, <1>6, <1>7, <1>8 DEF IInv

LEMMA OcrRecoverStep == ASSUME IInv, OcrRecover, OcrOnly PROVE IInv'
<1>a. /\ pc = "ocr"
      /\ ocrTemp = NoRun /\ ~OcrIsCurrent
      /\ hand' \in OcrMatches
      /\ pc' = IF hand' \in Staged(ocr) THEN "ocr_commit" ELSE "ocr_publish"
      /\ UNCHANGED <<attempts, reason, advanced, result, release, ocr,
                    ocrTemp, ocrCurrent, canonical, canonicalTemp, canonicalCopy,
                    canonicalCurrent, semantic, semanticCurrent, material, materialNext,
                    materialCurrent, moved, scarred>>
  BY DEF OcrRecover, OcrOnly, OcrSettled, Goto, ocrVars, canonicalVars, readerVars, candidateVars,
     Along, Moves
<1>g. /\ hand' \in Runs /\ hand' \in Made(ocr, release)
      /\ hand' \in Staged(ocr) \union Formal(ocr)
  BY <1>a, TreesAre DEF OcrMatches, Made
<1>1. TypeOK'
  BY <1>a, UnfitTyped, <1>g DEF IInv, TypeOK, OcrTypeOK, CanonicalTypeOK, ReaderTypeOK,
     CandidateTypeOK,
     Inputs, Runs, NoRun, Torn, OcrPcs, CanonicalPcs, ReaderPcs, CandidatePcs
<1>2. UniqueInv'
  BY <1>a, SameTrees
<1>3. AttemptsInv'
  BY <1>a DEF IInv, AttemptsInv, OcrPcs, ReaderPcs
<1>4. OcrInv'
  BY <1>a, <1>g DEF IInv, OcrInv, AfterOcr, AfterCanonical, CanonicalPcs, ReaderPcs, CandidatePcs,
     Made
<1>5. CanonicalInv' /\ ReaderInv' /\ CandidateInv'
  BY <1>a, BeforeCanonical DEF OcrPcs, canonicalVars, readerVars, candidateVars
<1>6. MovedInv'
  BY <1>a DEF IInv, MovedInv, OcrPcs, CanonicalPcs, ReaderPcs, CandidatePcs, AdvanceIsReported
<1>7. CleanInv'
  BY <1>a DEF IInv, CleanInv, OcrLeft, PendingIsDownstream, CanonicalLeft, ReaderLeft,
     CandidateLeft, OcrTempUsable, OcrMatches, CanonicalMatches, CanonicalPcs, ReaderPcs,
     CanonicalPointersUsable, CanonicalTempUsable, ReaderInterruptible, OfCanonical, Made
<1>8. LostOnlyWhenScarred'
  BY <1>a, SameWord
<1> QED BY <1>1, <1>2, <1>3, <1>4, <1>5, <1>6, <1>7, <1>8 DEF IInv

LEMMA OcrBeginStep == ASSUME IInv, OcrBegin, OcrOnly PROVE IInv'
<1>a. /\ pc = "ocr"
      /\ ocrTemp = NoRun /\ OcrMatches = {}
      /\ pc' = "ocr_attempt"
      /\ hand' \in Free(ocr) /\ ocr' = Mkdir(ocr, hand', release)
      /\ UNCHANGED <<attempts, reason, advanced, result, release, ocrTemp,
                    ocrCurrent, canonical, canonicalTemp, canonicalCopy, canonicalCurrent,
                    semantic, semanticCurrent, material, materialNext, materialCurrent, moved,
                    scarred>>
  BY DEF OcrBegin, OcrOnly, OcrSettled, IsNext, Goto, canonicalVars, readerVars, candidateVars,
     Along, Moves
<1>g. /\ Made(ocr, release) = {}
  BY <1>a DEF OcrMatches
<1>s. /\ ocr \in Trees(OcrStates) /\ release \in Inputs
      /\ ocr' = Mkdir(ocr, hand', release)
      /\ "partial" \in OcrStates /\ hand' \in Free(ocr)
  BY <1>a, RunsAssumption, ReleasesAssumption DEF IInv, TypeOK, OcrTypeOK, OcrStates, OcrInv,
     CanonicalTypeOK, ReaderTypeOK, Inputs
<1>t. /\ ocr' \in Trees(OcrStates)
      /\ Staged(ocr') = Staged(ocr) \union {hand'}
      /\ Formal(ocr') = Formal(ocr) /\ Whole(ocr') = Whole(ocr)
      /\ ocr'[hand'].of = release /\ ocr'[hand'].state = "partial"
      /\ \A s \in Runs \ {hand'} : ocr'[s] = ocr[s]
      /\ hand' \in Runs \ (Staged(ocr) \union Formal(ocr) \union Whole(ocr))
      /\ \A s \in Whole(ocr) : s \in Runs /\ ocr'[s].of = ocr[s].of
  BY <1>s, MkdirIs
<1>1. TypeOK'
  BY <1>a, UnfitTyped, <1>t DEF IInv, TypeOK, OcrTypeOK, CanonicalTypeOK, ReaderTypeOK,
     CandidateTypeOK,
     Inputs, Runs, NoRun, Torn, OcrPcs, CanonicalPcs, ReaderPcs, CandidatePcs
<1>2. UniqueInv'
  BY <1>a, <1>t DEF IInv, UniqueInv, Unique
<1>3. AttemptsInv'
  BY <1>a DEF IInv, AttemptsInv, OcrAttempts, ReaderAttempts, OcrPcs, ReaderPcs
<1>4. OcrInv'
  BY <1>a, <1>t, <1>g DEF IInv, OcrInv, AfterOcr, AfterCanonical, CanonicalPcs, ReaderPcs,
     CandidatePcs, Made
<1>5. CanonicalInv' /\ ReaderInv' /\ CandidateInv'
  BY <1>a, BeforeCanonical DEF OcrPcs, canonicalVars, readerVars, candidateVars
<1>6. MovedInv'
  BY <1>a DEF IInv, MovedInv, OcrPcs, CanonicalPcs, ReaderPcs, CandidatePcs, AdvanceIsReported
<1>7. CleanInv'
  BY <1>a DEF IInv, CleanInv, OcrLeft, PendingIsDownstream, CanonicalLeft, ReaderLeft,
     CandidateLeft, CanonicalPcs, ReaderPcs, CanonicalPointersUsable, CanonicalTempUsable,
     ReaderInterruptible
<1>8. LostOnlyWhenScarred'
  BY <1>a, SameWord
<1> QED BY <1>1, <1>2, <1>3, <1>4, <1>5, <1>6, <1>7, <1>8 DEF IInv

LEMMA OcrNativeStep == ASSUME IInv, OcrNative, OcrOnly PROVE IInv'
<1>a. /\ pc = "ocr_attempt" /\ attempts = <<>>
      /\ pc' = "ocr_finish"
      /\ UNCHANGED <<hand, attempts, reason, advanced, result, release, ocr,
                    ocrTemp, ocrCurrent, canonical, canonicalTemp, canonicalCopy,
                    canonicalCurrent, semantic, semanticCurrent, material, materialNext,
                    materialCurrent, moved, scarred>>
  BY DEF OcrNative, OcrOnly, Goto, ocrVars, canonicalVars, readerVars, candidateVars, Along, Moves
<1>1. TypeOK'
  BY <1>a, UnfitTyped DEF IInv, TypeOK, OcrTypeOK, CanonicalTypeOK, ReaderTypeOK,
     CandidateTypeOK, OcrPcs,
     CanonicalPcs, ReaderPcs, CandidatePcs
<1>2. UniqueInv'
  BY <1>a, SameTrees
<1>3. AttemptsInv'
  BY <1>a DEF IInv, AttemptsInv
<1>4. OcrInv'
  BY <1>a DEF IInv, OcrInv, AfterOcr, AfterCanonical, CanonicalPcs, ReaderPcs, CandidatePcs
<1>5. CanonicalInv' /\ ReaderInv' /\ CandidateInv'
  BY <1>a, BeforeCanonical DEF OcrPcs, canonicalVars, readerVars, candidateVars
<1>6. MovedInv'
  BY <1>a DEF IInv, MovedInv, OcrPcs, CanonicalPcs, ReaderPcs, CandidatePcs, AdvanceIsReported
<1>7. CleanInv'
  BY <1>a DEF IInv, CleanInv, OcrLeft, PendingIsDownstream, CanonicalLeft, ReaderLeft,
     CandidateLeft, OcrTempUsable, OcrMatches, CanonicalMatches, CanonicalPcs, ReaderPcs,
     CanonicalPointersUsable, CanonicalTempUsable, ReaderInterruptible, OfCanonical, Made
<1>8. LostOnlyWhenScarred'
  BY <1>a, SameWord
<1> QED BY <1>1, <1>2, <1>3, <1>4, <1>5, <1>6, <1>7, <1>8 DEF IInv

LEMMA OcrUnresolvedStep == ASSUME IInv, OcrUnresolved, OcrOnly PROVE IInv'
<1>a. /\ pc = "ocr_attempt"
      /\ pc' = "ocr_stop" /\ reason' = "ocr_runtime_unavailable"
      /\ UNCHANGED <<hand, attempts, advanced, result, release, ocr,
                    ocrTemp, ocrCurrent, canonical, canonicalTemp, canonicalCopy,
                    canonicalCurrent, semantic, semanticCurrent, material, materialNext,
                    materialCurrent, moved, scarred>>
  BY DEF OcrUnresolved, OcrOnly, Ends, ocrVars, canonicalVars, readerVars, candidateVars, Along,
     Moves
<1>1. TypeOK'
  BY <1>a, UnfitTyped DEF IInv, TypeOK, OcrTypeOK, CanonicalTypeOK, ReaderTypeOK,
     CandidateTypeOK, OcrPcs,
     CanonicalPcs, ReaderPcs, CandidatePcs, Stages, OcrOutcomes, OcrTransient, AttemptKinds,
     OcrReasons, ReaderReasons, ReaderAttempts
<1>2. UniqueInv'
  BY <1>a, SameTrees
<1>3. AttemptsInv'
  BY <1>a DEF IInv, AttemptsInv, OcrPcs, ReaderPcs
<1>4. OcrInv'
  BY <1>a DEF IInv, OcrInv, AfterOcr, AfterCanonical, CanonicalPcs, ReaderPcs, CandidatePcs
<1>5. CanonicalInv' /\ ReaderInv' /\ CandidateInv'
  BY <1>a, BeforeCanonical DEF OcrPcs, canonicalVars, readerVars, candidateVars
<1>6. MovedInv'
  BY <1>a DEF IInv, MovedInv, OcrPcs, CanonicalPcs, ReaderPcs, CandidatePcs, AdvanceIsReported
<1>7. CleanInv'
  BY <1>a DEF IInv, CleanInv, OcrLeft, PendingIsDownstream, CanonicalLeft, ReaderLeft,
     CandidateLeft, OcrTempUsable, OcrMatches, CanonicalMatches, CanonicalPcs, ReaderPcs,
     CanonicalPointersUsable, CanonicalTempUsable, ReaderInterruptible, OfCanonical, Made
<1>8. LostOnlyWhenScarred'
  BY <1>a, SameWord
<1> QED BY <1>1, <1>2, <1>3, <1>4, <1>5, <1>6, <1>7, <1>8 DEF IInv

LEMMA OcrAttemptStep == ASSUME IInv, OcrAttempt, OcrOnly PROVE IInv'
<1>a. /\ pc = "ocr_attempt"
      /\ pc' \in {"ocr_attempt", "ocr_finish", "ocr_stop"}
      /\ pc' = "ocr_attempt" => Len(attempts') < OcrAttempts
      /\ reason' \in {"none"} \union OcrReasons
      /\ \E outcome \in OcrOutcomes : attempts' = Append(attempts, outcome)
      /\ UNCHANGED <<hand, advanced, result, release, ocr, ocrTemp,
                    ocrCurrent, canonical, canonicalTemp, canonicalCopy, canonicalCurrent,
                    semantic, semanticCurrent, material, materialNext, materialCurrent, moved,
                    scarred>>
  BY DEF OcrAttempt, OcrOnly, Ends, ocrVars, canonicalVars, readerVars, candidateVars, Along,
     Moves, OcrReasonOf, OcrReasons
<1>1. TypeOK'
  <2> PICK outcome \in OcrOutcomes : attempts' = Append(attempts, outcome)
    BY <1>a, UnfitTyped
  <2>1. attempts \in Seq(OcrOutcomes \union AttemptKinds) /\ Len(attempts) < OcrAttempts
    BY <1>a, UnfitTyped DEF IInv, TypeOK, AttemptsInv
  <2>2. attempts' \in Seq(OcrOutcomes \union AttemptKinds) /\ Len(attempts') <= ReaderAttempts
    BY <2>1 DEF OcrAttempts, ReaderAttempts
  <2> QED BY <1>a, UnfitTyped, <2>2 DEF IInv, TypeOK, OcrTypeOK, CanonicalTypeOK, ReaderTypeOK,
             CandidateTypeOK, OcrPcs
<1>2. UniqueInv'
  BY <1>a, SameTrees
<1>3. AttemptsInv'
  BY <1>a DEF IInv, AttemptsInv, OcrPcs, ReaderPcs
<1>4. OcrInv'
  BY <1>a DEF IInv, OcrInv, AfterOcr, AfterCanonical, CanonicalPcs, ReaderPcs, CandidatePcs
<1>5. CanonicalInv' /\ ReaderInv' /\ CandidateInv'
  BY <1>a, BeforeCanonical DEF OcrPcs, canonicalVars, readerVars, candidateVars
<1>6. MovedInv'
  BY <1>a DEF IInv, MovedInv, OcrPcs, CanonicalPcs, ReaderPcs, CandidatePcs, AdvanceIsReported
<1>7. CleanInv'
  BY <1>a DEF IInv, CleanInv, OcrLeft, PendingIsDownstream, CanonicalLeft, ReaderLeft,
     CandidateLeft, OcrTempUsable, OcrMatches, CanonicalMatches, CanonicalPcs, ReaderPcs,
     CanonicalPointersUsable, CanonicalTempUsable, ReaderInterruptible, OfCanonical, Made
<1>8. LostOnlyWhenScarred'
  BY <1>a, SameWord
<1> QED BY <1>1, <1>2, <1>3, <1>4, <1>5, <1>6, <1>7, <1>8 DEF IInv

LEMMA OcrOverBudgetStep == ASSUME IInv, OcrOverBudget, OcrOnly PROVE IInv'
<1>a. /\ pc = "ocr_attempt"
      /\ pc' = "idle" /\ hand' = NoRun /\ attempts' = <<>> /\ reason' = "none"
      /\ result' = "ocr_failed"
      /\ UNCHANGED <<advanced, release, ocr, ocrTemp, ocrCurrent, canonical,
                    canonicalTemp, canonicalCopy, canonicalCurrent, semantic, semanticCurrent,
                    material, materialNext, materialCurrent, moved, scarred>>
  BY DEF OcrOverBudget, OcrOnly, Stop, ocrVars, canonicalVars, readerVars, candidateVars, Along,
     Moves
<1>g. /\ ocrTemp = NoRun
  BY <1>a DEF IInv, OcrInv
<1>1. TypeOK'
  BY <1>a, UnfitTyped, RunsAssumption, ReleasesAssumption DEF IInv, TypeOK, OcrTypeOK,
     CanonicalTypeOK, ReaderTypeOK, CandidateTypeOK, Inputs, Runs, NoRun, Torn, Stages, OcrOutcomes, OcrTransient,
     AttemptKinds, OcrReasons, ReaderReasons, ReaderAttempts
<1>2. UniqueInv'
  BY <1>a, SameTrees
<1>3. AttemptsInv'
  BY <1>a DEF IInv, AttemptsInv
<1>4. OcrInv'
  BY <1>a DEF IInv, OcrInv, AfterOcr, AfterCanonical, CanonicalPcs, ReaderPcs, CandidatePcs
<1>5. CanonicalInv' /\ ReaderInv' /\ CandidateInv'
  BY <1>a, BeforeCanonical DEF canonicalVars, readerVars, candidateVars
<1>6. MovedInv'
  BY <1>a, NothingMoves
<1>7. CleanInv'
  <2> SUFFICES ASSUME ~scarred, OcrLeft, PendingIsDownstream,
                      CanonicalLeft, ReaderLeft, CandidateLeft
               PROVE  (/\ OcrLeft /\ PendingIsDownstream
                       /\ CanonicalLeft /\ ReaderLeft /\ CandidateLeft)'
    BY <1>a DEF IInv, CleanInv
  <2>1. OcrLeft'
    BY <1>a, <1>g DEF OcrLeft
  <2>2. PendingIsDownstream'
    BY <1>a DEF PendingIsDownstream, OcrMatches, CanonicalMatches, OfCanonical, Made
  <2>3. CanonicalLeft'
    BY <1>a DEF CanonicalLeft, CanonicalPcs, CanonicalPointersUsable, CanonicalTempUsable,
       CanonicalMatches
  <2>4. ReaderLeft'
    BY <1>a DEF ReaderLeft, ReaderPcs, ReaderInterruptible, OfCanonical
  <2>5. CandidateLeft'
    BY <1>a DEF CandidateLeft
  <2> QED BY <2>1, <2>2, <2>3, <2>4, <2>5
<1>8. LostOnlyWhenScarred'
  BY <1>a, OtherWord
<1> QED BY <1>1, <1>2, <1>3, <1>4, <1>5, <1>6, <1>7, <1>8 DEF IInv

LEMMA OcrFinishStep == ASSUME IInv, OcrFinish, OcrOnly PROVE IInv'
<1>a. /\ pc \in {"ocr_finish", "ocr_stop"}
      /\ pc' = "ocr_commit"
      /\ ocr' = Becomes(ocr, hand, IF reason = "none" THEN "succeeded" ELSE "stopped")
      /\ UNCHANGED <<hand, attempts, reason, advanced, result, release,
                    ocrTemp, ocrCurrent, canonical, canonicalTemp, canonicalCopy,
                    canonicalCurrent, semantic, semanticCurrent, material, materialNext,
                    materialCurrent, moved, scarred>>
  BY DEF OcrFinish, OcrOnly, Goto, canonicalVars, readerVars, candidateVars, Along, Moves
<1>g. /\ hand \in Staged(ocr) \ Whole(ocr) /\ hand \in Runs
      /\ ocr[hand].of = release /\ Made(ocr, release) = {} /\ ocrTemp = NoRun
  BY <1>a, TreesAre DEF IInv, OcrInv
<1>s. ocr \in Trees(OcrStates) /\ (IF reason = "none" THEN "succeeded" ELSE "stopped") \in OcrStates
  BY DEF IInv, TypeOK, OcrTypeOK, OcrStates
<1>t. /\ ocr' \in Trees(OcrStates)
      /\ Staged(ocr') = Staged(ocr) /\ Formal(ocr') = Formal(ocr)
      /\ Whole(ocr') \subseteq Whole(ocr) \union {hand} /\ Whole(ocr) \subseteq Whole(ocr')
      /\ \A s \in Runs : ocr'[s].of = ocr[s].of
      /\ Whole(ocr) \subseteq Runs
  <2>1. CASE reason = "none"
    BY <1>a, <1>g, <1>s, <2>1, BecomesIs
  <2>2. CASE reason # "none"
    BY <1>a, <1>g, <1>s, <2>2, BecomesIs
  <2> QED BY <2>1, <2>2
<1>1. TypeOK'
  BY <1>a, UnfitTyped, <1>t DEF IInv, TypeOK, OcrTypeOK, CanonicalTypeOK, ReaderTypeOK,
     CandidateTypeOK,
     OcrPcs, CanonicalPcs, ReaderPcs, CandidatePcs
<1>2. UniqueInv'
  BY <1>a, <1>t, <1>g DEF IInv, UniqueInv, Unique, Made
<1>3. AttemptsInv'
  BY <1>a DEF IInv, AttemptsInv, OcrPcs, ReaderPcs
<1>4. OcrInv'
  BY <1>a, <1>t, <1>g DEF IInv, OcrInv, AfterOcr, AfterCanonical, CanonicalPcs, ReaderPcs,
     CandidatePcs
<1>5. CanonicalInv' /\ ReaderInv' /\ CandidateInv'
  BY <1>a, BeforeCanonical DEF OcrPcs, canonicalVars, readerVars, candidateVars
<1>6. MovedInv'
  BY <1>a DEF IInv, MovedInv, OcrPcs, CanonicalPcs, ReaderPcs, CandidatePcs, AdvanceIsReported
<1>7. CleanInv'
  <2> SUFFICES ASSUME ~scarred, OcrLeft, PendingIsDownstream,
                      CanonicalLeft, ReaderLeft, CandidateLeft
               PROVE  (/\ OcrLeft /\ PendingIsDownstream
                       /\ CanonicalLeft /\ ReaderLeft /\ CandidateLeft)'
    BY <1>a DEF IInv, CleanInv
  <2>1. OcrLeft'
    BY <1>a DEF OcrLeft
  <2>2. PendingIsDownstream'
    BY <1>a, <1>g DEF PendingIsDownstream, OcrMatches, CanonicalMatches
  <2>3. CanonicalLeft'
    BY <1>a DEF CanonicalLeft, CanonicalPcs, CanonicalPointersUsable, CanonicalTempUsable,
       CanonicalMatches
  <2>4. ReaderLeft'
    BY <1>a DEF ReaderLeft, ReaderPcs, ReaderInterruptible, OfCanonical
  <2>5. CandidateLeft'
    BY <1>a DEF CandidateLeft
  <2> QED BY <2>1, <2>2, <2>3, <2>4, <2>5
<1>8. LostOnlyWhenScarred'
  BY <1>a, SameWord
<1> QED BY <1>1, <1>2, <1>3, <1>4, <1>5, <1>6, <1>7, <1>8 DEF IInv

LEMMA OcrCommitStep == ASSUME IInv, OcrCommit, OcrOnly PROVE IInv'
<1>a. /\ pc = "ocr_commit"
      /\ ocr' = Renamed(ocr, hand)
      /\ \/ hand \in Whole(ocr) /\ pc' = "ocr_publish" /\ UNCHANGED <<hand, attempts, reason, result>>
         \/ pc' = "idle" /\ hand' = NoRun /\ attempts' = <<>> /\ reason' = "none" /\ result' = reason
      /\ UNCHANGED <<advanced, release, ocrTemp, ocrCurrent, canonical,
                    canonicalTemp, canonicalCopy, canonicalCurrent, semantic, semanticCurrent,
                    material, materialNext, materialCurrent, moved, scarred>>
  BY DEF OcrCommit, OcrOnly, Goto, Stop, canonicalVars, readerVars, candidateVars, Along, Moves
<1>g. /\ hand \in Staged(ocr) /\ hand \in Runs
      /\ ocr[hand].of = release /\ ocrTemp = NoRun
  BY <1>a, TreesAre DEF IInv, OcrInv
<1>s. /\ ocr \in Trees(OcrStates) /\ hand \in Staged(ocr)
      /\ ocr' = Renamed(ocr, hand)
  BY <1>a DEF IInv, TypeOK, OcrTypeOK, OcrStates, OcrInv
<1>t. /\ ocr' \in Trees(OcrStates)
      /\ Staged(ocr') = Staged(ocr) \ {hand} /\ Formal(ocr') = Formal(ocr) \union {hand}
      /\ Whole(ocr') = Whole(ocr)
      /\ \A s \in Runs : ocr'[s].of = ocr[s].of /\ ocr'[s].state = ocr[s].state
      /\ Whole(ocr) \subseteq Runs /\ hand \in Runs
  BY <1>s, RenamedIs
<1>1. TypeOK'
  <2>1. CASE /\ pc' = "ocr_publish"
             /\ UNCHANGED <<hand, attempts, reason, result>>
    BY <1>a, UnfitTyped, <1>t, <2>1 DEF IInv, TypeOK, OcrTypeOK, CanonicalTypeOK, ReaderTypeOK,
       CandidateTypeOK, OcrPcs
  <2>2. CASE /\ pc' = "idle" /\ hand' = NoRun /\ attempts' = <<>>
             /\ reason' = "none" /\ result' = reason
    BY <1>a, UnfitTyped, <1>t, <2>2, RunsAssumption DEF IInv, TypeOK, OcrTypeOK, CanonicalTypeOK,
       ReaderTypeOK, CandidateTypeOK, Inputs, NoRun, ReaderAttempts
  <2> QED BY <1>a, UnfitTyped, <2>1, <2>2
<1>2. UniqueInv'
  BY <1>a, <1>t DEF IInv, UniqueInv, Unique
<1>3. AttemptsInv'
  BY <1>a DEF IInv, AttemptsInv, OcrPcs, ReaderPcs
<1>4. OcrInv'
  BY <1>a, <1>t DEF IInv, OcrInv, AfterOcr, AfterCanonical, CanonicalPcs, ReaderPcs, CandidatePcs,
     Made
<1>5. CanonicalInv' /\ ReaderInv' /\ CandidateInv'
  BY <1>a, BeforeCanonical DEF OcrPcs, canonicalVars, readerVars, candidateVars
<1>6. MovedInv'
  BY <1>a DEF IInv, MovedInv, OcrPcs, CanonicalPcs, ReaderPcs, CandidatePcs, AdvanceIsReported
<1>7. CleanInv'
  <2> SUFFICES ASSUME ~scarred, OcrLeft, PendingIsDownstream,
                      CanonicalLeft, ReaderLeft, CandidateLeft
               PROVE  (/\ OcrLeft /\ PendingIsDownstream
                       /\ CanonicalLeft /\ ReaderLeft /\ CandidateLeft)'
    BY <1>a DEF IInv, CleanInv
  <2>1. OcrLeft'
    BY <1>a, <1>g DEF OcrLeft
  <2>2. PendingIsDownstream'
    BY <1>a, <1>t DEF PendingIsDownstream, OcrMatches, CanonicalMatches, OfCanonical, Made
  <2>3. CanonicalLeft'
    BY <1>a DEF CanonicalLeft, CanonicalPcs, CanonicalPointersUsable, CanonicalTempUsable,
       CanonicalMatches
  <2>4. ReaderLeft'
    BY <1>a DEF ReaderLeft, ReaderPcs, ReaderInterruptible, OfCanonical
  <2>5. CandidateLeft'
    BY <1>a DEF CandidateLeft
  <2> QED BY <2>1, <2>2, <2>3, <2>4, <2>5
<1>8. LostOnlyWhenScarred'
  <2>1. CASE result' = result
    BY <1>a, <2>1, SameWord
  <2>2. CASE result' = reason
    BY <2>2, OtherWord, Reasons DEF IInv
  <2> QED BY <1>a, <2>1, <2>2
<1> QED BY <1>1, <1>2, <1>3, <1>4, <1>5, <1>6, <1>7, <1>8 DEF IInv

LEMMA OcrPublishStep == ASSUME IInv, OcrPublish, OcrOnly PROVE IInv'
<1>a. /\ pc = "ocr_publish"
      /\ pc' = "ocr_temp"
      /\ ocrTemp' = Torn
      /\ UNCHANGED <<hand, attempts, reason, advanced, result, release, ocr,
                    ocrCurrent, canonical, canonicalTemp, canonicalCopy, canonicalCurrent,
                    semantic, semanticCurrent, material, materialNext, materialCurrent, moved,
                    scarred>>
  BY DEF OcrPublish, OcrOnly, Goto, canonicalVars, readerVars, candidateVars, Along, Moves
<1>1. TypeOK'
  BY <1>a, UnfitTyped DEF IInv, TypeOK, OcrTypeOK, CanonicalTypeOK, ReaderTypeOK,
     CandidateTypeOK, OcrPcs,
     CanonicalPcs, ReaderPcs, CandidatePcs
<1>2. UniqueInv'
  BY <1>a, SameTrees
<1>3. AttemptsInv'
  BY <1>a DEF IInv, AttemptsInv, OcrPcs, ReaderPcs
<1>4. OcrInv'
  BY <1>a DEF IInv, OcrInv, AfterOcr, AfterCanonical, CanonicalPcs, ReaderPcs, CandidatePcs
<1>5. CanonicalInv' /\ ReaderInv' /\ CandidateInv'
  BY <1>a, BeforeCanonical DEF OcrPcs, canonicalVars, readerVars, candidateVars
<1>6. MovedInv'
  BY <1>a DEF IInv, MovedInv, OcrPcs, CanonicalPcs, ReaderPcs, CandidatePcs, AdvanceIsReported
<1>7. CleanInv'
  BY <1>a DEF IInv, CleanInv, OcrLeft, PendingIsDownstream, CanonicalLeft, ReaderLeft,
     CandidateLeft, OcrTempUsable, OcrMatches, CanonicalMatches, CanonicalPcs, ReaderPcs,
     CanonicalPointersUsable, CanonicalTempUsable, ReaderInterruptible, OfCanonical, Made
<1>8. LostOnlyWhenScarred'
  BY <1>a, SameWord
<1> QED BY <1>1, <1>2, <1>3, <1>4, <1>5, <1>6, <1>7, <1>8 DEF IInv

LEMMA OcrTempWrittenStep == ASSUME IInv, OcrTempWritten, OcrOnly PROVE IInv'
<1>a. /\ pc = "ocr_temp"
      /\ pc' = "ocr_replace"
      /\ ocrTemp' = hand
      /\ UNCHANGED <<hand, attempts, reason, advanced, result, release, ocr,
                    ocrCurrent, canonical, canonicalTemp, canonicalCopy, canonicalCurrent,
                    semantic, semanticCurrent, material, materialNext, materialCurrent, moved,
                    scarred>>
  BY DEF OcrTempWritten, OcrOnly, Goto, canonicalVars, readerVars, candidateVars, Along, Moves
<1>1. TypeOK'
  BY <1>a, UnfitTyped DEF IInv, TypeOK, OcrTypeOK, CanonicalTypeOK, ReaderTypeOK,
     CandidateTypeOK, OcrPcs,
     CanonicalPcs, ReaderPcs, CandidatePcs
<1>2. UniqueInv'
  BY <1>a, SameTrees
<1>3. AttemptsInv'
  BY <1>a DEF IInv, AttemptsInv, OcrPcs, ReaderPcs
<1>4. OcrInv'
  BY <1>a DEF IInv, OcrInv, AfterOcr, AfterCanonical, CanonicalPcs, ReaderPcs, CandidatePcs
<1>5. CanonicalInv' /\ ReaderInv' /\ CandidateInv'
  BY <1>a, BeforeCanonical DEF OcrPcs, canonicalVars, readerVars, candidateVars
<1>6. MovedInv'
  BY <1>a DEF IInv, MovedInv, OcrPcs, CanonicalPcs, ReaderPcs, CandidatePcs, AdvanceIsReported
<1>7. CleanInv'
  BY <1>a DEF IInv, CleanInv, OcrLeft, PendingIsDownstream, CanonicalLeft, ReaderLeft,
     CandidateLeft, OcrTempUsable, OcrMatches, CanonicalMatches, CanonicalPcs, ReaderPcs,
     CanonicalPointersUsable, CanonicalTempUsable, ReaderInterruptible, OfCanonical, Made
<1>8. LostOnlyWhenScarred'
  BY <1>a, SameWord
<1> QED BY <1>1, <1>2, <1>3, <1>4, <1>5, <1>6, <1>7, <1>8 DEF IInv

LEMMA OcrReplaceStep == ASSUME IInv, OcrReplace, OcrOnly PROVE IInv'
<1>a. /\ pc = "ocr_replace"
      /\ pc' = "ocr_unlink"
      /\ ocrCurrent' = hand
      /\ moved' = moved \union {"ocr"}
      /\ UNCHANGED <<hand, attempts, reason, advanced, result, release, ocr,
                    ocrTemp, canonical, canonicalTemp, canonicalCopy, canonicalCurrent,
                    semantic, semanticCurrent, material, materialNext, materialCurrent,
                    scarred>>
  BY DEF OcrReplace, OcrOnly, Goto, canonicalVars, readerVars, candidateVars, Along, Moves
<1>g. /\ hand \in Formal(ocr) \intersect Made(ocr, release)
      /\ ocrCurrent \in Made(ocr, release) => ocrCurrent = hand
  BY <1>a DEF IInv, OcrInv, UniqueInv, Unique, Made
<1>1. TypeOK'
  BY <1>a, UnfitTyped DEF IInv, TypeOK, OcrTypeOK, CanonicalTypeOK, ReaderTypeOK,
     CandidateTypeOK, OcrPcs,
     CanonicalPcs, ReaderPcs, CandidatePcs, Stages, OcrOutcomes, OcrTransient, AttemptKinds,
     OcrReasons, ReaderReasons, ReaderAttempts
<1>2. UniqueInv'
  BY <1>a, SameTrees
<1>3. AttemptsInv'
  BY <1>a DEF IInv, AttemptsInv, OcrPcs, ReaderPcs
<1>4. OcrInv'
  BY <1>a DEF IInv, OcrInv, AfterOcr, AfterCanonical, CanonicalPcs, ReaderPcs, CandidatePcs, Made
<1>5. CanonicalInv' /\ ReaderInv' /\ CandidateInv'
  BY <1>a, BeforeCanonical DEF OcrPcs, canonicalVars, readerVars, candidateVars
<1>6. MovedInv'
  BY <1>a DEF IInv, MovedInv, OcrPcs, CanonicalPcs, ReaderPcs, CandidatePcs, AdvanceIsReported
<1>7. CleanInv'
  <2> SUFFICES ASSUME ~scarred, OcrLeft, PendingIsDownstream,
                      CanonicalLeft, ReaderLeft, CandidateLeft
               PROVE  (/\ OcrLeft /\ PendingIsDownstream
                       /\ CanonicalLeft /\ ReaderLeft /\ CandidateLeft)'
    BY <1>a DEF IInv, CleanInv
  <2>1. OcrLeft'
    BY <1>a DEF OcrLeft
  <2>2. PendingIsDownstream'
    BY <1>a, <1>g, <1>g DEF PendingIsDownstream, OcrMatches, CanonicalMatches, OfCanonical, Made
  <2>3. CanonicalLeft'
    BY <1>a, <1>g, TreesAre, NoRunIsNone DEF CanonicalLeft, CanonicalPcs, CanonicalPointersUsable,
       CanonicalTempUsable, CanonicalMatches, PendingIsDownstream, OcrMatches
  <2>4. ReaderLeft'
    BY <1>a DEF ReaderLeft, ReaderPcs, ReaderInterruptible, OfCanonical
  <2>5. CandidateLeft'
    BY <1>a DEF CandidateLeft
  <2> QED BY <2>1, <2>2, <2>3, <2>4, <2>5
<1>8. LostOnlyWhenScarred'
  BY <1>a, SameWord
<1> QED BY <1>1, <1>2, <1>3, <1>4, <1>5, <1>6, <1>7, <1>8 DEF IInv

LEMMA OcrUnlinkStep == ASSUME IInv, OcrUnlink, OcrOnly PROVE IInv'
<1>a. /\ pc = "ocr_unlink"
      /\ pc' = "canonical" /\ hand' = NoRun /\ attempts' = <<>> /\ reason' = "none"
      /\ advanced' = advanced \union {"ocr"}
      /\ ocrTemp' = NoRun
      /\ UNCHANGED <<result, release, ocr, ocrCurrent, canonical,
                    canonicalTemp, canonicalCopy, canonicalCurrent, semantic, semanticCurrent,
                    material, materialNext, materialCurrent, moved, scarred>>
  BY DEF OcrUnlink, OcrOnly, HandOver, canonicalVars, readerVars, candidateVars, Along, Moves
<1>1. TypeOK'
  BY <1>a, UnfitTyped, RunsAssumption, ReleasesAssumption DEF IInv, TypeOK, OcrTypeOK,
     CanonicalTypeOK, ReaderTypeOK, CandidateTypeOK, Inputs, Runs, NoRun, Torn, OcrPcs, CanonicalPcs, ReaderPcs,
     CandidatePcs, Stages, OcrOutcomes, OcrTransient, AttemptKinds, OcrReasons, ReaderReasons,
     ReaderAttempts
<1>2. UniqueInv'
  BY <1>a, SameTrees
<1>3. AttemptsInv'
  BY <1>a DEF IInv, AttemptsInv
<1>4. OcrInv'
  BY <1>a DEF IInv, OcrInv
<1>5. CanonicalInv' /\ ReaderInv' /\ CandidateInv'
  BY <1>a, BeforeCanonical DEF canonicalVars, readerVars, candidateVars
<1>6. MovedInv'
  BY <1>a DEF IInv, MovedInv, OcrPcs, CanonicalPcs, ReaderPcs, CandidatePcs, AdvanceIsReported
<1>7. CleanInv'
  BY <1>a DEF IInv, CleanInv, OcrLeft, PendingIsDownstream, CanonicalLeft, ReaderLeft,
     CandidateLeft, OcrTempUsable, OcrMatches, CanonicalMatches, CanonicalPcs, ReaderPcs,
     CanonicalPointersUsable, CanonicalTempUsable, ReaderInterruptible, OfCanonical, Made
<1>8. LostOnlyWhenScarred'
  BY <1>a, SameWord
<1> QED BY <1>1, <1>2, <1>3, <1>4, <1>5, <1>6, <1>7, <1>8 DEF IInv

\* The steps of the canonical stage.
LEMMA CanonicalLostStep == ASSUME IInv, CanonicalLost, CanonicalOnly PROVE IInv'
<1>a. /\ pc = "canonical"
      /\ ~(CanonicalStagingUsable /\ CanonicalPointersUsable)
      /\ pc' = "idle" /\ hand' = NoRun /\ attempts' = <<>> /\ reason' = "none"
      /\ result' = "uncertain"
      /\ UNCHANGED <<advanced, release, ocr, ocrTemp, ocrCurrent, canonical,
                    canonicalTemp, canonicalCopy, canonicalCurrent, semantic, semanticCurrent,
                    material, materialNext, materialCurrent, moved, scarred>>
  BY DEF CanonicalLost, CanonicalOnly, Stop, canonicalVars, ocrVars, readerVars, candidateVars,
     Along, Moves
<1>g. /\ ocrTemp = NoRun /\ ocrCurrent \in Formal(ocr) \intersect Made(ocr, release)
  BY <1>a, OcrDone DEF AfterOcr, CanonicalPcs
<1>1. TypeOK'
  BY <1>a, UnfitTyped, RunsAssumption, ReleasesAssumption DEF IInv, TypeOK, OcrTypeOK,
     CanonicalTypeOK, ReaderTypeOK, CandidateTypeOK, Inputs, Runs, NoRun, Torn, Stages, OcrOutcomes, OcrTransient,
     AttemptKinds, OcrReasons, ReaderReasons, ReaderAttempts
<1>2. UniqueInv'
  BY <1>a, SameTrees
<1>3. AttemptsInv'
  BY <1>a DEF IInv, AttemptsInv
<1>4. OcrInv'
  BY <1>a, AfterOcrStays DEF AfterOcr, AfterCanonical, CanonicalPcs, ReaderPcs, ocrVars
<1>5. CanonicalInv'
  BY <1>a DEF IInv, CanonicalInv, CanonicalPcs, AfterCanonical, ReaderPcs, CandidatePcs
<1>6. ReaderInv' /\ CandidateInv'
  BY <1>a, BeforeReader DEF readerVars, candidateVars
<1>7. MovedInv'
  BY <1>a, NothingMoves
<1>8. CleanInv'
  <2> SUFFICES ASSUME ~scarred, OcrLeft, PendingIsDownstream,
                      CanonicalLeft, ReaderLeft, CandidateLeft
               PROVE  (/\ OcrLeft /\ PendingIsDownstream
                       /\ CanonicalLeft /\ ReaderLeft /\ CandidateLeft)'
    BY <1>a DEF IInv, CleanInv
  <2>1. OcrLeft'
    BY <1>a, <1>g DEF OcrLeft
  <2>2. PendingIsDownstream'
    BY <1>a DEF PendingIsDownstream, OcrMatches, CanonicalMatches, OfCanonical, Made
  <2>3. CanonicalLeft'
    BY <1>a DEF CanonicalLeft, CanonicalPointersUsable, CanonicalTempUsable, CanonicalMatches
  <2>4. ReaderLeft'
    BY <1>a DEF ReaderLeft, ReaderPcs, ReaderInterruptible, OfCanonical
  <2>5. CandidateLeft'
    BY <1>a DEF CandidateLeft
  <2> QED BY <2>1, <2>2, <2>3, <2>4, <2>5
<1>9. LostOnlyWhenScarred'
  <2> SUFFICES ASSUME ~scarred PROVE FALSE
    BY <1>a DEF LostOnlyWhenScarred
  <2>1. Staged(canonical) \subseteq CanonicalMatches /\ CanonicalPointersUsable
    BY <1>a DEF IInv, CleanInv, CanonicalLeft
  <2>2. Cardinality(CanonicalMatches) <= 1
    <3>1. CanonicalMatches \in SUBSET Runs /\ \A r, s \in CanonicalMatches : r = s
      BY TreesAre DEF IInv, UniqueInv, Unique, CanonicalMatches, Made
    <3> QED BY <3>1, AtMostOne
  <2> QED BY <1>a, <2>1, <2>2 DEF CanonicalStagingUsable
<1> QED BY <1>1, <1>2, <1>3, <1>4, <1>5, <1>6, <1>7, <1>8, <1>9 DEF IInv

LEMMA CanonicalRepairStep == ASSUME IInv, CanonicalRepair, CanonicalOnly PROVE IInv'
<1>a. /\ pc = "canonical"
      /\ CanonicalTempUsable /\ Staged(canonical) \subseteq CanonicalMatches
      /\ pc' = IF canonicalCopy = NoRun THEN "canonical_copy" ELSE "canonical_replace"
      /\ hand' = canonicalTemp
      /\ UNCHANGED <<attempts, reason, advanced, result, release, ocr,
                    ocrTemp, ocrCurrent, canonical, canonicalTemp, canonicalCopy,
                    canonicalCurrent, semantic, semanticCurrent, material, materialNext,
                    materialCurrent, moved, scarred>>
  BY DEF CanonicalRepair, CanonicalOnly, CanonicalStagingUsable, Goto, canonicalVars, ocrVars,
     readerVars, candidateVars, Along, Moves
<1>g. /\ ocrTemp = NoRun /\ ocrCurrent \in Formal(ocr) \intersect Made(ocr, release)
      /\ canonicalTemp \in Runs /\ Staged(canonical) = {}
      /\ canonicalTemp \in Formal(canonical) \intersect Made(canonical, ocrCurrent)
  BY <1>a, OcrDone, TreesAre DEF AfterOcr, CanonicalPcs, IInv, UniqueInv, Unique,
     CanonicalTempUsable, CanonicalMatches, Made
<1>1. TypeOK'
  BY <1>a, UnfitTyped, <1>g DEF IInv, TypeOK, OcrTypeOK, CanonicalTypeOK, ReaderTypeOK,
     CandidateTypeOK,
     Inputs, Runs, NoRun, Torn, OcrPcs, CanonicalPcs, ReaderPcs, CandidatePcs
<1>2. UniqueInv'
  BY <1>a, SameTrees
<1>3. AttemptsInv'
  BY <1>a DEF IInv, AttemptsInv, OcrPcs, ReaderPcs
<1>4. OcrInv'
  BY <1>a, AfterOcrStays DEF AfterOcr, AfterCanonical, CanonicalPcs, ReaderPcs, ocrVars
<1>5. CanonicalInv'
  BY <1>a, <1>g DEF IInv, CanonicalInv, CanonicalPcs, AfterCanonical, ReaderPcs, CandidatePcs,
     CanonicalMatches, CanonicalTempUsable, NoRunIsNone
<1>6. ReaderInv' /\ CandidateInv'
  BY <1>a, BeforeReader DEF CanonicalPcs, readerVars, candidateVars
<1>7. MovedInv'
  BY <1>a DEF IInv, MovedInv, OcrPcs, CanonicalPcs, ReaderPcs, CandidatePcs, AdvanceIsReported
<1>8. CleanInv'
  BY <1>a DEF IInv, CleanInv, OcrLeft, PendingIsDownstream, CanonicalLeft, ReaderLeft,
     CandidateLeft, OcrTempUsable, OcrMatches, CanonicalMatches, CanonicalPcs, ReaderPcs,
     CanonicalPointersUsable, CanonicalTempUsable, ReaderInterruptible, OfCanonical, Made
<1>9. LostOnlyWhenScarred'
  BY <1>a, SameWord
<1> QED BY <1>1, <1>2, <1>3, <1>4, <1>5, <1>6, <1>7, <1>8, <1>9 DEF IInv

LEMMA CanonicalReuseStep == ASSUME IInv, CanonicalReuse, CanonicalOnly PROVE IInv'
<1>a. /\ pc = "canonical"
      /\ canonicalTemp = NoRun /\ canonicalCopy = NoRun
      /\ Staged(canonical) \subseteq CanonicalMatches
      /\ CanonicalIsCurrent
      /\ pc' = "reader" /\ hand' = NoRun /\ attempts' = <<>> /\ reason' = "none"
      /\ UNCHANGED <<advanced, result, release, ocr, ocrTemp, ocrCurrent,
                    canonical, canonicalTemp, canonicalCopy, canonicalCurrent, semantic,
                    semanticCurrent, material, materialNext, materialCurrent, moved, scarred>>
  BY DEF CanonicalReuse, CanonicalOnly, CanonicalSettled, HandOver, canonicalVars, ocrVars,
     readerVars, candidateVars, Along, CanonicalStagingUsable, Moves
<1>g. /\ ocrTemp = NoRun /\ ocrCurrent \in Formal(ocr) \intersect Made(ocr, release)
      /\ Staged(canonical) = {}
      /\ canonicalCurrent \in Formal(canonical) \intersect Made(canonical, ocrCurrent)
  BY <1>a, OcrDone, TreesAre DEF AfterOcr, CanonicalPcs, IInv, UniqueInv, Unique, CanonicalInv,
     CanonicalIsCurrent, CanonicalMatches, Made
<1>1. TypeOK'
  BY <1>a, UnfitTyped, RunsAssumption, ReleasesAssumption DEF IInv, TypeOK, OcrTypeOK,
     CanonicalTypeOK, ReaderTypeOK, CandidateTypeOK, Inputs, Runs, NoRun, Torn, OcrPcs, CanonicalPcs, ReaderPcs,
     CandidatePcs, Stages, OcrOutcomes, OcrTransient, AttemptKinds, OcrReasons, ReaderReasons,
     ReaderAttempts
<1>2. UniqueInv'
  BY <1>a, SameTrees
<1>3. AttemptsInv'
  BY <1>a DEF IInv, AttemptsInv
<1>4. OcrInv'
  BY <1>a, AfterOcrStays DEF AfterOcr, AfterCanonical, CanonicalPcs, ReaderPcs, ocrVars
<1>5. CanonicalInv'
  BY <1>a, <1>g DEF IInv, CanonicalInv, CanonicalPcs, ReaderPcs, CandidatePcs, CanonicalMatches
<1>6. ReaderInv' /\ CandidateInv'
  BY <1>a, BeforeReader DEF readerVars, candidateVars
<1>7. MovedInv'
  BY <1>a DEF IInv, MovedInv, OcrPcs, CanonicalPcs, ReaderPcs, CandidatePcs, AdvanceIsReported
<1>8. CleanInv'
  BY <1>a DEF IInv, CleanInv, OcrLeft, PendingIsDownstream, CanonicalLeft, ReaderLeft,
     CandidateLeft, OcrTempUsable, OcrMatches, CanonicalMatches, CanonicalPcs, ReaderPcs,
     CanonicalPointersUsable, CanonicalTempUsable, ReaderInterruptible, OfCanonical, Made
<1>9. LostOnlyWhenScarred'
  BY <1>a, SameWord
<1> QED BY <1>1, <1>2, <1>3, <1>4, <1>5, <1>6, <1>7, <1>8, <1>9 DEF IInv

LEMMA CanonicalRecoverStep == ASSUME IInv, CanonicalRecover, CanonicalOnly PROVE IInv'
<1>a. /\ pc = "canonical"
      /\ canonicalTemp = NoRun /\ canonicalCopy = NoRun
      /\ Staged(canonical) \subseteq CanonicalMatches
      /\ ~CanonicalIsCurrent
      /\ hand' \in CanonicalMatches
      /\ pc' = IF hand' \in Staged(canonical) THEN "canonical_commit" ELSE "canonical_publish"
      /\ UNCHANGED <<attempts, reason, advanced, result, release, ocr,
                    ocrTemp, ocrCurrent, canonical, canonicalTemp, canonicalCopy,
                    canonicalCurrent, semantic, semanticCurrent, material, materialNext,
                    materialCurrent, moved, scarred>>
  BY DEF CanonicalRecover, CanonicalOnly, CanonicalSettled, Goto, canonicalVars, ocrVars,
     readerVars, candidateVars, Along, CanonicalStagingUsable, Moves
<1>g. /\ ocrTemp = NoRun /\ ocrCurrent \in Formal(ocr) \intersect Made(ocr, release)
      /\ hand' \in Runs /\ hand' \in Made(canonical, ocrCurrent)
      /\ hand' \in Staged(canonical) => Staged(canonical) = {hand'}
      /\ hand' \notin Staged(canonical) => Staged(canonical) = {} /\ hand' \in Formal(canonical)
  BY <1>a, OcrDone, TreesAre DEF AfterOcr, CanonicalPcs, IInv, UniqueInv, Unique,
     CanonicalMatches, Made
<1>1. TypeOK'
  BY <1>a, UnfitTyped, <1>g DEF IInv, TypeOK, OcrTypeOK, CanonicalTypeOK, ReaderTypeOK,
     CandidateTypeOK,
     Inputs, Runs, NoRun, Torn, OcrPcs, CanonicalPcs, ReaderPcs, CandidatePcs
<1>2. UniqueInv'
  BY <1>a, SameTrees
<1>3. AttemptsInv'
  BY <1>a DEF IInv, AttemptsInv, OcrPcs, ReaderPcs
<1>4. OcrInv'
  BY <1>a, AfterOcrStays DEF AfterOcr, AfterCanonical, CanonicalPcs, ReaderPcs, ocrVars
<1>5. CanonicalInv'
  BY <1>a, <1>g DEF IInv, CanonicalInv, CanonicalPcs, AfterCanonical, ReaderPcs, CandidatePcs,
     CanonicalMatches
<1>6. ReaderInv' /\ CandidateInv'
  BY <1>a, BeforeReader DEF CanonicalPcs, readerVars, candidateVars
<1>7. MovedInv'
  BY <1>a DEF IInv, MovedInv, OcrPcs, CanonicalPcs, ReaderPcs, CandidatePcs, AdvanceIsReported
<1>8. CleanInv'
  BY <1>a DEF IInv, CleanInv, OcrLeft, PendingIsDownstream, CanonicalLeft, ReaderLeft,
     CandidateLeft, OcrTempUsable, OcrMatches, CanonicalMatches, CanonicalPcs, ReaderPcs,
     CanonicalPointersUsable, CanonicalTempUsable, ReaderInterruptible, OfCanonical, Made
<1>9. LostOnlyWhenScarred'
  BY <1>a, SameWord
<1> QED BY <1>1, <1>2, <1>3, <1>4, <1>5, <1>6, <1>7, <1>8, <1>9 DEF IInv

LEMMA CanonicalRefusedStep == ASSUME IInv, CanonicalRefused, CanonicalOnly PROVE IInv'
<1>a. /\ pc = "canonical"
      /\ pc' = "idle" /\ hand' = NoRun /\ attempts' = <<>> /\ reason' = "none"
      /\ result' = "canonicalization_failed"
      /\ UNCHANGED <<advanced, release, ocr, ocrTemp, ocrCurrent, canonical,
                    canonicalTemp, canonicalCopy, canonicalCurrent, semantic, semanticCurrent,
                    material, materialNext, materialCurrent, moved, scarred>>
  BY DEF CanonicalRefused, CanonicalOnly, CanonicalSettled, Stop, canonicalVars, ocrVars,
     readerVars, candidateVars,
     Along, Moves
<1>g. /\ ocrTemp = NoRun /\ ocrCurrent \in Formal(ocr) \intersect Made(ocr, release)
  BY <1>a, OcrDone DEF AfterOcr, CanonicalPcs
<1>1. TypeOK'
  BY <1>a, UnfitTyped, RunsAssumption, ReleasesAssumption DEF IInv, TypeOK, OcrTypeOK,
     CanonicalTypeOK, ReaderTypeOK, CandidateTypeOK, Inputs, Runs, NoRun, Torn, Stages, OcrOutcomes, OcrTransient,
     AttemptKinds, OcrReasons, ReaderReasons, ReaderAttempts
<1>2. UniqueInv'
  BY <1>a, SameTrees
<1>3. AttemptsInv'
  BY <1>a DEF IInv, AttemptsInv
<1>4. OcrInv'
  BY <1>a, AfterOcrStays DEF AfterOcr, AfterCanonical, CanonicalPcs, ReaderPcs, ocrVars
<1>5. CanonicalInv'
  BY <1>a DEF IInv, CanonicalInv, CanonicalPcs, AfterCanonical, ReaderPcs, CandidatePcs
<1>6. ReaderInv' /\ CandidateInv'
  BY <1>a, BeforeReader DEF readerVars, candidateVars
<1>7. MovedInv'
  BY <1>a, NothingMoves
<1>8. CleanInv'
  <2> SUFFICES ASSUME ~scarred, OcrLeft, PendingIsDownstream,
                      CanonicalLeft, ReaderLeft, CandidateLeft
               PROVE  (/\ OcrLeft /\ PendingIsDownstream
                       /\ CanonicalLeft /\ ReaderLeft /\ CandidateLeft)'
    BY <1>a DEF IInv, CleanInv
  <2>1. OcrLeft'
    BY <1>a, <1>g DEF OcrLeft
  <2>2. PendingIsDownstream'
    BY <1>a DEF PendingIsDownstream, OcrMatches, CanonicalMatches, OfCanonical, Made
  <2>3. CanonicalLeft'
    BY <1>a DEF CanonicalLeft, CanonicalPointersUsable, CanonicalTempUsable, CanonicalMatches
  <2>4. ReaderLeft'
    BY <1>a DEF ReaderLeft, ReaderPcs, ReaderInterruptible, OfCanonical
  <2>5. CandidateLeft'
    BY <1>a DEF CandidateLeft
  <2> QED BY <2>1, <2>2, <2>3, <2>4, <2>5
<1>9. LostOnlyWhenScarred'
  BY <1>a, OtherWord
<1> QED BY <1>1, <1>2, <1>3, <1>4, <1>5, <1>6, <1>7, <1>8, <1>9 DEF IInv

LEMMA CanonicalBeginStep == ASSUME IInv, CanonicalBegin, CanonicalOnly PROVE IInv'
<1>a. /\ pc = "canonical"
      /\ canonicalTemp = NoRun /\ canonicalCopy = NoRun
      /\ Staged(canonical) \subseteq CanonicalMatches
      /\ CanonicalMatches = {}
      /\ pc' = "canonical_fill"
      /\ hand' \in Free(canonical) /\ canonical' = Mkdir(canonical, hand', ocrCurrent)
      /\ UNCHANGED <<attempts, reason, advanced, result, release, ocr,
                    ocrTemp, ocrCurrent, canonicalTemp, canonicalCopy, canonicalCurrent,
                    semantic, semanticCurrent, material, materialNext, materialCurrent, moved,
                    scarred>>
  BY DEF CanonicalBegin, CanonicalOnly, CanonicalSettled, IsNext, Goto, ocrVars, readerVars,
     candidateVars, Along, CanonicalStagingUsable, Moves
<1>g. /\ ocrTemp = NoRun /\ ocrCurrent \in Formal(ocr) \intersect Made(ocr, release)
      /\ Made(canonical, ocrCurrent) = {} /\ Staged(canonical) = {}
  BY <1>a, OcrDone DEF AfterOcr, CanonicalPcs, CanonicalMatches
<1>s. /\ canonical \in Trees({"partial", "succeeded"}) /\ ocrCurrent \in Inputs
      /\ canonical' = Mkdir(canonical, hand', ocrCurrent)
      /\ "partial" \in {"partial", "succeeded"} /\ hand' \in Free(canonical)
  BY <1>a DEF IInv, TypeOK, CanonicalTypeOK, CanonicalInv, OcrTypeOK, ReaderTypeOK
<1>t. /\ canonical' \in Trees({"partial", "succeeded"})
      /\ Staged(canonical') = Staged(canonical) \union {hand'}
      /\ Formal(canonical') = Formal(canonical) /\ Whole(canonical') = Whole(canonical)
      /\ canonical'[hand'].of = ocrCurrent /\ canonical'[hand'].state = "partial"
      /\ \A s \in Runs \ {hand'} : canonical'[s] = canonical[s]
      /\ hand' \in Runs \ (Staged(canonical) \union Formal(canonical) \union Whole(canonical))
      /\ \A s \in Whole(canonical) : s \in Runs /\ canonical'[s].of = canonical[s].of
  BY <1>s, MkdirIs
<1>1. TypeOK'
  BY <1>a, UnfitTyped, <1>t DEF IInv, TypeOK, OcrTypeOK, CanonicalTypeOK, ReaderTypeOK,
     CandidateTypeOK,
     Inputs, Runs, NoRun, Torn, OcrPcs, CanonicalPcs, ReaderPcs, CandidatePcs
<1>2. UniqueInv'
  BY <1>a, <1>t DEF IInv, UniqueInv, Unique
<1>3. AttemptsInv'
  BY <1>a DEF IInv, AttemptsInv, OcrPcs, ReaderPcs
<1>4. OcrInv'
  BY <1>a, AfterOcrStays DEF AfterOcr, AfterCanonical, CanonicalPcs, ReaderPcs, ocrVars
<1>5. CanonicalInv'
  BY <1>a, <1>t DEF IInv, CanonicalInv, CanonicalPcs, AfterCanonical, ReaderPcs, CandidatePcs,
     CanonicalMatches, Made
<1>6. ReaderInv' /\ CandidateInv'
  BY <1>a, BeforeReader DEF CanonicalPcs, readerVars, candidateVars
<1>7. MovedInv'
  BY <1>a DEF IInv, MovedInv, OcrPcs, CanonicalPcs, ReaderPcs, CandidatePcs, AdvanceIsReported
<1>8. CleanInv'
  <2> SUFFICES ASSUME ~scarred, OcrLeft, PendingIsDownstream,
                      CanonicalLeft, ReaderLeft, CandidateLeft
               PROVE  (/\ OcrLeft /\ PendingIsDownstream
                       /\ CanonicalLeft /\ ReaderLeft /\ CandidateLeft)'
    BY <1>a DEF IInv, CleanInv
  <2>1. OcrLeft'
    BY <1>a DEF OcrLeft
  <2>2. PendingIsDownstream'
    BY <1>a, <1>g DEF PendingIsDownstream, OcrMatches, CanonicalMatches
  <2>3. CanonicalLeft'
    BY <1>a DEF CanonicalLeft, CanonicalPcs
  <2>4. ReaderLeft'
    BY <1>a DEF ReaderLeft, ReaderPcs, ReaderInterruptible, OfCanonical
  <2>5. CandidateLeft'
    BY <1>a DEF CandidateLeft
  <2> QED BY <2>1, <2>2, <2>3, <2>4, <2>5
<1>9. LostOnlyWhenScarred'
  BY <1>a, SameWord
<1> QED BY <1>1, <1>2, <1>3, <1>4, <1>5, <1>6, <1>7, <1>8, <1>9 DEF IInv

LEMMA CanonicalFillStep == ASSUME IInv, CanonicalFill, CanonicalOnly PROVE IInv'
<1>a. /\ pc = "canonical_fill"
      /\ pc' = "canonical_commit"
      /\ canonical' = Becomes(canonical, hand, "succeeded")
      /\ UNCHANGED <<hand, attempts, reason, advanced, result, release, ocr,
                    ocrTemp, ocrCurrent, canonicalTemp, canonicalCopy, canonicalCurrent,
                    semantic, semanticCurrent, material, materialNext, materialCurrent, moved,
                    scarred>>
  BY DEF CanonicalFill, CanonicalOnly, Goto, ocrVars, readerVars, candidateVars, Along, Moves
<1>g. /\ ocrTemp = NoRun /\ ocrCurrent \in Formal(ocr) \intersect Made(ocr, release)
      /\ Staged(canonical) = {hand} /\ hand \notin Whole(canonical)
      /\ canonical[hand].of = ocrCurrent /\ Made(canonical, ocrCurrent) = {}
  BY <1>a, OcrDone DEF AfterOcr, CanonicalPcs, IInv, CanonicalInv, CanonicalMatches
<1>s. /\ canonical \in Trees({"partial", "succeeded"}) /\ hand \in Staged(canonical)
      /\ canonical' = Becomes(canonical, hand, "succeeded")
      /\ "succeeded" \in {"partial", "succeeded"}
  BY <1>a DEF IInv, TypeOK, CanonicalTypeOK, CanonicalInv
<1>t. /\ canonical' \in Trees({"partial", "succeeded"})
      /\ Staged(canonical') = Staged(canonical) /\ Formal(canonical') = Formal(canonical)
      /\ Whole(canonical') = Whole(canonical) \union {hand}
      /\ canonical'[hand].state = "succeeded" /\ \A s \in Runs : canonical'[s].of = canonical[s].of
      /\ \A s \in Runs \ {hand} : canonical'[s] = canonical[s]
      /\ Whole(canonical) \subseteq Runs /\ hand \in Runs
  BY <1>s, BecomesIs
<1>1. TypeOK'
  BY <1>a, UnfitTyped, <1>t DEF IInv, TypeOK, OcrTypeOK, CanonicalTypeOK, ReaderTypeOK,
     CandidateTypeOK,
     OcrPcs, CanonicalPcs, ReaderPcs, CandidatePcs
<1>2. UniqueInv'
  BY <1>a, <1>t, <1>g DEF IInv, UniqueInv, Unique, Made
<1>3. AttemptsInv'
  BY <1>a DEF IInv, AttemptsInv, OcrPcs, ReaderPcs
<1>4. OcrInv'
  BY <1>a, AfterOcrStays DEF AfterOcr, AfterCanonical, CanonicalPcs, ReaderPcs, ocrVars
<1>5. CanonicalInv'
  BY <1>a, <1>t DEF IInv, CanonicalInv, CanonicalPcs, AfterCanonical, ReaderPcs, CandidatePcs,
     CanonicalMatches, Made
<1>6. ReaderInv' /\ CandidateInv'
  BY <1>a, BeforeReader DEF CanonicalPcs, readerVars, candidateVars
<1>7. MovedInv'
  BY <1>a DEF IInv, MovedInv, OcrPcs, CanonicalPcs, ReaderPcs, CandidatePcs, AdvanceIsReported
<1>8. CleanInv'
  BY <1>a, <1>g DEF IInv, CleanInv, OcrLeft, PendingIsDownstream, CanonicalLeft, ReaderLeft,
     CandidateLeft, OcrTempUsable, OcrMatches, CanonicalMatches, CanonicalPcs, ReaderPcs
<1>9. LostOnlyWhenScarred'
  BY <1>a, SameWord
<1> QED BY <1>1, <1>2, <1>3, <1>4, <1>5, <1>6, <1>7, <1>8, <1>9 DEF IInv

LEMMA CanonicalCommitStep == ASSUME IInv, CanonicalCommit, CanonicalOnly PROVE IInv'
<1>a. /\ pc = "canonical_commit"
      /\ pc' = "canonical_publish"
      /\ canonical' = Renamed(canonical, hand)
      /\ UNCHANGED <<hand, attempts, reason, advanced, result, release, ocr,
                    ocrTemp, ocrCurrent, canonicalTemp, canonicalCopy, canonicalCurrent,
                    semantic, semanticCurrent, material, materialNext, materialCurrent, moved,
                    scarred>>
  BY DEF CanonicalCommit, CanonicalOnly, Goto, ocrVars, readerVars, candidateVars, Along, Moves
<1>g. /\ ocrTemp = NoRun /\ ocrCurrent \in Formal(ocr) \intersect Made(ocr, release)
  BY <1>a, OcrDone DEF AfterOcr, CanonicalPcs
<1>s. /\ canonical \in Trees({"partial", "succeeded"}) /\ hand \in Staged(canonical)
      /\ canonical' = Renamed(canonical, hand)
  BY <1>a DEF IInv, TypeOK, CanonicalTypeOK, CanonicalInv
<1>t. /\ canonical' \in Trees({"partial", "succeeded"})
      /\ Staged(canonical') = Staged(canonical) \ {hand}
      /\ Formal(canonical') = Formal(canonical) \union {hand}
      /\ Whole(canonical') = Whole(canonical)
      /\ \A s \in Runs : canonical'[s].of = canonical[s].of /\ canonical'[s].state = canonical[s].state
      /\ Whole(canonical) \subseteq Runs /\ hand \in Runs
  BY <1>s, RenamedIs
<1>1. TypeOK'
  BY <1>a, UnfitTyped, <1>t DEF IInv, TypeOK, OcrTypeOK, CanonicalTypeOK, ReaderTypeOK,
     CandidateTypeOK,
     OcrPcs, CanonicalPcs, ReaderPcs, CandidatePcs
<1>2. UniqueInv'
  BY <1>a, <1>t DEF IInv, UniqueInv, Unique
<1>3. AttemptsInv'
  BY <1>a DEF IInv, AttemptsInv, OcrPcs, ReaderPcs
<1>4. OcrInv'
  BY <1>a, AfterOcrStays DEF AfterOcr, AfterCanonical, CanonicalPcs, ReaderPcs, ocrVars
<1>5. CanonicalInv'
  BY <1>a, <1>t DEF IInv, CanonicalInv, CanonicalPcs, AfterCanonical, ReaderPcs, CandidatePcs,
     CanonicalMatches, Made
<1>6. ReaderInv' /\ CandidateInv'
  BY <1>a, BeforeReader DEF CanonicalPcs, readerVars, candidateVars
<1>7. MovedInv'
  BY <1>a DEF IInv, MovedInv, OcrPcs, CanonicalPcs, ReaderPcs, CandidatePcs, AdvanceIsReported
<1>8. CleanInv'
  BY <1>a, <1>t DEF IInv, CleanInv, OcrLeft, PendingIsDownstream, CanonicalLeft, ReaderLeft,
     CandidateLeft, OcrTempUsable, OcrMatches, CanonicalMatches, CanonicalPcs, ReaderPcs,
     CanonicalPointersUsable, CanonicalTempUsable, ReaderInterruptible, OfCanonical, Made
<1>9. LostOnlyWhenScarred'
  BY <1>a, SameWord
<1> QED BY <1>1, <1>2, <1>3, <1>4, <1>5, <1>6, <1>7, <1>8, <1>9 DEF IInv

LEMMA CanonicalPublishStep == ASSUME IInv, CanonicalPublish, CanonicalOnly PROVE IInv'
<1>a. /\ pc = "canonical_publish"
      /\ pc' = "canonical_temp"
      /\ canonicalTemp' = Torn
      /\ UNCHANGED <<hand, attempts, reason, advanced, result, release, ocr,
                    ocrTemp, ocrCurrent, canonical, canonicalCopy, canonicalCurrent, semantic,
                    semanticCurrent, material, materialNext, materialCurrent, moved, scarred>>
  BY DEF CanonicalPublish, CanonicalOnly, Goto, ocrVars, readerVars, candidateVars, Along, Moves
<1>g. /\ ocrTemp = NoRun /\ ocrCurrent \in Formal(ocr) \intersect Made(ocr, release)
  BY <1>a, OcrDone DEF AfterOcr, CanonicalPcs
<1>1. TypeOK'
  BY <1>a, UnfitTyped DEF IInv, TypeOK, OcrTypeOK, CanonicalTypeOK, ReaderTypeOK,
     CandidateTypeOK, OcrPcs,
     CanonicalPcs, ReaderPcs, CandidatePcs
<1>2. UniqueInv'
  BY <1>a, SameTrees
<1>3. AttemptsInv'
  BY <1>a DEF IInv, AttemptsInv, OcrPcs, ReaderPcs
<1>4. OcrInv'
  BY <1>a, AfterOcrStays DEF AfterOcr, AfterCanonical, CanonicalPcs, ReaderPcs, ocrVars
<1>5. CanonicalInv'
  BY <1>a DEF IInv, CanonicalInv, CanonicalPcs, AfterCanonical, ReaderPcs, CandidatePcs,
     CanonicalMatches
<1>6. ReaderInv' /\ CandidateInv'
  BY <1>a, BeforeReader DEF CanonicalPcs, readerVars, candidateVars
<1>7. MovedInv'
  BY <1>a DEF IInv, MovedInv, OcrPcs, CanonicalPcs, ReaderPcs, CandidatePcs, AdvanceIsReported
<1>8. CleanInv'
  <2> SUFFICES ASSUME ~scarred, OcrLeft, PendingIsDownstream,
                      CanonicalLeft, ReaderLeft, CandidateLeft
               PROVE  (/\ OcrLeft /\ PendingIsDownstream
                       /\ CanonicalLeft /\ ReaderLeft /\ CandidateLeft)'
    BY <1>a DEF IInv, CleanInv
  <2>1. OcrLeft'
    BY <1>a DEF OcrLeft
  <2>2. PendingIsDownstream'
    BY <1>a, <1>g DEF PendingIsDownstream, OcrMatches, CanonicalMatches, OfCanonical, Made
  <2>3. CanonicalLeft'
    BY <1>a DEF CanonicalLeft, CanonicalPcs
  <2>4. ReaderLeft'
    BY <1>a DEF ReaderLeft, ReaderPcs, ReaderInterruptible, OfCanonical
  <2>5. CandidateLeft'
    BY <1>a DEF CandidateLeft
  <2> QED BY <2>1, <2>2, <2>3, <2>4, <2>5
<1>9. LostOnlyWhenScarred'
  BY <1>a, SameWord
<1> QED BY <1>1, <1>2, <1>3, <1>4, <1>5, <1>6, <1>7, <1>8, <1>9 DEF IInv

LEMMA CanonicalTempWrittenStep == ASSUME IInv, CanonicalTempWritten, CanonicalOnly PROVE IInv'
<1>a. /\ pc = "canonical_temp"
      /\ pc' = "canonical_copy"
      /\ canonicalTemp' = hand
      /\ UNCHANGED <<hand, attempts, reason, advanced, result, release, ocr,
                    ocrTemp, ocrCurrent, canonical, canonicalCopy, canonicalCurrent, semantic,
                    semanticCurrent, material, materialNext, materialCurrent, moved, scarred>>
  BY DEF CanonicalTempWritten, CanonicalOnly, Goto, ocrVars, readerVars, candidateVars, Along,
     Moves
<1>g. /\ ocrTemp = NoRun /\ ocrCurrent \in Formal(ocr) \intersect Made(ocr, release)
  BY <1>a, OcrDone DEF AfterOcr, CanonicalPcs
<1>1. TypeOK'
  BY <1>a, UnfitTyped DEF IInv, TypeOK, OcrTypeOK, CanonicalTypeOK, ReaderTypeOK,
     CandidateTypeOK, OcrPcs,
     CanonicalPcs, ReaderPcs, CandidatePcs
<1>2. UniqueInv'
  BY <1>a, SameTrees
<1>3. AttemptsInv'
  BY <1>a DEF IInv, AttemptsInv, OcrPcs, ReaderPcs
<1>4. OcrInv'
  BY <1>a, AfterOcrStays DEF AfterOcr, AfterCanonical, CanonicalPcs, ReaderPcs, ocrVars
<1>5. CanonicalInv'
  BY <1>a DEF IInv, CanonicalInv, CanonicalPcs, AfterCanonical, ReaderPcs, CandidatePcs,
     CanonicalMatches
<1>6. ReaderInv' /\ CandidateInv'
  BY <1>a, BeforeReader DEF CanonicalPcs, readerVars, candidateVars
<1>7. MovedInv'
  BY <1>a DEF IInv, MovedInv, OcrPcs, CanonicalPcs, ReaderPcs, CandidatePcs, AdvanceIsReported
<1>8. CleanInv'
  <2> SUFFICES ASSUME ~scarred, OcrLeft, PendingIsDownstream,
                      CanonicalLeft, ReaderLeft, CandidateLeft
               PROVE  (/\ OcrLeft /\ PendingIsDownstream
                       /\ CanonicalLeft /\ ReaderLeft /\ CandidateLeft)'
    BY <1>a DEF IInv, CleanInv
  <2>1. OcrLeft'
    BY <1>a DEF OcrLeft
  <2>2. PendingIsDownstream'
    BY <1>a, <1>g DEF PendingIsDownstream, OcrMatches, CanonicalMatches, OfCanonical, Made
  <2>3. CanonicalLeft'
    BY <1>a DEF CanonicalLeft, CanonicalPcs
  <2>4. ReaderLeft'
    BY <1>a DEF ReaderLeft, ReaderPcs, ReaderInterruptible, OfCanonical
  <2>5. CandidateLeft'
    BY <1>a DEF CandidateLeft
  <2> QED BY <2>1, <2>2, <2>3, <2>4, <2>5
<1>9. LostOnlyWhenScarred'
  BY <1>a, SameWord
<1> QED BY <1>1, <1>2, <1>3, <1>4, <1>5, <1>6, <1>7, <1>8, <1>9 DEF IInv

LEMMA CanonicalCopyBeginStep == ASSUME IInv, CanonicalCopyBegin, CanonicalOnly PROVE IInv'
<1>a. /\ pc = "canonical_copy"
      /\ pc' = "canonical_copying"
      /\ canonicalCopy' = Torn
      /\ UNCHANGED <<hand, attempts, reason, advanced, result, release, ocr,
                    ocrTemp, ocrCurrent, canonical, canonicalTemp, canonicalCurrent, semantic,
                    semanticCurrent, material, materialNext, materialCurrent, moved, scarred>>
  BY DEF CanonicalCopyBegin, CanonicalOnly, Goto, ocrVars, readerVars, candidateVars, Along, Moves
<1>g. /\ ocrTemp = NoRun /\ ocrCurrent \in Formal(ocr) \intersect Made(ocr, release)
  BY <1>a, OcrDone DEF AfterOcr, CanonicalPcs
<1>1. TypeOK'
  BY <1>a, UnfitTyped DEF IInv, TypeOK, OcrTypeOK, CanonicalTypeOK, ReaderTypeOK,
     CandidateTypeOK, OcrPcs,
     CanonicalPcs, ReaderPcs, CandidatePcs
<1>2. UniqueInv'
  BY <1>a, SameTrees
<1>3. AttemptsInv'
  BY <1>a DEF IInv, AttemptsInv, OcrPcs, ReaderPcs
<1>4. OcrInv'
  BY <1>a, AfterOcrStays DEF AfterOcr, AfterCanonical, CanonicalPcs, ReaderPcs, ocrVars
<1>5. CanonicalInv'
  BY <1>a DEF IInv, CanonicalInv, CanonicalPcs, AfterCanonical, ReaderPcs, CandidatePcs,
     CanonicalMatches
<1>6. ReaderInv' /\ CandidateInv'
  BY <1>a, BeforeReader DEF CanonicalPcs, readerVars, candidateVars
<1>7. MovedInv'
  BY <1>a DEF IInv, MovedInv, OcrPcs, CanonicalPcs, ReaderPcs, CandidatePcs, AdvanceIsReported
<1>8. CleanInv'
  BY <1>a DEF IInv, CleanInv, OcrLeft, PendingIsDownstream, CanonicalLeft, ReaderLeft,
     CandidateLeft, OcrTempUsable, OcrMatches, CanonicalMatches, CanonicalPcs, ReaderPcs,
     CanonicalPointersUsable, CanonicalTempUsable, ReaderInterruptible, OfCanonical, Made
<1>9. LostOnlyWhenScarred'
  BY <1>a, SameWord
<1> QED BY <1>1, <1>2, <1>3, <1>4, <1>5, <1>6, <1>7, <1>8, <1>9 DEF IInv

LEMMA CanonicalCopyWrittenStep == ASSUME IInv, CanonicalCopyWritten, CanonicalOnly PROVE IInv'
<1>a. /\ pc = "canonical_copying"
      /\ pc' = "canonical_replace"
      /\ canonicalCopy' = hand
      /\ UNCHANGED <<hand, attempts, reason, advanced, result, release, ocr,
                    ocrTemp, ocrCurrent, canonical, canonicalTemp, canonicalCurrent, semantic,
                    semanticCurrent, material, materialNext, materialCurrent, moved, scarred>>
  BY DEF CanonicalCopyWritten, CanonicalOnly, Goto, ocrVars, readerVars, candidateVars, Along,
     Moves
<1>g. /\ ocrTemp = NoRun /\ ocrCurrent \in Formal(ocr) \intersect Made(ocr, release)
  BY <1>a, OcrDone DEF AfterOcr, CanonicalPcs
<1>1. TypeOK'
  BY <1>a, UnfitTyped DEF IInv, TypeOK, OcrTypeOK, CanonicalTypeOK, ReaderTypeOK,
     CandidateTypeOK, OcrPcs,
     CanonicalPcs, ReaderPcs, CandidatePcs
<1>2. UniqueInv'
  BY <1>a, SameTrees
<1>3. AttemptsInv'
  BY <1>a DEF IInv, AttemptsInv, OcrPcs, ReaderPcs
<1>4. OcrInv'
  BY <1>a, AfterOcrStays DEF AfterOcr, AfterCanonical, CanonicalPcs, ReaderPcs, ocrVars
<1>5. CanonicalInv'
  BY <1>a DEF IInv, CanonicalInv, CanonicalPcs, AfterCanonical, ReaderPcs, CandidatePcs,
     CanonicalMatches
<1>6. ReaderInv' /\ CandidateInv'
  BY <1>a, BeforeReader DEF CanonicalPcs, readerVars, candidateVars
<1>7. MovedInv'
  BY <1>a DEF IInv, MovedInv, OcrPcs, CanonicalPcs, ReaderPcs, CandidatePcs, AdvanceIsReported
<1>8. CleanInv'
  BY <1>a DEF IInv, CleanInv, OcrLeft, PendingIsDownstream, CanonicalLeft, ReaderLeft,
     CandidateLeft, OcrTempUsable, OcrMatches, CanonicalMatches, CanonicalPcs, ReaderPcs,
     CanonicalPointersUsable, CanonicalTempUsable, ReaderInterruptible, OfCanonical, Made
<1>9. LostOnlyWhenScarred'
  BY <1>a, SameWord
<1> QED BY <1>1, <1>2, <1>3, <1>4, <1>5, <1>6, <1>7, <1>8, <1>9 DEF IInv

LEMMA CanonicalReplaceStep == ASSUME IInv, CanonicalReplace, CanonicalOnly PROVE IInv'
<1>a. /\ pc = "canonical_replace"
      /\ pc' = "canonical_unlink"
      /\ canonicalCurrent' = canonicalCopy /\ canonicalCopy' = NoRun
      /\ moved' = moved \union {"canonicalize"}
      /\ UNCHANGED <<hand, attempts, reason, advanced, result, release, ocr,
                    ocrTemp, ocrCurrent, canonical, canonicalTemp, semantic, semanticCurrent,
                    material, materialNext, materialCurrent, scarred>>
  BY DEF CanonicalReplace, CanonicalOnly, Goto, ocrVars, readerVars, candidateVars, Along, Moves
<1>g. /\ ocrTemp = NoRun /\ ocrCurrent \in Formal(ocr) \intersect Made(ocr, release)
      /\ canonicalCopy = hand /\ hand \in Runs /\ Staged(canonical) = {}
      /\ hand \in Formal(canonical) \intersect Made(canonical, ocrCurrent)
      /\ canonicalCurrent \in Made(canonical, ocrCurrent) => canonicalCurrent = hand
  BY <1>a, OcrDone, TreesAre DEF AfterOcr, CanonicalPcs, IInv, CanonicalInv, UniqueInv, Unique,
     CanonicalMatches, Made
<1>1. TypeOK'
  BY <1>a, UnfitTyped, <1>g DEF IInv, TypeOK, OcrTypeOK, CanonicalTypeOK, ReaderTypeOK,
     CandidateTypeOK,
     OcrPcs, CanonicalPcs, ReaderPcs, CandidatePcs, Stages, OcrOutcomes, OcrTransient,
     AttemptKinds,
     OcrReasons, ReaderReasons, ReaderAttempts
<1>2. UniqueInv'
  BY <1>a, SameTrees
<1>3. AttemptsInv'
  BY <1>a DEF IInv, AttemptsInv, OcrPcs, ReaderPcs
<1>4. OcrInv'
  BY <1>a, AfterOcrStays DEF AfterOcr, AfterCanonical, CanonicalPcs, ReaderPcs, ocrVars
<1>5. CanonicalInv'
  BY <1>a DEF IInv, CanonicalInv, CanonicalPcs, AfterCanonical, ReaderPcs, CandidatePcs,
     CanonicalMatches, Made
<1>6. ReaderInv' /\ CandidateInv'
  BY <1>a, BeforeReader DEF CanonicalPcs, readerVars, candidateVars
<1>7. MovedInv'
  BY <1>a DEF IInv, MovedInv, OcrPcs, CanonicalPcs, ReaderPcs, CandidatePcs, AdvanceIsReported
<1>8. CleanInv'
  <2> SUFFICES ASSUME ~scarred, OcrLeft, PendingIsDownstream,
                      CanonicalLeft, ReaderLeft, CandidateLeft
               PROVE  (/\ OcrLeft /\ PendingIsDownstream
                       /\ CanonicalLeft /\ ReaderLeft /\ CandidateLeft)'
    BY <1>a DEF IInv, CleanInv
  <2>1. OcrLeft'
    BY <1>a DEF OcrLeft
  <2>2. PendingIsDownstream'
    BY <1>a, <1>g DEF PendingIsDownstream, OcrMatches, CanonicalMatches, OfCanonical, Made
  <2>3. CanonicalLeft'
    BY <1>a DEF CanonicalLeft, CanonicalPcs
  <2>4. ReaderLeft'
    BY <1>a, <1>g DEF ReaderLeft, ReaderPcs, ReaderInterruptible, OfCanonical,
       PendingIsDownstream, CanonicalMatches, Made
  <2>5. CandidateLeft'
    BY <1>a DEF CandidateLeft
  <2> QED BY <2>1, <2>2, <2>3, <2>4, <2>5
<1>9. LostOnlyWhenScarred'
  BY <1>a, SameWord
<1> QED BY <1>1, <1>2, <1>3, <1>4, <1>5, <1>6, <1>7, <1>8, <1>9 DEF IInv

LEMMA CanonicalUnlinkStep == ASSUME IInv, CanonicalUnlink, CanonicalOnly PROVE IInv'
<1>a. /\ pc = "canonical_unlink"
      /\ pc' = "reader" /\ hand' = NoRun /\ attempts' = <<>> /\ reason' = "none"
      /\ advanced' = advanced \union {"canonicalize"}
      /\ canonicalTemp' = NoRun
      /\ UNCHANGED <<result, release, ocr, ocrTemp, ocrCurrent, canonical,
                    canonicalCopy, canonicalCurrent, semantic, semanticCurrent, material,
                    materialNext, materialCurrent, moved, scarred>>
  BY DEF CanonicalUnlink, CanonicalOnly, HandOver, ocrVars, readerVars, candidateVars, Along,
     Moves
<1>g. /\ ocrTemp = NoRun /\ ocrCurrent \in Formal(ocr) \intersect Made(ocr, release)
      /\ canonicalCopy = NoRun /\ Staged(canonical) = {}
  BY <1>a, OcrDone DEF AfterOcr, CanonicalPcs, IInv, CanonicalInv
<1>1. TypeOK'
  BY <1>a, UnfitTyped, RunsAssumption, ReleasesAssumption DEF IInv, TypeOK, OcrTypeOK,
     CanonicalTypeOK, ReaderTypeOK, CandidateTypeOK, Inputs, Runs, NoRun, Torn, OcrPcs, CanonicalPcs, ReaderPcs,
     CandidatePcs, Stages, OcrOutcomes, OcrTransient, AttemptKinds, OcrReasons, ReaderReasons,
     ReaderAttempts
<1>2. UniqueInv'
  BY <1>a, SameTrees
<1>3. AttemptsInv'
  BY <1>a DEF IInv, AttemptsInv
<1>4. OcrInv'
  BY <1>a, AfterOcrStays DEF AfterOcr, AfterCanonical, CanonicalPcs, ReaderPcs, ocrVars
<1>5. CanonicalInv'
  BY <1>a DEF IInv, CanonicalInv, CanonicalPcs, ReaderPcs, CandidatePcs, CanonicalMatches
<1>6. ReaderInv' /\ CandidateInv'
  BY <1>a, BeforeReader DEF readerVars, candidateVars
<1>7. MovedInv'
  BY <1>a DEF IInv, MovedInv, OcrPcs, CanonicalPcs, ReaderPcs, CandidatePcs, AdvanceIsReported
<1>8. CleanInv'
  <2> SUFFICES ASSUME ~scarred, OcrLeft, PendingIsDownstream,
                      CanonicalLeft, ReaderLeft, CandidateLeft
               PROVE  (/\ OcrLeft /\ PendingIsDownstream
                       /\ CanonicalLeft /\ ReaderLeft /\ CandidateLeft)'
    BY <1>a DEF IInv, CleanInv
  <2>1. OcrLeft'
    BY <1>a DEF OcrLeft
  <2>2. PendingIsDownstream'
    BY <1>a DEF PendingIsDownstream, OcrMatches, CanonicalMatches, OfCanonical, Made
  <2>3. CanonicalLeft'
    BY <1>a, <1>g DEF CanonicalLeft, CanonicalPointersUsable, CanonicalTempUsable
  <2>4. ReaderLeft'
    BY <1>a DEF ReaderLeft, ReaderPcs, ReaderInterruptible, OfCanonical
  <2>5. CandidateLeft'
    BY <1>a DEF CandidateLeft
  <2> QED BY <2>1, <2>2, <2>3, <2>4, <2>5
<1>9. LostOnlyWhenScarred'
  BY <1>a, SameWord
<1> QED BY <1>1, <1>2, <1>3, <1>4, <1>5, <1>6, <1>7, <1>8, <1>9 DEF IInv

\* The steps of the Reader stage.
LEMMA ReaderUnavailableStep == ASSUME IInv, ReaderUnavailable, ReaderOnly PROVE IInv'
<1>a. /\ pc = "reader"
      /\ pc' = "idle" /\ hand' = NoRun /\ attempts' = <<>> /\ reason' = "none"
      /\ result' = "blocked"
      /\ UNCHANGED <<advanced, release, ocr, ocrTemp, ocrCurrent, canonical,
                    canonicalTemp, canonicalCopy, canonicalCurrent, semantic, semanticCurrent,
                    material, materialNext, materialCurrent, moved, scarred>>
  BY DEF ReaderUnavailable, ReaderOnly, Stop, readerVars, ocrVars, canonicalVars, candidateVars,
     Along, Moves
<1>g. /\ ocrTemp = NoRun /\ ocrCurrent \in Formal(ocr) \intersect Made(ocr, release)
      /\ canonicalTemp = NoRun /\ canonicalCopy = NoRun /\ Staged(canonical) = {}
      /\ canonicalCurrent \in Formal(canonical) \intersect Made(canonical, ocrCurrent)
  BY <1>a, OcrDone, CanonicalDone DEF AfterOcr, AfterCanonical, ReaderPcs
<1>1. TypeOK'
  BY <1>a, UnfitTyped, RunsAssumption, ReleasesAssumption DEF IInv, TypeOK, OcrTypeOK,
     CanonicalTypeOK, ReaderTypeOK, CandidateTypeOK, Inputs, Runs, NoRun, Torn, Stages, OcrOutcomes, OcrTransient,
     AttemptKinds, OcrReasons, ReaderReasons, ReaderAttempts
<1>2. UniqueInv'
  BY <1>a, SameTrees
<1>3. AttemptsInv'
  BY <1>a DEF IInv, AttemptsInv
<1>4. OcrInv'
  BY <1>a, AfterOcrStays DEF AfterOcr, AfterCanonical, ReaderPcs, CandidatePcs, ocrVars
<1>5. CanonicalInv'
  BY <1>a, AfterCanonicalStays DEF AfterCanonical, ReaderPcs, CandidatePcs, canonicalVars
<1>6. ReaderInv'
  BY <1>a DEF IInv, ReaderInv, ReaderMaking, CandidatePcs
<1>7. CandidateInv'
  BY <1>a, BeforeCandidate DEF candidateVars
<1>8. MovedInv'
  BY <1>a, NothingMoves
<1>9. CleanInv'
  <2> SUFFICES ASSUME ~scarred, OcrLeft, PendingIsDownstream,
                      CanonicalLeft, ReaderLeft, CandidateLeft
               PROVE  (/\ OcrLeft /\ PendingIsDownstream
                       /\ CanonicalLeft /\ ReaderLeft /\ CandidateLeft)'
    BY <1>a DEF IInv, CleanInv
  <2>1. OcrLeft'
    BY <1>a, <1>g DEF OcrLeft
  <2>2. PendingIsDownstream'
    BY <1>a DEF PendingIsDownstream, OcrMatches, CanonicalMatches, OfCanonical, Made
  <2>3. CanonicalLeft'
    BY <1>a, <1>g DEF CanonicalLeft, CanonicalPointersUsable, CanonicalTempUsable
  <2>4. ReaderLeft'
    BY <1>a DEF ReaderLeft, ReaderInterruptible, OfCanonical
  <2>5. CandidateLeft'
    BY <1>a DEF CandidateLeft
  <2> QED BY <2>1, <2>2, <2>3, <2>4, <2>5
<1>10. LostOnlyWhenScarred'
  BY <1>a, OtherWord
<1> QED BY <1>1, <1>2, <1>3, <1>4, <1>5, <1>6, <1>7, <1>8, <1>9, <1>10 DEF IInv

LEMMA ReaderLostStep == ASSUME IInv, ReaderLost, ReaderOnly PROVE IInv'
<1>a. /\ pc \in {"reader", "reader_current"}
      /\ \/ pc = "reader" /\ Cardinality(Staged(semantic)) > 1
         \/ pc = "reader" /\ \E r \in Staged(semantic) : ~ReaderInterruptible(r)
         \/ Cardinality(ReaderMatches) > 1
      /\ pc' = "idle" /\ hand' = NoRun /\ attempts' = <<>> /\ reason' = "none"
      /\ result' = "uncertain"
      /\ UNCHANGED <<advanced, release, ocr, ocrTemp, ocrCurrent, canonical,
                    canonicalTemp, canonicalCopy, canonicalCurrent, semantic, semanticCurrent,
                    material, materialNext, materialCurrent, moved, scarred>>
  BY DEF ReaderLost, ReaderOnly, Stop, readerVars, ocrVars, canonicalVars, candidateVars, Along,
     Moves
<1>g. /\ ocrTemp = NoRun /\ ocrCurrent \in Formal(ocr) \intersect Made(ocr, release)
      /\ canonicalTemp = NoRun /\ canonicalCopy = NoRun /\ Staged(canonical) = {}
      /\ canonicalCurrent \in Formal(canonical) \intersect Made(canonical, ocrCurrent)
      /\ pc = "reader_current" => Staged(semantic) = {}
  BY <1>a, OcrDone, CanonicalDone DEF AfterOcr, AfterCanonical, ReaderPcs, IInv, ReaderInv
<1>1. TypeOK'
  BY <1>a, UnfitTyped, RunsAssumption, ReleasesAssumption DEF IInv, TypeOK, OcrTypeOK,
     CanonicalTypeOK, ReaderTypeOK, CandidateTypeOK, Inputs, Runs, NoRun, Torn, Stages, OcrOutcomes, OcrTransient,
     AttemptKinds, OcrReasons, ReaderReasons, ReaderAttempts
<1>2. UniqueInv'
  BY <1>a, SameTrees
<1>3. AttemptsInv'
  BY <1>a DEF IInv, AttemptsInv
<1>4. OcrInv'
  BY <1>a, AfterOcrStays DEF AfterOcr, AfterCanonical, ReaderPcs, CandidatePcs, ocrVars
<1>5. CanonicalInv'
  BY <1>a, AfterCanonicalStays DEF AfterCanonical, ReaderPcs, CandidatePcs, canonicalVars
<1>6. ReaderInv'
  BY <1>a DEF IInv, ReaderInv, ReaderMaking, CandidatePcs
<1>7. CandidateInv'
  BY <1>a, BeforeCandidate DEF candidateVars
<1>8. MovedInv'
  BY <1>a, NothingMoves
<1>9. CleanInv'
  <2> SUFFICES ASSUME ~scarred, OcrLeft, PendingIsDownstream,
                      CanonicalLeft, ReaderLeft, CandidateLeft
               PROVE  (/\ OcrLeft /\ PendingIsDownstream
                       /\ CanonicalLeft /\ ReaderLeft /\ CandidateLeft)'
    BY <1>a DEF IInv, CleanInv
  <2>1. OcrLeft'
    BY <1>a, <1>g DEF OcrLeft
  <2>2. PendingIsDownstream'
    BY <1>a DEF PendingIsDownstream, OcrMatches, CanonicalMatches, OfCanonical, Made
  <2>3. CanonicalLeft'
    BY <1>a, <1>g DEF CanonicalLeft, CanonicalPointersUsable, CanonicalTempUsable
  <2>4. ReaderLeft'
    BY <1>a, <1>g DEF ReaderLeft, ReaderInterruptible, OfCanonical
  <2>5. CandidateLeft'
    BY <1>a DEF CandidateLeft
  <2> QED BY <2>1, <2>2, <2>3, <2>4, <2>5
<1>10. LostOnlyWhenScarred'
  <2> SUFFICES ASSUME ~scarred PROVE FALSE
    BY <1>a DEF LostOnlyWhenScarred
  <2>1. pc = "reader" => \A r \in Staged(semantic) : ReaderInterruptible(r)
    BY <1>a DEF IInv, CleanInv, ReaderLeft
  <2>2. ~(Cardinality(Staged(semantic)) > 1)
    <3>1. Staged(semantic) \in SUBSET Runs /\ \A r, s \in Staged(semantic) : r = s
      BY TreesAre DEF IInv, ReaderInv
    <3> QED BY <3>1, AtMostOne
  <2>3. ~(Cardinality(ReaderMatches) > 1)
    <3>1. ReaderMatches \in SUBSET Runs /\ \A r, s \in ReaderMatches : r = s
      BY TreesAre DEF IInv, UniqueInv, Unique, ReaderMatches, Made
    <3> QED BY <3>1, AtMostOne
  <2> QED BY <1>a, <2>1, <2>2, <2>3
<1> QED BY <1>1, <1>2, <1>3, <1>4, <1>5, <1>6, <1>7, <1>8, <1>9, <1>10 DEF IInv

LEMMA ReaderInterruptStep == ASSUME IInv, ReaderInterrupt, ReaderOnly PROVE IInv'
<1>a. /\ pc = "reader"
      /\ hand' \in Runs /\ Staged(semantic) = {hand'} /\ ReaderInterruptible(hand')
      /\ semantic' = Becomes(semantic, hand', "terminal")
      /\ pc' = "reader_interrupted"
      /\ UNCHANGED <<attempts, reason, advanced, result, release, ocr,
                    ocrTemp, ocrCurrent, canonical, canonicalTemp, canonicalCopy,
                    canonicalCurrent, semanticCurrent, material, materialNext, materialCurrent,
                    moved, scarred>>
  BY DEF ReaderInterrupt, ReaderOnly, Goto, ocrVars, canonicalVars, candidateVars, Along, Moves
<1>g. /\ ocrTemp = NoRun /\ ocrCurrent \in Formal(ocr) \intersect Made(ocr, release)
      /\ canonicalTemp = NoRun /\ canonicalCopy = NoRun /\ Staged(canonical) = {}
      /\ canonicalCurrent \in Formal(canonical) \intersect Made(canonical, ocrCurrent)
      /\ hand' \in Staged(semantic) \ Whole(semantic)
      /\ semantic[hand'].of = canonicalCurrent
      /\ semanticCurrent # NoRun => semanticCurrent \in Runs
  BY <1>a, OcrDone, CanonicalDone, TreesAre DEF AfterOcr, AfterCanonical, ReaderPcs,
     ReaderInterruptible, OfCanonical, Whole, IInv, ReaderInv
<1>s. /\ semantic \in Trees(ReaderStates) /\ hand' \in Staged(semantic)
      /\ semantic' = Becomes(semantic, hand', "terminal")
      /\ "terminal" \in ReaderStates
  BY <1>a DEF IInv, TypeOK, ReaderTypeOK, ReaderStates, ReaderMaking, ReaderInv
<1>t. /\ semantic' \in Trees(ReaderStates)
      /\ Staged(semantic') = Staged(semantic) /\ Formal(semantic') = Formal(semantic)
      /\ Whole(semantic') = Whole(semantic) \ {hand'}
      /\ semantic'[hand'].state = "terminal" /\ \A s \in Runs : semantic'[s].of = semantic[s].of
      /\ \A s \in Runs \ {hand'} : semantic'[s] = semantic[s]
      /\ Whole(semantic) \subseteq Runs /\ hand' \in Runs
  BY <1>s, BecomesIs
<1>1. TypeOK'
  BY <1>a, UnfitTyped, <1>t DEF IInv, TypeOK, OcrTypeOK, CanonicalTypeOK, ReaderTypeOK,
     CandidateTypeOK,
     Inputs, Runs, NoRun, Torn, OcrPcs, CanonicalPcs, ReaderPcs, CandidatePcs
<1>2. UniqueInv'
  BY <1>a, <1>t DEF IInv, UniqueInv, Unique
<1>3. AttemptsInv'
  BY <1>a DEF IInv, AttemptsInv, OcrPcs, ReaderPcs
<1>4. OcrInv'
  BY <1>a, AfterOcrStays DEF AfterOcr, AfterCanonical, ReaderPcs, CandidatePcs, ocrVars
<1>5. CanonicalInv'
  BY <1>a, AfterCanonicalStays DEF AfterCanonical, ReaderPcs, CandidatePcs, canonicalVars
<1>6. ReaderInv'
  BY <1>a, <1>t, <1>g DEF IInv, ReaderInv, ReaderMaking, CandidatePcs
<1>7. CandidateInv'
  BY <1>a, BeforeCandidate DEF ReaderPcs, candidateVars
<1>8. MovedInv'
  BY <1>a DEF IInv, MovedInv, OcrPcs, CanonicalPcs, ReaderPcs, CandidatePcs, AdvanceIsReported
<1>9. CleanInv'
  <2> SUFFICES ASSUME ~scarred, OcrLeft, PendingIsDownstream,
                      CanonicalLeft, ReaderLeft, CandidateLeft
               PROVE  (/\ OcrLeft /\ PendingIsDownstream
                       /\ CanonicalLeft /\ ReaderLeft /\ CandidateLeft)'
    BY <1>a DEF IInv, CleanInv
  <2>1. OcrLeft'
    BY <1>a DEF OcrLeft
  <2>2. PendingIsDownstream'
    BY <1>a, <1>t, <1>g DEF PendingIsDownstream, OcrMatches, CanonicalMatches, OfCanonical, Made
  <2>3. CanonicalLeft'
    BY <1>a, <1>g DEF CanonicalLeft, CanonicalPointersUsable, CanonicalTempUsable
  <2>4. ReaderLeft'
    BY <1>a DEF ReaderLeft, ReaderPcs
  <2>5. CandidateLeft'
    BY <1>a DEF CandidateLeft
  <2> QED BY <2>1, <2>2, <2>3, <2>4, <2>5
<1>10. LostOnlyWhenScarred'
  BY <1>a, SameWord
<1> QED BY <1>1, <1>2, <1>3, <1>4, <1>5, <1>6, <1>7, <1>8, <1>9, <1>10 DEF IInv

LEMMA ReaderInterruptedStep == ASSUME IInv, ReaderInterrupted, ReaderOnly PROVE IInv'
<1>a. /\ pc = "reader_interrupted"
      /\ pc' = "reader_current"
      /\ hand' = NoRun
      /\ semantic' = Renamed(semantic, hand)
      /\ UNCHANGED <<attempts, reason, advanced, result, release, ocr,
                    ocrTemp, ocrCurrent, canonical, canonicalTemp, canonicalCopy,
                    canonicalCurrent, semanticCurrent, material, materialNext, materialCurrent,
                    moved, scarred>>
  BY DEF ReaderInterrupted, ReaderOnly, Goto, ocrVars, canonicalVars, candidateVars, Along, Moves
<1>g. /\ ocrTemp = NoRun /\ ocrCurrent \in Formal(ocr) \intersect Made(ocr, release)
      /\ canonicalTemp = NoRun /\ canonicalCopy = NoRun /\ Staged(canonical) = {}
      /\ canonicalCurrent \in Formal(canonical) \intersect Made(canonical, ocrCurrent)
      /\ Staged(semantic) = {hand} /\ hand \in Runs
      /\ semanticCurrent # NoRun => semanticCurrent \in Runs
  BY <1>a, OcrDone, CanonicalDone, TreesAre DEF AfterOcr, AfterCanonical, ReaderPcs, IInv,
     ReaderInv
<1>s. /\ semantic \in Trees(ReaderStates) /\ hand \in Staged(semantic)
      /\ semantic' = Renamed(semantic, hand)
  BY <1>a DEF IInv, TypeOK, ReaderTypeOK, ReaderStates, ReaderMaking, ReaderInv
<1>t. /\ semantic' \in Trees(ReaderStates)
      /\ Staged(semantic') = Staged(semantic) \ {hand}
      /\ Formal(semantic') = Formal(semantic) \union {hand}
      /\ Whole(semantic') = Whole(semantic)
      /\ \A s \in Runs : semantic'[s].of = semantic[s].of /\ semantic'[s].state = semantic[s].state
      /\ Whole(semantic) \subseteq Runs /\ hand \in Runs
  BY <1>s, RenamedIs
<1>1. TypeOK'
  BY <1>a, UnfitTyped, <1>t, RunsAssumption, ReleasesAssumption DEF IInv, TypeOK, OcrTypeOK,
     CanonicalTypeOK, ReaderTypeOK, CandidateTypeOK, Inputs, Runs, NoRun, Torn, OcrPcs, CanonicalPcs, ReaderPcs,
     CandidatePcs
<1>2. UniqueInv'
  BY <1>a, <1>t DEF IInv, UniqueInv, Unique
<1>3. AttemptsInv'
  BY <1>a DEF IInv, AttemptsInv, OcrPcs, ReaderPcs
<1>4. OcrInv'
  BY <1>a, AfterOcrStays DEF AfterOcr, AfterCanonical, ReaderPcs, CandidatePcs, ocrVars
<1>5. CanonicalInv'
  BY <1>a, AfterCanonicalStays DEF AfterCanonical, ReaderPcs, CandidatePcs, canonicalVars
<1>6. ReaderInv'
  BY <1>a, <1>t DEF IInv, ReaderInv, ReaderMaking, CandidatePcs
<1>7. CandidateInv'
  BY <1>a, BeforeCandidate DEF ReaderPcs, candidateVars
<1>8. MovedInv'
  BY <1>a DEF IInv, MovedInv, OcrPcs, CanonicalPcs, ReaderPcs, CandidatePcs, AdvanceIsReported
<1>9. CleanInv'
  <2> SUFFICES ASSUME ~scarred, OcrLeft, PendingIsDownstream,
                      CanonicalLeft, ReaderLeft, CandidateLeft
               PROVE  (/\ OcrLeft /\ PendingIsDownstream
                       /\ CanonicalLeft /\ ReaderLeft /\ CandidateLeft)'
    BY <1>a DEF IInv, CleanInv
  <2>1. OcrLeft'
    BY <1>a DEF OcrLeft
  <2>2. PendingIsDownstream'
    BY <1>a, <1>t, <1>g DEF PendingIsDownstream, OcrMatches, CanonicalMatches, OfCanonical, Made
  <2>3. CanonicalLeft'
    BY <1>a, <1>g DEF CanonicalLeft, CanonicalPointersUsable, CanonicalTempUsable
  <2>4. ReaderLeft'
    BY <1>a, <1>t, <1>g DEF ReaderLeft
  <2>5. CandidateLeft'
    BY <1>a DEF CandidateLeft
  <2> QED BY <2>1, <2>2, <2>3, <2>4, <2>5
<1>10. LostOnlyWhenScarred'
  BY <1>a, SameWord
<1> QED BY <1>1, <1>2, <1>3, <1>4, <1>5, <1>6, <1>7, <1>8, <1>9, <1>10 DEF IInv

LEMMA ReaderCleanStep == ASSUME IInv, ReaderClean, ReaderOnly PROVE IInv'
<1>a. /\ pc = "reader"
      /\ Staged(semantic) = {}
      /\ pc' = "reader_current"
      /\ hand' = NoRun
      /\ UNCHANGED <<attempts, reason, advanced, result, release, ocr,
                    ocrTemp, ocrCurrent, canonical, canonicalTemp, canonicalCopy,
                    canonicalCurrent, semantic, semanticCurrent, material, materialNext,
                    materialCurrent, moved, scarred>>
  BY DEF ReaderClean, ReaderOnly, Goto, readerVars, ocrVars, canonicalVars, candidateVars, Along,
     Moves
<1>g. /\ ocrTemp = NoRun /\ ocrCurrent \in Formal(ocr) \intersect Made(ocr, release)
      /\ canonicalTemp = NoRun /\ canonicalCopy = NoRun /\ Staged(canonical) = {}
      /\ canonicalCurrent \in Formal(canonical) \intersect Made(canonical, ocrCurrent)
  BY <1>a, OcrDone, CanonicalDone DEF AfterOcr, AfterCanonical, ReaderPcs
<1>1. TypeOK'
  BY <1>a, UnfitTyped, RunsAssumption, ReleasesAssumption DEF IInv, TypeOK, OcrTypeOK,
     CanonicalTypeOK, ReaderTypeOK, CandidateTypeOK, Inputs, Runs, NoRun, Torn, OcrPcs, CanonicalPcs, ReaderPcs,
     CandidatePcs
<1>2. UniqueInv'
  BY <1>a, SameTrees
<1>3. AttemptsInv'
  BY <1>a DEF IInv, AttemptsInv, OcrPcs, ReaderPcs
<1>4. OcrInv'
  BY <1>a, AfterOcrStays DEF AfterOcr, AfterCanonical, ReaderPcs, CandidatePcs, ocrVars
<1>5. CanonicalInv'
  BY <1>a, AfterCanonicalStays DEF AfterCanonical, ReaderPcs, CandidatePcs, canonicalVars
<1>6. ReaderInv'
  BY <1>a DEF IInv, ReaderInv, ReaderMaking, CandidatePcs
<1>7. CandidateInv'
  BY <1>a, BeforeCandidate DEF ReaderPcs, candidateVars
<1>8. MovedInv'
  BY <1>a DEF IInv, MovedInv, OcrPcs, CanonicalPcs, ReaderPcs, CandidatePcs, AdvanceIsReported
<1>9. CleanInv'
  BY <1>a, <1>g DEF IInv, CleanInv, OcrLeft, PendingIsDownstream, CanonicalLeft, ReaderLeft,
     CandidateLeft, OcrTempUsable, OcrMatches, CanonicalMatches, CanonicalPointersUsable,
     CanonicalTempUsable, ReaderInterruptible, OfCanonical, Made
<1>10. LostOnlyWhenScarred'
  BY <1>a, SameWord
<1> QED BY <1>1, <1>2, <1>3, <1>4, <1>5, <1>6, <1>7, <1>8, <1>9, <1>10 DEF IInv

LEMMA ReaderReuseStep == ASSUME IInv, ReaderReuse, ReaderOnly PROVE IInv'
<1>a. /\ pc = "reader_current"
      /\ semanticCurrent # NoRun /\ OfCanonical(semanticCurrent)
      /\ pc' = "candidate" /\ hand' = NoRun /\ attempts' = <<>> /\ reason' = "none"
      /\ UNCHANGED <<advanced, result, release, ocr, ocrTemp, ocrCurrent,
                    canonical, canonicalTemp, canonicalCopy, canonicalCurrent, semantic,
                    semanticCurrent, material, materialNext, materialCurrent, moved, scarred>>
  BY DEF ReaderReuse, ReaderOnly, HandOver, readerVars, ocrVars, canonicalVars, candidateVars,
     Along, Moves
<1>g. /\ ocrTemp = NoRun /\ ocrCurrent \in Formal(ocr) \intersect Made(ocr, release)
      /\ canonicalTemp = NoRun /\ canonicalCopy = NoRun /\ Staged(canonical) = {}
      /\ canonicalCurrent \in Formal(canonical) \intersect Made(canonical, ocrCurrent)
      /\ Staged(semantic) = {}
      /\ semanticCurrent \in Formal(semantic) \intersect Made(semantic, canonicalCurrent)
  BY <1>a, OcrDone, CanonicalDone DEF AfterOcr, AfterCanonical, ReaderPcs, IInv, ReaderInv,
     OfCanonical, Made
<1>1. TypeOK'
  BY <1>a, UnfitTyped, RunsAssumption, ReleasesAssumption DEF IInv, TypeOK, OcrTypeOK,
     CanonicalTypeOK, ReaderTypeOK, CandidateTypeOK, Inputs, Runs, NoRun, Torn, OcrPcs, CanonicalPcs, ReaderPcs,
     CandidatePcs, Stages, OcrOutcomes, OcrTransient, AttemptKinds, OcrReasons, ReaderReasons,
     ReaderAttempts
<1>2. UniqueInv'
  BY <1>a, SameTrees
<1>3. AttemptsInv'
  BY <1>a DEF IInv, AttemptsInv
<1>4. OcrInv'
  BY <1>a, AfterOcrStays DEF AfterOcr, AfterCanonical, ReaderPcs, CandidatePcs, ocrVars
<1>5. CanonicalInv'
  BY <1>a, AfterCanonicalStays DEF AfterCanonical, ReaderPcs, CandidatePcs, canonicalVars
<1>6. ReaderInv'
  BY <1>a DEF IInv, ReaderInv, ReaderMaking, Made, OfCanonical
<1>7. CandidateInv'
  BY <1>a, BeforeCandidate DEF candidateVars
<1>8. MovedInv'
  BY <1>a DEF IInv, MovedInv, OcrPcs, CanonicalPcs, ReaderPcs, CandidatePcs, AdvanceIsReported
<1>9. CleanInv'
  <2> SUFFICES ASSUME ~scarred, OcrLeft, PendingIsDownstream,
                      CanonicalLeft, ReaderLeft, CandidateLeft
               PROVE  (/\ OcrLeft /\ PendingIsDownstream
                       /\ CanonicalLeft /\ ReaderLeft /\ CandidateLeft)'
    BY <1>a DEF IInv, CleanInv
  <2>1. OcrLeft'
    BY <1>a DEF OcrLeft
  <2>2. PendingIsDownstream'
    BY <1>a DEF PendingIsDownstream, OcrMatches, CanonicalMatches, OfCanonical, Made
  <2>3. CanonicalLeft'
    BY <1>a, <1>g DEF CanonicalLeft, CanonicalPointersUsable, CanonicalTempUsable
  <2>4. ReaderLeft'
    BY <1>a, <1>g DEF ReaderLeft
  <2>5. CandidateLeft'
    BY <1>a DEF CandidateLeft
  <2> QED BY <2>1, <2>2, <2>3, <2>4, <2>5
<1>10. LostOnlyWhenScarred'
  BY <1>a, SameWord
<1> QED BY <1>1, <1>2, <1>3, <1>4, <1>5, <1>6, <1>7, <1>8, <1>9, <1>10 DEF IInv

LEMMA ReaderForeignCurrentStep == ASSUME IInv, ReaderForeignCurrent, ReaderOnly PROVE IInv'
<1>a. /\ pc = "reader_current"
      /\ semanticCurrent # NoRun /\ ~OfCanonical(semanticCurrent)
      /\ pc' = "idle" /\ hand' = NoRun /\ attempts' = <<>> /\ reason' = "none"
      /\ result' = "asset_integrity_lost"
      /\ UNCHANGED <<advanced, release, ocr, ocrTemp, ocrCurrent, canonical,
                    canonicalTemp, canonicalCopy, canonicalCurrent, semantic, semanticCurrent,
                    material, materialNext, materialCurrent, moved, scarred>>
  BY DEF ReaderForeignCurrent, ReaderOnly, Stop, readerVars, ocrVars, canonicalVars,
     candidateVars, Along, Moves
<1>g. /\ ocrTemp = NoRun /\ ocrCurrent \in Formal(ocr) \intersect Made(ocr, release)
      /\ canonicalTemp = NoRun /\ canonicalCopy = NoRun /\ Staged(canonical) = {}
      /\ canonicalCurrent \in Formal(canonical) \intersect Made(canonical, ocrCurrent)
  BY <1>a, OcrDone, CanonicalDone DEF AfterOcr, AfterCanonical, ReaderPcs
<1>1. TypeOK'
  BY <1>a, UnfitTyped, RunsAssumption, ReleasesAssumption DEF IInv, TypeOK, OcrTypeOK,
     CanonicalTypeOK, ReaderTypeOK, CandidateTypeOK, Inputs, Runs, NoRun, Torn, Stages, OcrOutcomes, OcrTransient,
     AttemptKinds, OcrReasons, ReaderReasons, ReaderAttempts
<1>2. UniqueInv'
  BY <1>a, SameTrees
<1>3. AttemptsInv'
  BY <1>a DEF IInv, AttemptsInv
<1>4. OcrInv'
  BY <1>a, AfterOcrStays DEF AfterOcr, AfterCanonical, ReaderPcs, CandidatePcs, ocrVars
<1>5. CanonicalInv'
  BY <1>a, AfterCanonicalStays DEF AfterCanonical, ReaderPcs, CandidatePcs, canonicalVars
<1>6. ReaderInv'
  BY <1>a DEF IInv, ReaderInv, ReaderMaking, CandidatePcs
<1>7. CandidateInv'
  BY <1>a, BeforeCandidate DEF candidateVars
<1>8. MovedInv'
  BY <1>a, NothingMoves
<1>9. CleanInv'
  BY <1>a DEF IInv, CleanInv, OcrLeft, PendingIsDownstream, CanonicalLeft, ReaderLeft,
     CandidateLeft
<1>10. LostOnlyWhenScarred'
  <2> SUFFICES ASSUME ~scarred PROVE FALSE
    BY <1>a DEF LostOnlyWhenScarred
  <2> QED BY <1>a DEF IInv, CleanInv, PendingIsDownstream
<1> QED BY <1>1, <1>2, <1>3, <1>4, <1>5, <1>6, <1>7, <1>8, <1>9, <1>10 DEF IInv

LEMMA ReaderRecoverStep == ASSUME IInv, ReaderRecover, ReaderOnly PROVE IInv'
<1>a. /\ pc = "reader_current"
      /\ semanticCurrent = NoRun
      /\ hand' \in ReaderMatches
      /\ pc' = "reader_replace"
      /\ UNCHANGED <<attempts, reason, advanced, result, release, ocr,
                    ocrTemp, ocrCurrent, canonical, canonicalTemp, canonicalCopy,
                    canonicalCurrent, semantic, semanticCurrent, material, materialNext,
                    materialCurrent, moved, scarred>>
  BY DEF ReaderRecover, ReaderOnly, Goto, readerVars, ocrVars, canonicalVars, candidateVars,
     Along, Moves
<1>g. /\ ocrTemp = NoRun /\ ocrCurrent \in Formal(ocr) \intersect Made(ocr, release)
      /\ canonicalTemp = NoRun /\ canonicalCopy = NoRun /\ Staged(canonical) = {}
      /\ canonicalCurrent \in Formal(canonical) \intersect Made(canonical, ocrCurrent)
      /\ hand' \in Runs /\ Staged(semantic) = {}
      /\ hand' \in Formal(semantic) \intersect Made(semantic, canonicalCurrent)
  BY <1>a, OcrDone, CanonicalDone, TreesAre DEF AfterOcr, AfterCanonical, ReaderPcs, IInv,
     ReaderInv, ReaderMatches
<1>1. TypeOK'
  BY <1>a, UnfitTyped, <1>g DEF IInv, TypeOK, OcrTypeOK, CanonicalTypeOK, ReaderTypeOK,
     CandidateTypeOK,
     Inputs, Runs, NoRun, Torn, OcrPcs, CanonicalPcs, ReaderPcs, CandidatePcs
<1>2. UniqueInv'
  BY <1>a, SameTrees
<1>3. AttemptsInv'
  BY <1>a DEF IInv, AttemptsInv, OcrPcs, ReaderPcs
<1>4. OcrInv'
  BY <1>a, AfterOcrStays DEF AfterOcr, AfterCanonical, ReaderPcs, CandidatePcs, ocrVars
<1>5. CanonicalInv'
  BY <1>a, AfterCanonicalStays DEF AfterCanonical, ReaderPcs, CandidatePcs, canonicalVars
<1>6. ReaderInv'
  BY <1>a, <1>g DEF IInv, ReaderInv, ReaderMaking, CandidatePcs
<1>7. CandidateInv'
  BY <1>a, BeforeCandidate DEF ReaderPcs, candidateVars
<1>8. MovedInv'
  BY <1>a DEF IInv, MovedInv, OcrPcs, CanonicalPcs, ReaderPcs, CandidatePcs, AdvanceIsReported
<1>9. CleanInv'
  BY <1>a, <1>g DEF IInv, CleanInv, OcrLeft, PendingIsDownstream, CanonicalLeft, ReaderLeft,
     CandidateLeft, CanonicalPointersUsable, CanonicalTempUsable, ReaderInterruptible
<1>10. LostOnlyWhenScarred'
  BY <1>a, SameWord
<1> QED BY <1>1, <1>2, <1>3, <1>4, <1>5, <1>6, <1>7, <1>8, <1>9, <1>10 DEF IInv

LEMMA ReaderInputRefusedStep == ASSUME IInv, ReaderInputRefused, ReaderOnly PROVE IInv'
<1>a. /\ pc = "reader_current"
      /\ pc' = "idle" /\ hand' = NoRun /\ attempts' = <<>> /\ reason' = "none"
      /\ result' \in ReaderInputReasons
      /\ UNCHANGED <<advanced, release, ocr, ocrTemp, ocrCurrent, canonical,
                    canonicalTemp, canonicalCopy, canonicalCurrent, semantic, semanticCurrent,
                    material, materialNext, materialCurrent, moved, scarred>>
  BY DEF ReaderInputRefused, ReaderOnly, Stop, readerVars, ocrVars, canonicalVars,
     candidateVars, Along, Moves
<1>g. /\ ocrTemp = NoRun /\ ocrCurrent \in Formal(ocr) \intersect Made(ocr, release)
      /\ canonicalTemp = NoRun /\ canonicalCopy = NoRun /\ Staged(canonical) = {}
      /\ canonicalCurrent \in Formal(canonical) \intersect Made(canonical, ocrCurrent)
      /\ Staged(semantic) = {}
  BY <1>a, OcrDone, CanonicalDone DEF AfterOcr, AfterCanonical, ReaderPcs, IInv, ReaderInv
<1>1. TypeOK'
  BY <1>a, UnfitTyped, RunsAssumption, ReleasesAssumption DEF IInv, TypeOK, OcrTypeOK,
     CanonicalTypeOK, ReaderTypeOK, CandidateTypeOK, Inputs, Runs, NoRun, Torn, Stages, OcrOutcomes, OcrTransient,
     AttemptKinds, OcrReasons, ReaderReasons, ReaderInputReasons, ReaderAttempts
<1>2. UniqueInv'
  BY <1>a, SameTrees
<1>3. AttemptsInv'
  BY <1>a DEF IInv, AttemptsInv
<1>4. OcrInv'
  BY <1>a, AfterOcrStays DEF AfterOcr, AfterCanonical, ReaderPcs, CandidatePcs, ocrVars
<1>5. CanonicalInv'
  BY <1>a, AfterCanonicalStays DEF AfterCanonical, ReaderPcs, CandidatePcs, canonicalVars
<1>6. ReaderInv'
  BY <1>a DEF IInv, ReaderInv, ReaderMaking, CandidatePcs
<1>7. CandidateInv'
  BY <1>a, BeforeCandidate DEF candidateVars
<1>8. MovedInv'
  BY <1>a, NothingMoves
<1>9. CleanInv'
  <2> SUFFICES ASSUME ~scarred, OcrLeft, PendingIsDownstream,
                      CanonicalLeft, ReaderLeft, CandidateLeft
               PROVE  (/\ OcrLeft /\ PendingIsDownstream
                       /\ CanonicalLeft /\ ReaderLeft /\ CandidateLeft)'
    BY <1>a DEF IInv, CleanInv
  <2>1. OcrLeft'
    BY <1>a, <1>g DEF OcrLeft
  <2>2. PendingIsDownstream'
    BY <1>a DEF PendingIsDownstream, OcrMatches, CanonicalMatches, OfCanonical, Made
  <2>3. CanonicalLeft'
    BY <1>a, <1>g DEF CanonicalLeft, CanonicalPointersUsable, CanonicalTempUsable
  <2>4. ReaderLeft'
    BY <1>a, <1>g DEF ReaderLeft
  <2>5. CandidateLeft'
    BY <1>a DEF CandidateLeft
  <2> QED BY <2>1, <2>2, <2>3, <2>4, <2>5
<1>10. LostOnlyWhenScarred'
  BY <1>a DEF LostOnlyWhenScarred, ReaderInputReasons
<1> QED BY <1>1, <1>2, <1>3, <1>4, <1>5, <1>6, <1>7, <1>8, <1>9, <1>10 DEF IInv

LEMMA ReaderBeginStep == ASSUME IInv, ReaderBegin, ReaderOnly PROVE IInv'
<1>a. /\ pc = "reader_current"
      /\ semanticCurrent = NoRun /\ ReaderMatches = {}
      /\ pc' = "reader_prepare"
      /\ hand' \in Free(semantic) /\ semantic' = Mkdir(semantic, hand', canonicalCurrent)
      /\ UNCHANGED <<attempts, reason, advanced, result, release, ocr,
                    ocrTemp, ocrCurrent, canonical, canonicalTemp, canonicalCopy,
                    canonicalCurrent, semanticCurrent, material, materialNext, materialCurrent,
                    moved, scarred>>
  BY DEF ReaderBegin, ReaderOnly, IsNext, Goto, ocrVars, canonicalVars, candidateVars, Along,
     Moves
<1>g. /\ ocrTemp = NoRun /\ ocrCurrent \in Formal(ocr) \intersect Made(ocr, release)
      /\ canonicalTemp = NoRun /\ canonicalCopy = NoRun /\ Staged(canonical) = {}
      /\ canonicalCurrent \in Formal(canonical) \intersect Made(canonical, ocrCurrent)
      /\ Staged(semantic) = {} /\ Whole(semantic) \subseteq Formal(semantic)
      /\ Made(semantic, canonicalCurrent) = {}
  BY <1>a, OcrDone, CanonicalDone, TreesAre DEF AfterOcr, AfterCanonical, ReaderPcs, IInv,
     ReaderInv, ReaderMatches, Made
<1>s. /\ semantic \in Trees(ReaderStates) /\ canonicalCurrent \in Inputs
      /\ semantic' = Mkdir(semantic, hand', canonicalCurrent)
      /\ "partial" \in ReaderStates /\ hand' \in Free(semantic)
  BY <1>a DEF IInv, TypeOK, ReaderTypeOK, ReaderStates, ReaderMaking, ReaderInv, OcrTypeOK,
     CanonicalTypeOK
<1>t. /\ semantic' \in Trees(ReaderStates)
      /\ Staged(semantic') = Staged(semantic) \union {hand'}
      /\ Formal(semantic') = Formal(semantic) /\ Whole(semantic') = Whole(semantic)
      /\ semantic'[hand'].of = canonicalCurrent /\ semantic'[hand'].state = "partial"
      /\ \A s \in Runs \ {hand'} : semantic'[s] = semantic[s]
      /\ hand' \in Runs \ (Staged(semantic) \union Formal(semantic) \union Whole(semantic))
      /\ \A s \in Whole(semantic) : s \in Runs /\ semantic'[s].of = semantic[s].of
  BY <1>s, MkdirIs
<1>1. TypeOK'
  BY <1>a, UnfitTyped, <1>t DEF IInv, TypeOK, OcrTypeOK, CanonicalTypeOK, ReaderTypeOK,
     CandidateTypeOK,
     Inputs, Runs, NoRun, Torn, OcrPcs, CanonicalPcs, ReaderPcs, CandidatePcs
<1>2. UniqueInv'
  BY <1>a, <1>t DEF IInv, UniqueInv, Unique
<1>3. AttemptsInv'
  BY <1>a DEF IInv, AttemptsInv, OcrPcs, ReaderPcs
<1>4. OcrInv'
  BY <1>a, AfterOcrStays DEF AfterOcr, AfterCanonical, ReaderPcs, CandidatePcs, ocrVars
<1>5. CanonicalInv'
  BY <1>a, AfterCanonicalStays DEF AfterCanonical, ReaderPcs, CandidatePcs, canonicalVars
<1>6. ReaderInv'
  BY <1>a, <1>t, <1>g DEF IInv, ReaderInv, ReaderMaking, CandidatePcs, Made, OfCanonical
<1>7. CandidateInv'
  BY <1>a, BeforeCandidate DEF ReaderPcs, candidateVars
<1>8. MovedInv'
  BY <1>a DEF IInv, MovedInv, OcrPcs, CanonicalPcs, ReaderPcs, CandidatePcs, AdvanceIsReported
<1>9. CleanInv'
  <2> SUFFICES ASSUME ~scarred, OcrLeft, PendingIsDownstream,
                      CanonicalLeft, ReaderLeft, CandidateLeft
               PROVE  (/\ OcrLeft /\ PendingIsDownstream
                       /\ CanonicalLeft /\ ReaderLeft /\ CandidateLeft)'
    BY <1>a DEF IInv, CleanInv
  <2>1. OcrLeft'
    BY <1>a DEF OcrLeft
  <2>2. PendingIsDownstream'
    BY <1>a, <1>g DEF PendingIsDownstream, OcrMatches, CanonicalMatches
  <2>3. CanonicalLeft'
    BY <1>a, <1>g DEF CanonicalLeft, CanonicalPointersUsable, CanonicalTempUsable
  <2>4. ReaderLeft'
    BY <1>a DEF ReaderLeft, ReaderPcs
  <2>5. CandidateLeft'
    BY <1>a DEF CandidateLeft
  <2> QED BY <2>1, <2>2, <2>3, <2>4, <2>5
<1>10. LostOnlyWhenScarred'
  BY <1>a, SameWord
<1> QED BY <1>1, <1>2, <1>3, <1>4, <1>5, <1>6, <1>7, <1>8, <1>9, <1>10 DEF IInv

LEMMA ReaderPrepareStep == ASSUME IInv, ReaderPrepare, ReaderOnly PROVE IInv'
<1>a. /\ pc = "reader_prepare"
      /\ semantic' = Becomes(semantic, hand, "begun")
      /\ pc' \in {"reader_attempt", "reader_stop"}
      /\ reason' \in {"none", "codex_runtime_unavailable"}
      /\ UNCHANGED <<hand, attempts, advanced, result, release, ocr,
                    ocrTemp, ocrCurrent, canonical, canonicalTemp, canonicalCopy,
                    canonicalCurrent, semanticCurrent, material, materialNext, materialCurrent,
                    moved, scarred>>
  BY DEF ReaderPrepare, ReaderOnly, Ends, ocrVars, canonicalVars, candidateVars, Along, Moves
<1>g. /\ ocrTemp = NoRun /\ ocrCurrent \in Formal(ocr) \intersect Made(ocr, release)
      /\ canonicalTemp = NoRun /\ canonicalCopy = NoRun /\ Staged(canonical) = {}
      /\ canonicalCurrent \in Formal(canonical) \intersect Made(canonical, ocrCurrent)
      /\ hand \in Staged(semantic) \ Whole(semantic) /\ Staged(semantic) = {hand}
      /\ semantic[hand].of = canonicalCurrent /\ Made(semantic, canonicalCurrent) = {}
      /\ semanticCurrent = NoRun
  BY <1>a, OcrDone, CanonicalDone DEF AfterOcr, AfterCanonical, ReaderPcs, IInv, ReaderInv,
     ReaderMaking, OfCanonical
<1>s. /\ semantic \in Trees(ReaderStates) /\ hand \in Staged(semantic)
      /\ semantic' = Becomes(semantic, hand, "begun")
      /\ "begun" \in ReaderStates
  BY <1>a DEF IInv, TypeOK, ReaderTypeOK, ReaderStates, ReaderMaking, ReaderInv
<1>t. /\ semantic' \in Trees(ReaderStates)
      /\ Staged(semantic') = Staged(semantic) /\ Formal(semantic') = Formal(semantic)
      /\ Whole(semantic') = Whole(semantic) \ {hand}
      /\ semantic'[hand].state = "begun" /\ \A s \in Runs : semantic'[s].of = semantic[s].of
      /\ \A s \in Runs \ {hand} : semantic'[s] = semantic[s]
      /\ Whole(semantic) \subseteq Runs /\ hand \in Runs
  BY <1>s, BecomesIs
<1>1. TypeOK'
  BY <1>a, UnfitTyped, <1>t DEF IInv, TypeOK, OcrTypeOK, CanonicalTypeOK, ReaderTypeOK,
     CandidateTypeOK,
     OcrPcs, CanonicalPcs, ReaderPcs, CandidatePcs, Stages, OcrOutcomes, OcrTransient,
     AttemptKinds,
     OcrReasons, ReaderReasons, ReaderAttempts
<1>2. UniqueInv'
  BY <1>a, <1>t DEF IInv, UniqueInv, Unique
<1>3. AttemptsInv'
  BY <1>a DEF IInv, AttemptsInv, OcrAttempts, ReaderAttempts, OcrPcs, ReaderPcs
<1>4. OcrInv'
  BY <1>a, AfterOcrStays DEF AfterOcr, AfterCanonical, ReaderPcs, CandidatePcs, ocrVars
<1>5. CanonicalInv'
  BY <1>a, AfterCanonicalStays DEF AfterCanonical, ReaderPcs, CandidatePcs, canonicalVars
<1>6. ReaderInv'
  BY <1>a, <1>t DEF IInv, ReaderInv, ReaderMaking, CandidatePcs, Made, OfCanonical
<1>7. CandidateInv'
  BY <1>a, BeforeCandidate DEF ReaderPcs, candidateVars
<1>8. MovedInv'
  BY <1>a DEF IInv, MovedInv, OcrPcs, CanonicalPcs, ReaderPcs, CandidatePcs, AdvanceIsReported
<1>9. CleanInv'
  <2> SUFFICES ASSUME ~scarred, OcrLeft, PendingIsDownstream,
                      CanonicalLeft, ReaderLeft, CandidateLeft
               PROVE  (/\ OcrLeft /\ PendingIsDownstream
                       /\ CanonicalLeft /\ ReaderLeft /\ CandidateLeft)'
    BY <1>a DEF IInv, CleanInv
  <2>1. OcrLeft'
    BY <1>a DEF OcrLeft
  <2>2. PendingIsDownstream'
    BY <1>a, <1>g DEF PendingIsDownstream, OcrMatches, CanonicalMatches
  <2>3. CanonicalLeft'
    BY <1>a, <1>g DEF CanonicalLeft, CanonicalPointersUsable, CanonicalTempUsable
  <2>4. ReaderLeft'
    BY <1>a, <1>t, <1>g DEF ReaderLeft, ReaderInterruptible, OfCanonical
  <2>5. CandidateLeft'
    BY <1>a DEF CandidateLeft
  <2> QED BY <2>1, <2>2, <2>3, <2>4, <2>5
<1>10. LostOnlyWhenScarred'
  BY <1>a, SameWord
<1> QED BY <1>1, <1>2, <1>3, <1>4, <1>5, <1>6, <1>7, <1>8, <1>9, <1>10 DEF IInv

LEMMA ReaderRefusedStep == ASSUME IInv, ReaderRefused, ReaderOnly PROVE IInv'
<1>a. /\ pc = "reader_attempt"
      /\ pc' = "reader_stop" /\ reason' = "codex_runtime_unavailable"
      /\ UNCHANGED <<hand, attempts, advanced, result, release, ocr,
                    ocrTemp, ocrCurrent, canonical, canonicalTemp, canonicalCopy,
                    canonicalCurrent, semantic, semanticCurrent, material, materialNext,
                    materialCurrent, moved, scarred>>
  BY DEF ReaderRefused, ReaderOnly, Ends, readerVars, ocrVars, canonicalVars, candidateVars,
     Along, Moves
<1>g. /\ ocrTemp = NoRun /\ ocrCurrent \in Formal(ocr) \intersect Made(ocr, release)
      /\ canonicalTemp = NoRun /\ canonicalCopy = NoRun /\ Staged(canonical) = {}
      /\ canonicalCurrent \in Formal(canonical) \intersect Made(canonical, ocrCurrent)
      /\ hand \in Staged(semantic) \ Whole(semantic) /\ Staged(semantic) = {hand}
      /\ semantic[hand].of = canonicalCurrent /\ Made(semantic, canonicalCurrent) = {}
      /\ semanticCurrent = NoRun
  BY <1>a, OcrDone, CanonicalDone DEF AfterOcr, AfterCanonical, ReaderPcs, IInv, ReaderInv,
     ReaderMaking, OfCanonical
<1>1. TypeOK'
  BY <1>a, UnfitTyped DEF IInv, TypeOK, OcrTypeOK, CanonicalTypeOK, ReaderTypeOK,
     CandidateTypeOK, OcrPcs,
     CanonicalPcs, ReaderPcs, CandidatePcs, Stages, OcrOutcomes, OcrTransient, AttemptKinds,
     OcrReasons, ReaderReasons, ReaderAttempts
<1>2. UniqueInv'
  BY <1>a, SameTrees
<1>3. AttemptsInv'
  BY <1>a DEF IInv, AttemptsInv, OcrPcs, ReaderPcs
<1>4. OcrInv'
  BY <1>a, AfterOcrStays DEF AfterOcr, AfterCanonical, ReaderPcs, CandidatePcs, ocrVars
<1>5. CanonicalInv'
  BY <1>a, AfterCanonicalStays DEF AfterCanonical, ReaderPcs, CandidatePcs, canonicalVars
<1>6. ReaderInv'
  BY <1>a DEF IInv, ReaderInv, ReaderMaking, CandidatePcs, Made, OfCanonical
<1>7. CandidateInv'
  BY <1>a, BeforeCandidate DEF ReaderPcs, candidateVars
<1>8. MovedInv'
  BY <1>a DEF IInv, MovedInv, OcrPcs, CanonicalPcs, ReaderPcs, CandidatePcs, AdvanceIsReported
<1>9. CleanInv'
  BY <1>a DEF IInv, CleanInv, OcrLeft, PendingIsDownstream, CanonicalLeft, ReaderLeft,
     CandidateLeft, OcrTempUsable, OcrMatches, CanonicalMatches, CanonicalPcs, ReaderPcs,
     CanonicalPointersUsable, CanonicalTempUsable, ReaderInterruptible, OfCanonical, Made
<1>10. LostOnlyWhenScarred'
  BY <1>a, SameWord
<1> QED BY <1>1, <1>2, <1>3, <1>4, <1>5, <1>6, <1>7, <1>8, <1>9, <1>10 DEF IInv

LEMMA ReaderAttemptStep == ASSUME IInv, ReaderAttempt, ReaderOnly PROVE IInv'
<1>a. /\ pc = "reader_attempt"
      /\ \E kind \in AttemptKinds : attempts' = Append(attempts, kind)
      /\ semantic' = Becomes(semantic, hand, "partial")
      /\ pc' = "reader_record" /\ reason' = "none"
      /\ UNCHANGED <<hand, advanced, result, release, ocr, ocrTemp,
                    ocrCurrent, canonical, canonicalTemp, canonicalCopy, canonicalCurrent,
                    semanticCurrent, material, materialNext, materialCurrent, moved, scarred>>
  BY DEF ReaderAttempt, ReaderOnly, Ends, ocrVars, canonicalVars, candidateVars, Along, Moves
<1>g. /\ ocrTemp = NoRun /\ ocrCurrent \in Formal(ocr) \intersect Made(ocr, release)
      /\ canonicalTemp = NoRun /\ canonicalCopy = NoRun /\ Staged(canonical) = {}
      /\ canonicalCurrent \in Formal(canonical) \intersect Made(canonical, ocrCurrent)
      /\ hand \in Staged(semantic) \ Whole(semantic) /\ Staged(semantic) = {hand}
      /\ semantic[hand].of = canonicalCurrent /\ Made(semantic, canonicalCurrent) = {}
      /\ semanticCurrent = NoRun
  BY <1>a, OcrDone, CanonicalDone DEF AfterOcr, AfterCanonical, ReaderPcs, IInv, ReaderInv,
     ReaderMaking, OfCanonical
<1>s. /\ semantic \in Trees(ReaderStates) /\ hand \in Staged(semantic)
      /\ semantic' = Becomes(semantic, hand, "partial")
      /\ "partial" \in ReaderStates
  BY <1>a DEF IInv, TypeOK, ReaderTypeOK, ReaderStates, ReaderMaking, ReaderInv
<1>t. /\ semantic' \in Trees(ReaderStates)
      /\ Staged(semantic') = Staged(semantic) /\ Formal(semantic') = Formal(semantic)
      /\ Whole(semantic') = Whole(semantic) \ {hand}
      /\ semantic'[hand].state = "partial" /\ \A s \in Runs : semantic'[s].of = semantic[s].of
      /\ \A s \in Runs \ {hand} : semantic'[s] = semantic[s]
      /\ Whole(semantic) \subseteq Runs /\ hand \in Runs
  BY <1>s, BecomesIs
<1>1. TypeOK'
  <2> PICK kind \in AttemptKinds : attempts' = Append(attempts, kind)
    BY <1>a, UnfitTyped
  <2>1. attempts \in Seq(OcrOutcomes \union AttemptKinds) /\ Len(attempts) < ReaderAttempts
    BY <1>a, UnfitTyped DEF IInv, TypeOK, AttemptsInv
  <2>2. attempts' \in Seq(OcrOutcomes \union AttemptKinds) /\ Len(attempts') <= ReaderAttempts
    BY <2>1 DEF ReaderAttempts
  <2> QED BY <1>a, UnfitTyped, <1>t, <2>2 DEF IInv, TypeOK, OcrTypeOK, CanonicalTypeOK,
     ReaderTypeOK,
             CandidateTypeOK, ReaderPcs
<1>2. UniqueInv'
  BY <1>a, <1>t DEF IInv, UniqueInv, Unique
<1>3. AttemptsInv'
  BY <1>a DEF IInv, AttemptsInv, OcrPcs, ReaderPcs
<1>4. OcrInv'
  BY <1>a, AfterOcrStays DEF AfterOcr, AfterCanonical, ReaderPcs, CandidatePcs, ocrVars
<1>5. CanonicalInv'
  BY <1>a, AfterCanonicalStays DEF AfterCanonical, ReaderPcs, CandidatePcs, canonicalVars
<1>6. ReaderInv'
  BY <1>a, <1>t DEF IInv, ReaderInv, ReaderMaking, CandidatePcs, Made, OfCanonical
<1>7. CandidateInv'
  BY <1>a, BeforeCandidate DEF ReaderPcs, candidateVars
<1>8. MovedInv'
  BY <1>a DEF IInv, MovedInv, OcrPcs, CanonicalPcs, ReaderPcs, CandidatePcs, AdvanceIsReported
<1>9. CleanInv'
  <2> SUFFICES ASSUME ~scarred, OcrLeft, PendingIsDownstream,
                      CanonicalLeft, ReaderLeft, CandidateLeft
               PROVE  (/\ OcrLeft /\ PendingIsDownstream
                       /\ CanonicalLeft /\ ReaderLeft /\ CandidateLeft)'
    BY <1>a DEF IInv, CleanInv
  <2>1. OcrLeft'
    BY <1>a DEF OcrLeft
  <2>2. PendingIsDownstream'
    BY <1>a, <1>g DEF PendingIsDownstream, OcrMatches, CanonicalMatches
  <2>3. CanonicalLeft'
    BY <1>a, <1>g DEF CanonicalLeft, CanonicalPointersUsable, CanonicalTempUsable
  <2>4. ReaderLeft'
    BY <1>a DEF ReaderLeft, ReaderPcs
  <2>5. CandidateLeft'
    BY <1>a DEF CandidateLeft
  <2> QED BY <2>1, <2>2, <2>3, <2>4, <2>5
<1>10. LostOnlyWhenScarred'
  BY <1>a, SameWord
<1> QED BY <1>1, <1>2, <1>3, <1>4, <1>5, <1>6, <1>7, <1>8, <1>9, <1>10 DEF IInv

LEMMA ReaderRecordStep == ASSUME IInv, ReaderRecord, ReaderOnly PROVE IInv'
<1>a. /\ pc = "reader_record"
      /\ semantic' = Becomes(semantic, hand, "begun")
      /\ pc' \in {"reader_attempt", "reader_stop", "reader_result"}
      /\ pc' = "reader_attempt" => Len(attempts) < ReaderAttempts
      /\ reason' \in {"none"} \union ReaderReasons
      /\ UNCHANGED <<hand, attempts, advanced, result, release, ocr,
                    ocrTemp, ocrCurrent, canonical, canonicalTemp, canonicalCopy,
                    canonicalCurrent, semanticCurrent, material, materialNext, materialCurrent,
                    moved, scarred>>
  BY DEF ReaderRecord, ReaderOnly, Ends, ocrVars, canonicalVars, candidateVars, Along, Moves,
     ReaderReasons
<1>g. /\ ocrTemp = NoRun /\ ocrCurrent \in Formal(ocr) \intersect Made(ocr, release)
      /\ canonicalTemp = NoRun /\ canonicalCopy = NoRun /\ Staged(canonical) = {}
      /\ canonicalCurrent \in Formal(canonical) \intersect Made(canonical, ocrCurrent)
      /\ hand \in Staged(semantic) \ Whole(semantic) /\ Staged(semantic) = {hand}
      /\ semantic[hand].of = canonicalCurrent /\ Made(semantic, canonicalCurrent) = {}
      /\ semanticCurrent = NoRun
  BY <1>a, OcrDone, CanonicalDone DEF AfterOcr, AfterCanonical, ReaderPcs, IInv, ReaderInv,
     ReaderMaking, OfCanonical
<1>s. /\ semantic \in Trees(ReaderStates) /\ hand \in Staged(semantic)
      /\ semantic' = Becomes(semantic, hand, "begun")
      /\ "begun" \in ReaderStates
  BY <1>a DEF IInv, TypeOK, ReaderTypeOK, ReaderStates, ReaderMaking, ReaderInv
<1>t. /\ semantic' \in Trees(ReaderStates)
      /\ Staged(semantic') = Staged(semantic) /\ Formal(semantic') = Formal(semantic)
      /\ Whole(semantic') = Whole(semantic) \ {hand}
      /\ semantic'[hand].state = "begun" /\ \A s \in Runs : semantic'[s].of = semantic[s].of
      /\ \A s \in Runs \ {hand} : semantic'[s] = semantic[s]
      /\ Whole(semantic) \subseteq Runs /\ hand \in Runs
  BY <1>s, BecomesIs
<1>1. TypeOK'
  BY <1>a, UnfitTyped, <1>t DEF IInv, TypeOK, OcrTypeOK, CanonicalTypeOK, ReaderTypeOK,
     CandidateTypeOK,
     OcrPcs, CanonicalPcs, ReaderPcs, CandidatePcs
<1>2. UniqueInv'
  BY <1>a, <1>t DEF IInv, UniqueInv, Unique
<1>3. AttemptsInv'
  BY <1>a DEF IInv, AttemptsInv, OcrPcs, ReaderPcs
<1>4. OcrInv'
  BY <1>a, AfterOcrStays DEF AfterOcr, AfterCanonical, ReaderPcs, CandidatePcs, ocrVars
<1>5. CanonicalInv'
  BY <1>a, AfterCanonicalStays DEF AfterCanonical, ReaderPcs, CandidatePcs, canonicalVars
<1>6. ReaderInv'
  BY <1>a, <1>t DEF IInv, ReaderInv, ReaderMaking, CandidatePcs, Made, OfCanonical
<1>7. CandidateInv'
  BY <1>a, BeforeCandidate DEF ReaderPcs, candidateVars
<1>8. MovedInv'
  BY <1>a DEF IInv, MovedInv, OcrPcs, CanonicalPcs, ReaderPcs, CandidatePcs, AdvanceIsReported
<1>9. CleanInv'
  <2> SUFFICES ASSUME ~scarred, OcrLeft, PendingIsDownstream,
                      CanonicalLeft, ReaderLeft, CandidateLeft
               PROVE  (/\ OcrLeft /\ PendingIsDownstream
                       /\ CanonicalLeft /\ ReaderLeft /\ CandidateLeft)'
    BY <1>a DEF IInv, CleanInv
  <2>1. OcrLeft'
    BY <1>a DEF OcrLeft
  <2>2. PendingIsDownstream'
    BY <1>a, <1>g DEF PendingIsDownstream, OcrMatches, CanonicalMatches
  <2>3. CanonicalLeft'
    BY <1>a, <1>g DEF CanonicalLeft, CanonicalPointersUsable, CanonicalTempUsable
  <2>4. ReaderLeft'
    BY <1>a, <1>t, <1>g DEF ReaderLeft, ReaderInterruptible, OfCanonical
  <2>5. CandidateLeft'
    BY <1>a DEF CandidateLeft
  <2> QED BY <2>1, <2>2, <2>3, <2>4, <2>5
<1>10. LostOnlyWhenScarred'
  BY <1>a, SameWord
<1> QED BY <1>1, <1>2, <1>3, <1>4, <1>5, <1>6, <1>7, <1>8, <1>9, <1>10 DEF IInv

LEMMA ReaderStopStep == ASSUME IInv, ReaderStop, ReaderOnly PROVE IInv'
<1>a. /\ pc = "reader_stop"
      /\ pc' = "reader_stopped"
      /\ semantic' = Becomes(semantic, hand, "terminal")
      /\ UNCHANGED <<hand, attempts, reason, advanced, result, release, ocr,
                    ocrTemp, ocrCurrent, canonical, canonicalTemp, canonicalCopy,
                    canonicalCurrent, semanticCurrent, material, materialNext, materialCurrent,
                    moved, scarred>>
  BY DEF ReaderStop, ReaderOnly, Goto, ocrVars, canonicalVars, candidateVars, Along, Moves
<1>g. /\ ocrTemp = NoRun /\ ocrCurrent \in Formal(ocr) \intersect Made(ocr, release)
      /\ canonicalTemp = NoRun /\ canonicalCopy = NoRun /\ Staged(canonical) = {}
      /\ canonicalCurrent \in Formal(canonical) \intersect Made(canonical, ocrCurrent)
      /\ hand \in Staged(semantic) \ Whole(semantic) /\ Staged(semantic) = {hand}
      /\ semantic[hand].of = canonicalCurrent /\ Made(semantic, canonicalCurrent) = {}
      /\ semanticCurrent = NoRun
  BY <1>a, OcrDone, CanonicalDone DEF AfterOcr, AfterCanonical, ReaderPcs, IInv, ReaderInv,
     ReaderMaking, OfCanonical
<1>s. /\ semantic \in Trees(ReaderStates) /\ hand \in Staged(semantic)
      /\ semantic' = Becomes(semantic, hand, "terminal")
      /\ "terminal" \in ReaderStates
  BY <1>a DEF IInv, TypeOK, ReaderTypeOK, ReaderStates, ReaderMaking, ReaderInv
<1>t. /\ semantic' \in Trees(ReaderStates)
      /\ Staged(semantic') = Staged(semantic) /\ Formal(semantic') = Formal(semantic)
      /\ Whole(semantic') = Whole(semantic) \ {hand}
      /\ semantic'[hand].state = "terminal" /\ \A s \in Runs : semantic'[s].of = semantic[s].of
      /\ \A s \in Runs \ {hand} : semantic'[s] = semantic[s]
      /\ Whole(semantic) \subseteq Runs /\ hand \in Runs
  BY <1>s, BecomesIs
<1>1. TypeOK'
  BY <1>a, UnfitTyped, <1>t DEF IInv, TypeOK, OcrTypeOK, CanonicalTypeOK, ReaderTypeOK,
     CandidateTypeOK,
     OcrPcs, CanonicalPcs, ReaderPcs, CandidatePcs
<1>2. UniqueInv'
  BY <1>a, <1>t DEF IInv, UniqueInv, Unique
<1>3. AttemptsInv'
  BY <1>a DEF IInv, AttemptsInv, OcrPcs, ReaderPcs
<1>4. OcrInv'
  BY <1>a, AfterOcrStays DEF AfterOcr, AfterCanonical, ReaderPcs, CandidatePcs, ocrVars
<1>5. CanonicalInv'
  BY <1>a, AfterCanonicalStays DEF AfterCanonical, ReaderPcs, CandidatePcs, canonicalVars
<1>6. ReaderInv'
  BY <1>a, <1>t DEF IInv, ReaderInv, ReaderMaking, CandidatePcs
<1>7. CandidateInv'
  BY <1>a, BeforeCandidate DEF ReaderPcs, candidateVars
<1>8. MovedInv'
  BY <1>a DEF IInv, MovedInv, OcrPcs, CanonicalPcs, ReaderPcs, CandidatePcs, AdvanceIsReported
<1>9. CleanInv'
  <2> SUFFICES ASSUME ~scarred, OcrLeft, PendingIsDownstream,
                      CanonicalLeft, ReaderLeft, CandidateLeft
               PROVE  (/\ OcrLeft /\ PendingIsDownstream
                       /\ CanonicalLeft /\ ReaderLeft /\ CandidateLeft)'
    BY <1>a DEF IInv, CleanInv
  <2>1. OcrLeft'
    BY <1>a DEF OcrLeft
  <2>2. PendingIsDownstream'
    BY <1>a, <1>g DEF PendingIsDownstream, OcrMatches, CanonicalMatches
  <2>3. CanonicalLeft'
    BY <1>a, <1>g DEF CanonicalLeft, CanonicalPointersUsable, CanonicalTempUsable
  <2>4. ReaderLeft'
    BY <1>a DEF ReaderLeft, ReaderPcs
  <2>5. CandidateLeft'
    BY <1>a DEF CandidateLeft
  <2> QED BY <2>1, <2>2, <2>3, <2>4, <2>5
<1>10. LostOnlyWhenScarred'
  BY <1>a, SameWord
<1> QED BY <1>1, <1>2, <1>3, <1>4, <1>5, <1>6, <1>7, <1>8, <1>9, <1>10 DEF IInv

LEMMA ReaderStoppedStep == ASSUME IInv, ReaderStopped, ReaderOnly PROVE IInv'
<1>a. /\ pc = "reader_stopped"
      /\ pc' = "idle" /\ hand' = NoRun /\ attempts' = <<>> /\ reason' = "none"
      /\ result' = reason
      /\ semantic' = Renamed(semantic, hand)
      /\ UNCHANGED <<advanced, release, ocr, ocrTemp, ocrCurrent, canonical,
                    canonicalTemp, canonicalCopy, canonicalCurrent, semanticCurrent, material,
                    materialNext, materialCurrent, moved, scarred>>
  BY DEF ReaderStopped, ReaderOnly, Stop, ocrVars, canonicalVars, candidateVars, Along, Moves
<1>g. /\ ocrTemp = NoRun /\ ocrCurrent \in Formal(ocr) \intersect Made(ocr, release)
      /\ canonicalTemp = NoRun /\ canonicalCopy = NoRun /\ Staged(canonical) = {}
      /\ canonicalCurrent \in Formal(canonical) \intersect Made(canonical, ocrCurrent)
      /\ Staged(semantic) = {hand} /\ semanticCurrent = NoRun
  BY <1>a, OcrDone, CanonicalDone DEF AfterOcr, AfterCanonical, ReaderPcs, IInv, ReaderInv,
     ReaderMaking
<1>s. /\ semantic \in Trees(ReaderStates) /\ hand \in Staged(semantic)
      /\ semantic' = Renamed(semantic, hand)
  BY <1>a DEF IInv, TypeOK, ReaderTypeOK, ReaderStates, ReaderMaking, ReaderInv
<1>t. /\ semantic' \in Trees(ReaderStates)
      /\ Staged(semantic') = Staged(semantic) \ {hand}
      /\ Formal(semantic') = Formal(semantic) \union {hand}
      /\ Whole(semantic') = Whole(semantic)
      /\ \A s \in Runs : semantic'[s].of = semantic[s].of /\ semantic'[s].state = semantic[s].state
      /\ Whole(semantic) \subseteq Runs /\ hand \in Runs
  BY <1>s, RenamedIs
<1>1. TypeOK'
  BY <1>a, UnfitTyped, <1>t, <1>g DEF IInv, TypeOK, OcrTypeOK, CanonicalTypeOK, ReaderTypeOK,
     CandidateTypeOK,
     Stages, OcrOutcomes, OcrTransient, AttemptKinds, OcrReasons, ReaderReasons, ReaderAttempts
<1>2. UniqueInv'
  BY <1>a, <1>t DEF IInv, UniqueInv, Unique
<1>3. AttemptsInv'
  BY <1>a DEF IInv, AttemptsInv
<1>4. OcrInv'
  BY <1>a, AfterOcrStays DEF AfterOcr, AfterCanonical, ReaderPcs, CandidatePcs, ocrVars
<1>5. CanonicalInv'
  BY <1>a, AfterCanonicalStays DEF AfterCanonical, ReaderPcs, CandidatePcs, canonicalVars
<1>6. ReaderInv'
  BY <1>a, <1>t DEF IInv, ReaderInv, ReaderMaking, CandidatePcs
<1>7. CandidateInv'
  BY <1>a, BeforeCandidate DEF candidateVars
<1>8. MovedInv'
  BY <1>a, NothingMoves
<1>9. CleanInv'
  <2> SUFFICES ASSUME ~scarred, OcrLeft, PendingIsDownstream,
                      CanonicalLeft, ReaderLeft, CandidateLeft
               PROVE  (/\ OcrLeft /\ PendingIsDownstream
                       /\ CanonicalLeft /\ ReaderLeft /\ CandidateLeft)'
    BY <1>a DEF IInv, CleanInv
  <2>1. OcrLeft'
    BY <1>a, <1>g DEF OcrLeft
  <2>2. PendingIsDownstream'
    BY <1>a, <1>g DEF PendingIsDownstream, OcrMatches, CanonicalMatches
  <2>3. CanonicalLeft'
    BY <1>a, <1>g DEF CanonicalLeft, CanonicalPointersUsable, CanonicalTempUsable
  <2>4. ReaderLeft'
    BY <1>a, <1>t, <1>g DEF ReaderLeft
  <2>5. CandidateLeft'
    BY <1>a DEF CandidateLeft
  <2> QED BY <2>1, <2>2, <2>3, <2>4, <2>5
<1>10. LostOnlyWhenScarred'
  BY <1>a, OtherWord, Reasons DEF IInv
<1> QED BY <1>1, <1>2, <1>3, <1>4, <1>5, <1>6, <1>7, <1>8, <1>9, <1>10 DEF IInv

LEMMA ReaderResultStep == ASSUME IInv, ReaderResult, ReaderOnly PROVE IInv'
<1>a. /\ pc = "reader_result"
      /\ \/ pc' = "reader_result" /\ semantic' = Becomes(semantic, hand, "partial")
         \/ pc' = "reader_commit" /\ semantic' = Becomes(semantic, hand, "succeeded")
      /\ UNCHANGED <<hand, attempts, reason, advanced, result, release, ocr,
                    ocrTemp, ocrCurrent, canonical, canonicalTemp, canonicalCopy,
                    canonicalCurrent, semanticCurrent, material, materialNext, materialCurrent,
                    moved, scarred>>
  BY DEF ReaderResult, ReaderOnly, Goto, ocrVars, canonicalVars, candidateVars, Along, Moves
<1>g. /\ ocrTemp = NoRun /\ ocrCurrent \in Formal(ocr) \intersect Made(ocr, release)
      /\ canonicalTemp = NoRun /\ canonicalCopy = NoRun /\ Staged(canonical) = {}
      /\ canonicalCurrent \in Formal(canonical) \intersect Made(canonical, ocrCurrent)
      /\ hand \in Staged(semantic) \ Whole(semantic) /\ Staged(semantic) = {hand}
      /\ semantic[hand].of = canonicalCurrent /\ Made(semantic, canonicalCurrent) = {}
      /\ semanticCurrent = NoRun
  BY <1>a, OcrDone, CanonicalDone DEF AfterOcr, AfterCanonical, ReaderPcs, IInv, ReaderInv,
     ReaderMaking, OfCanonical
<1>s. semantic \in Trees(ReaderStates) /\ "partial" \in ReaderStates /\ "succeeded" \in ReaderStates
  BY DEF IInv, TypeOK, ReaderTypeOK, ReaderStates
<1>t. /\ semantic' \in Trees(ReaderStates)
      /\ Staged(semantic') = Staged(semantic) /\ Formal(semantic') = Formal(semantic)
      /\ \A s \in Runs : semantic'[s].of = semantic[s].of
      /\ Whole(semantic) \subseteq Runs /\ hand \in Runs
      /\ pc' = "reader_result" => /\ Whole(semantic') = Whole(semantic)
                                  /\ semantic'[hand].state = "partial"
      /\ pc' = "reader_commit" => Whole(semantic') = Whole(semantic) \union {hand}
  <2>1. CASE pc' = "reader_result" /\ semantic' = Becomes(semantic, hand, "partial")
    <3>1. Whole(semantic') = Whole(semantic) \ {hand} /\ hand \notin Whole(semantic)
      BY <1>g, <1>s, <2>1, BecomesIs
    <3>2. /\ semantic' \in Trees(ReaderStates)
          /\ Staged(semantic') = Staged(semantic) /\ Formal(semantic') = Formal(semantic)
          /\ semantic'[hand].state = "partial" /\ \A s \in Runs : semantic'[s].of = semantic[s].of
          /\ Whole(semantic) \subseteq Runs /\ hand \in Runs
      BY <1>g, <1>s, <2>1, BecomesIs
    <3> QED BY <2>1, <3>1, <3>2
  <2>2. CASE pc' = "reader_commit" /\ semantic' = Becomes(semantic, hand, "succeeded")
    BY <1>g, <1>s, <2>2, BecomesIs
  <2> QED BY <1>a, <2>1, <2>2
<1>1. TypeOK'
  BY <1>a, UnfitTyped, <1>t DEF IInv, TypeOK, OcrTypeOK, CanonicalTypeOK, ReaderTypeOK,
     CandidateTypeOK,
     OcrPcs, CanonicalPcs, ReaderPcs, CandidatePcs
<1>2. UniqueInv'
  BY <1>a, <1>t, <1>g DEF IInv, UniqueInv, Unique, Made
<1>3. AttemptsInv'
  BY <1>a DEF IInv, AttemptsInv, OcrPcs, ReaderPcs
<1>4. OcrInv'
  BY <1>a, AfterOcrStays DEF AfterOcr, AfterCanonical, ReaderPcs, CandidatePcs, ocrVars
<1>5. CanonicalInv'
  BY <1>a, AfterCanonicalStays DEF AfterCanonical, ReaderPcs, CandidatePcs, canonicalVars
<1>6. ReaderInv'
  BY <1>a, <1>t DEF IInv, ReaderInv, ReaderMaking, CandidatePcs, Made, OfCanonical
<1>7. CandidateInv'
  BY <1>a, BeforeCandidate DEF ReaderPcs, candidateVars
<1>8. MovedInv'
  BY <1>a DEF IInv, MovedInv, OcrPcs, CanonicalPcs, ReaderPcs, CandidatePcs, AdvanceIsReported
<1>9. CleanInv'
  <2> SUFFICES ASSUME ~scarred, OcrLeft, PendingIsDownstream,
                      CanonicalLeft, ReaderLeft, CandidateLeft
               PROVE  (/\ OcrLeft /\ PendingIsDownstream
                       /\ CanonicalLeft /\ ReaderLeft /\ CandidateLeft)'
    BY <1>a DEF IInv, CleanInv
  <2>1. OcrLeft'
    BY <1>a DEF OcrLeft
  <2>2. PendingIsDownstream'
    BY <1>a, <1>g DEF PendingIsDownstream, OcrMatches, CanonicalMatches
  <2>3. CanonicalLeft'
    BY <1>a, <1>g DEF CanonicalLeft, CanonicalPointersUsable, CanonicalTempUsable
  <2>4. ReaderLeft'
    BY <1>a DEF ReaderLeft, ReaderPcs
  <2>5. CandidateLeft'
    BY <1>a DEF CandidateLeft
  <2> QED BY <2>1, <2>2, <2>3, <2>4, <2>5
<1>10. LostOnlyWhenScarred'
  BY <1>a, SameWord
<1> QED BY <1>1, <1>2, <1>3, <1>4, <1>5, <1>6, <1>7, <1>8, <1>9, <1>10 DEF IInv

LEMMA ReaderCommitStep == ASSUME IInv, ReaderCommit, ReaderOnly PROVE IInv'
<1>a. /\ pc = "reader_commit"
      /\ pc' = "reader_replace"
      /\ semantic' = Renamed(semantic, hand)
      /\ UNCHANGED <<hand, attempts, reason, advanced, result, release, ocr,
                    ocrTemp, ocrCurrent, canonical, canonicalTemp, canonicalCopy,
                    canonicalCurrent, semanticCurrent, material, materialNext, materialCurrent,
                    moved, scarred>>
  BY DEF ReaderCommit, ReaderOnly, Goto, ocrVars, canonicalVars, candidateVars, Along, Moves
<1>g. /\ ocrTemp = NoRun /\ ocrCurrent \in Formal(ocr) \intersect Made(ocr, release)
      /\ canonicalTemp = NoRun /\ canonicalCopy = NoRun /\ Staged(canonical) = {}
      /\ canonicalCurrent \in Formal(canonical) \intersect Made(canonical, ocrCurrent)
      /\ Staged(semantic) = {hand} /\ semanticCurrent = NoRun
      /\ hand \in Made(semantic, canonicalCurrent)
  BY <1>a, OcrDone, CanonicalDone DEF AfterOcr, AfterCanonical, ReaderPcs, IInv, ReaderInv,
     ReaderMaking
<1>s. /\ semantic \in Trees(ReaderStates) /\ hand \in Staged(semantic)
      /\ semantic' = Renamed(semantic, hand)
  BY <1>a DEF IInv, TypeOK, ReaderTypeOK, ReaderStates, ReaderMaking, ReaderInv
<1>t. /\ semantic' \in Trees(ReaderStates)
      /\ Staged(semantic') = Staged(semantic) \ {hand}
      /\ Formal(semantic') = Formal(semantic) \union {hand}
      /\ Whole(semantic') = Whole(semantic)
      /\ \A s \in Runs : semantic'[s].of = semantic[s].of /\ semantic'[s].state = semantic[s].state
      /\ Whole(semantic) \subseteq Runs /\ hand \in Runs
  BY <1>s, RenamedIs
<1>1. TypeOK'
  BY <1>a, UnfitTyped, <1>t DEF IInv, TypeOK, OcrTypeOK, CanonicalTypeOK, ReaderTypeOK,
     CandidateTypeOK,
     OcrPcs, CanonicalPcs, ReaderPcs, CandidatePcs
<1>2. UniqueInv'
  BY <1>a, <1>t DEF IInv, UniqueInv, Unique
<1>3. AttemptsInv'
  BY <1>a DEF IInv, AttemptsInv, OcrPcs, ReaderPcs
<1>4. OcrInv'
  BY <1>a, AfterOcrStays DEF AfterOcr, AfterCanonical, ReaderPcs, CandidatePcs, ocrVars
<1>5. CanonicalInv'
  BY <1>a, AfterCanonicalStays DEF AfterCanonical, ReaderPcs, CandidatePcs, canonicalVars
<1>6. ReaderInv'
  BY <1>a, <1>t DEF IInv, ReaderInv, ReaderMaking, CandidatePcs, Made, OfCanonical
<1>7. CandidateInv'
  BY <1>a, BeforeCandidate DEF ReaderPcs, candidateVars
<1>8. MovedInv'
  BY <1>a DEF IInv, MovedInv, OcrPcs, CanonicalPcs, ReaderPcs, CandidatePcs, AdvanceIsReported
<1>9. CleanInv'
  <2> SUFFICES ASSUME ~scarred, OcrLeft, PendingIsDownstream,
                      CanonicalLeft, ReaderLeft, CandidateLeft
               PROVE  (/\ OcrLeft /\ PendingIsDownstream
                       /\ CanonicalLeft /\ ReaderLeft /\ CandidateLeft)'
    BY <1>a DEF IInv, CleanInv
  <2>1. OcrLeft'
    BY <1>a DEF OcrLeft
  <2>2. PendingIsDownstream'
    BY <1>a, <1>g DEF PendingIsDownstream, OcrMatches, CanonicalMatches
  <2>3. CanonicalLeft'
    BY <1>a, <1>g DEF CanonicalLeft, CanonicalPointersUsable, CanonicalTempUsable
  <2>4. ReaderLeft'
    BY <1>a, <1>t, <1>g DEF ReaderLeft
  <2>5. CandidateLeft'
    BY <1>a DEF CandidateLeft
  <2> QED BY <2>1, <2>2, <2>3, <2>4, <2>5
<1>10. LostOnlyWhenScarred'
  BY <1>a, SameWord
<1> QED BY <1>1, <1>2, <1>3, <1>4, <1>5, <1>6, <1>7, <1>8, <1>9, <1>10 DEF IInv

LEMMA ReaderReplaceStep == ASSUME IInv, ReaderReplace, ReaderOnly PROVE IInv'
<1>a. /\ pc = "reader_replace"
      /\ pc' = "candidate" /\ hand' = NoRun /\ attempts' = <<>> /\ reason' = "none"
      /\ semanticCurrent' = hand
      /\ moved' = moved \union {"reader"}
      /\ UNCHANGED <<advanced, result, release, ocr, ocrTemp, ocrCurrent,
                    canonical, canonicalTemp, canonicalCopy, canonicalCurrent, semantic,
                    material, materialNext, materialCurrent, scarred>>
  BY DEF ReaderReplace, ReaderOnly, HandOver, ocrVars, canonicalVars, candidateVars, Along, Moves
<1>g. /\ ocrTemp = NoRun /\ ocrCurrent \in Formal(ocr) \intersect Made(ocr, release)
      /\ canonicalTemp = NoRun /\ canonicalCopy = NoRun /\ Staged(canonical) = {}
      /\ canonicalCurrent \in Formal(canonical) \intersect Made(canonical, ocrCurrent)
      /\ Staged(semantic) = {} /\ semanticCurrent = NoRun
      /\ hand \in Formal(semantic) \intersect Made(semantic, canonicalCurrent)
      /\ materialCurrent = NoRun
  BY <1>a, OcrDone, CanonicalDone, TreesAre DEF AfterOcr, AfterCanonical, ReaderPcs, IInv,
     ReaderInv, ReaderMaking, CandidateInv
<1>1. TypeOK'
  BY <1>a, UnfitTyped, <1>g DEF IInv, TypeOK, OcrTypeOK, CanonicalTypeOK, ReaderTypeOK,
     CandidateTypeOK,
     OcrPcs, CanonicalPcs, ReaderPcs, CandidatePcs, Stages, OcrOutcomes, OcrTransient,
     AttemptKinds,
     OcrReasons, ReaderReasons, ReaderAttempts
<1>2. UniqueInv'
  BY <1>a, SameTrees
<1>3. AttemptsInv'
  BY <1>a DEF IInv, AttemptsInv
<1>4. OcrInv'
  BY <1>a, AfterOcrStays DEF AfterOcr, AfterCanonical, ReaderPcs, CandidatePcs, ocrVars
<1>5. CanonicalInv'
  BY <1>a, AfterCanonicalStays DEF AfterCanonical, ReaderPcs, CandidatePcs, canonicalVars
<1>6. ReaderInv'
  BY <1>a DEF IInv, ReaderInv, ReaderMaking, Made, OfCanonical
<1>7. CandidateInv'
  BY <1>a, <1>g DEF IInv, CandidateInv, OfReader
<1>8. MovedInv'
  BY <1>a, <1>g DEF IInv, MovedInv, OcrPcs, CanonicalPcs, ReaderPcs, CandidatePcs,
     AdvanceIsReported
<1>9. CleanInv'
  <2> SUFFICES ASSUME ~scarred, OcrLeft, PendingIsDownstream,
                      CanonicalLeft, ReaderLeft, CandidateLeft
               PROVE  (/\ OcrLeft /\ PendingIsDownstream
                       /\ CanonicalLeft /\ ReaderLeft /\ CandidateLeft)'
    BY <1>a DEF IInv, CleanInv
  <2>1. OcrLeft'
    BY <1>a DEF OcrLeft
  <2>2. PendingIsDownstream'
    BY <1>a, <1>g DEF PendingIsDownstream, OcrMatches, CanonicalMatches, OfCanonical, Made
  <2>3. CanonicalLeft'
    BY <1>a, <1>g DEF CanonicalLeft, CanonicalPointersUsable, CanonicalTempUsable
  <2>4. ReaderLeft'
    BY <1>a, <1>g DEF ReaderLeft
  <2>5. CandidateLeft'
    BY <1>a DEF CandidateLeft
  <2> QED BY <2>1, <2>2, <2>3, <2>4, <2>5
<1>10. LostOnlyWhenScarred'
  BY <1>a, SameWord
<1> QED BY <1>1, <1>2, <1>3, <1>4, <1>5, <1>6, <1>7, <1>8, <1>9, <1>10 DEF IInv

\* The steps of the Candidate stage.
LEMMA CandidateLostStep == ASSUME IInv, CandidateLost, CandidateOnly PROVE IInv'
<1>a. /\ \/ pc = "candidate" /\ materialNext = Torn
         \/ pc = "candidate_staging" /\ Staged(material) # {}
              /\ \A r \in Made(material, semanticCurrent) : Staged(material) # {r}
         \/ pc = "candidate_current" /\ Cardinality(CandidateMatches) > 1
      /\ pc' = "idle" /\ hand' = NoRun /\ attempts' = <<>> /\ reason' = "none"
      /\ result' = "uncertain"
      /\ UNCHANGED <<advanced, release, ocr, ocrTemp, ocrCurrent, canonical,
                    canonicalTemp, canonicalCopy, canonicalCurrent, semantic, semanticCurrent,
                    material, materialNext, materialCurrent, moved, scarred>>
  BY DEF CandidateLost, CandidateOnly, CandidateSettled, Stop, candidateVars, ocrVars,
     canonicalVars, readerVars, Along, Moves
<1>g. /\ ocrTemp = NoRun /\ ocrCurrent \in Formal(ocr) \intersect Made(ocr, release)
      /\ canonicalTemp = NoRun /\ canonicalCopy = NoRun /\ Staged(canonical) = {}
      /\ canonicalCurrent \in Formal(canonical) \intersect Made(canonical, ocrCurrent)
      /\ Staged(semantic) = {}
      /\ semanticCurrent \in Formal(semantic) \intersect Made(semantic, canonicalCurrent)
      /\ \A r \in Staged(material) : Staged(material) = {r} /\ OfReader(r)
  BY <1>a, OcrDone, CanonicalDone, ReaderDone DEF AfterOcr, AfterCanonical, CandidatePcs, IInv,
     CandidateInv
<1>1. TypeOK'
  BY <1>a, UnfitTyped, RunsAssumption, ReleasesAssumption DEF IInv, TypeOK, OcrTypeOK,
     CanonicalTypeOK, ReaderTypeOK, CandidateTypeOK, Inputs, Runs, NoRun, Torn, Stages, OcrOutcomes, OcrTransient,
     AttemptKinds, OcrReasons, ReaderReasons, ReaderAttempts
<1>2. UniqueInv'
  BY <1>a, SameTrees
<1>3. AttemptsInv'
  BY <1>a DEF IInv, AttemptsInv
<1>4. OcrInv'
  BY <1>a, AfterOcrStays DEF AfterOcr, AfterCanonical, CandidatePcs, ocrVars
<1>5. CanonicalInv'
  BY <1>a, AfterCanonicalStays DEF AfterCanonical, ReaderPcs, CandidatePcs, canonicalVars
<1>6. ReaderInv'
  BY <1>a, AfterReaderStays DEF CandidatePcs, readerVars
<1>7. CandidateInv'
  BY <1>a DEF IInv, CandidateInv, OfReader
<1>8. MovedInv'
  BY <1>a, NothingMoves
<1>9. CleanInv'
  <2> SUFFICES ASSUME ~scarred, OcrLeft, PendingIsDownstream,
                      CanonicalLeft, ReaderLeft, CandidateLeft
               PROVE  (/\ OcrLeft /\ PendingIsDownstream
                       /\ CanonicalLeft /\ ReaderLeft /\ CandidateLeft)'
    BY <1>a DEF IInv, CleanInv
  <2>1. OcrLeft'
    BY <1>a, <1>g DEF OcrLeft
  <2>2. PendingIsDownstream'
    BY <1>a DEF PendingIsDownstream, OcrMatches, CanonicalMatches, OfCanonical, Made
  <2>3. CanonicalLeft'
    BY <1>a, <1>g DEF CanonicalLeft, CanonicalPointersUsable, CanonicalTempUsable
  <2>4. ReaderLeft'
    BY <1>a, <1>g DEF ReaderLeft
  <2>5. CandidateLeft'
    BY <1>a DEF CandidateLeft
  <2> QED BY <2>1, <2>2, <2>3, <2>4, <2>5
<1>10. LostOnlyWhenScarred'
  <2> SUFFICES ASSUME ~scarred PROVE FALSE
    BY <1>a DEF LostOnlyWhenScarred
  <2>1. pc = "candidate" => materialNext # Torn
    BY <1>a DEF IInv, CleanInv, CandidateLeft
  <2>2. pc = "candidate_staging" => \A r \in Staged(material) : r \in Made(material, semanticCurrent)
    BY <1>g DEF IInv, CleanInv, CandidateLeft, OfReader, Made
  <2>3. ~(Cardinality(CandidateMatches) > 1)
    <3>1. CandidateMatches \in SUBSET Runs /\ \A r, s \in CandidateMatches : r = s
      BY TreesAre DEF IInv, UniqueInv, Unique, CandidateMatches, Made
    <3> QED BY <3>1, AtMostOne
  <2> QED BY <1>a, <1>g, <2>1, <2>2, <2>3
<1> QED BY <1>1, <1>2, <1>3, <1>4, <1>5, <1>6, <1>7, <1>8, <1>9, <1>10 DEF IInv

LEMMA CandidateNextPointerStep == ASSUME IInv, CandidateNextPointer, CandidateOnly PROVE IInv'
<1>a. /\ pc = "candidate"
      /\ \/ materialNext = NoRun /\ pc' = "candidate_staging" /\ hand' = NoRun
         \/ materialNext \in Runs /\ pc' = "candidate_next" /\ hand' = materialNext
      /\ UNCHANGED <<attempts, reason, advanced, result, release, ocr,
                    ocrTemp, ocrCurrent, canonical, canonicalTemp, canonicalCopy,
                    canonicalCurrent, semantic, semanticCurrent, material, materialNext,
                    materialCurrent, moved, scarred>>
  BY DEF CandidateNextPointer, CandidateOnly, Goto, candidateVars, ocrVars, canonicalVars,
     readerVars, Along, Moves
<1>g. /\ ocrTemp = NoRun /\ ocrCurrent \in Formal(ocr) \intersect Made(ocr, release)
      /\ canonicalTemp = NoRun /\ canonicalCopy = NoRun /\ Staged(canonical) = {}
      /\ canonicalCurrent \in Formal(canonical) \intersect Made(canonical, ocrCurrent)
      /\ Staged(semantic) = {}
      /\ semanticCurrent \in Formal(semantic) \intersect Made(semantic, canonicalCurrent)
  BY <1>a, OcrDone, CanonicalDone, ReaderDone DEF AfterOcr, AfterCanonical, CandidatePcs
<1>1. TypeOK'
  BY <1>a, UnfitTyped, RunsAssumption, ReleasesAssumption DEF IInv, TypeOK, OcrTypeOK,
     CanonicalTypeOK, ReaderTypeOK, CandidateTypeOK, Inputs, Runs, NoRun, Torn, OcrPcs, CanonicalPcs, ReaderPcs,
     CandidatePcs
<1>2. UniqueInv'
  BY <1>a, SameTrees
<1>3. AttemptsInv'
  BY <1>a DEF IInv, AttemptsInv, OcrPcs, ReaderPcs
<1>4. OcrInv'
  BY <1>a, AfterOcrStays DEF AfterOcr, AfterCanonical, CandidatePcs, ocrVars
<1>5. CanonicalInv'
  BY <1>a, AfterCanonicalStays DEF AfterCanonical, ReaderPcs, CandidatePcs, canonicalVars
<1>6. ReaderInv'
  BY <1>a, AfterReaderStays DEF CandidatePcs, readerVars
<1>7. CandidateInv'
  BY <1>a DEF IInv, CandidateInv, OfReader
<1>8. MovedInv'
  BY <1>a DEF IInv, MovedInv, OcrPcs, CanonicalPcs, ReaderPcs, CandidatePcs, AdvanceIsReported
<1>9. CleanInv'
  BY <1>a, <1>g DEF IInv, CleanInv, OcrLeft, PendingIsDownstream, CanonicalLeft, ReaderLeft,
     CandidateLeft, OcrTempUsable, OcrMatches, CanonicalMatches, CanonicalPointersUsable,
     CanonicalTempUsable, ReaderInterruptible, OfCanonical, Made
<1>10. LostOnlyWhenScarred'
  BY <1>a, SameWord
<1> QED BY <1>1, <1>2, <1>3, <1>4, <1>5, <1>6, <1>7, <1>8, <1>9, <1>10 DEF IInv

LEMMA CandidateCommitNextStep == ASSUME IInv, CandidateCommitNext, CandidateOnly PROVE IInv'
<1>a. /\ pc = "candidate_next"
      /\ materialCurrent' = hand /\ materialNext' = NoRun
      /\ moved' = moved \union {"read"}
      /\ hand' = NoRun
      /\ OfReader(hand) => /\ pc' = "review" /\ attempts' = <<>> /\ reason' = "none" /\ UNCHANGED result
                            /\ advanced' = advanced \union {"read"}
      /\ ~OfReader(hand) => pc' = "candidate_staging" /\ UNCHANGED <<attempts, reason, advanced, result>>
      /\ UNCHANGED <<release, ocr, ocrTemp, ocrCurrent, canonical,
                    canonicalTemp, canonicalCopy, canonicalCurrent, semantic, semanticCurrent,
                    material, scarred>>
  BY DEF CandidateCommitNext, Goto, HandOver, CandidateOnly, Along, Moves, ocrVars, canonicalVars,
     readerVars
<1>g. /\ ocrTemp = NoRun /\ ocrCurrent \in Formal(ocr) \intersect Made(ocr, release)
      /\ canonicalTemp = NoRun /\ canonicalCopy = NoRun /\ Staged(canonical) = {}
      /\ canonicalCurrent \in Formal(canonical) \intersect Made(canonical, ocrCurrent)
      /\ Staged(semantic) = {}
      /\ semanticCurrent \in Formal(semantic) \intersect Made(semantic, canonicalCurrent)
      /\ hand \in Formal(material) \intersect Whole(material) /\ hand # NoRun
      /\ OfReader(hand)
  BY <1>a, OcrDone, CanonicalDone, ReaderDone, TreesAre, NoRunIsNone DEF AfterOcr, AfterCanonical,
     CandidatePcs, IInv, CandidateInv
<1>t. /\ pc' = "review" /\ attempts' = <<>> /\ reason' = "none" /\ UNCHANGED result
      /\ advanced' = advanced \union {"read"}
  BY <1>a, <1>g
<1>1. TypeOK'
  BY <1>a, UnfitTyped, <1>t, RunsAssumption, ReleasesAssumption DEF IInv, TypeOK, OcrTypeOK,
     CanonicalTypeOK, ReaderTypeOK, CandidateTypeOK, Inputs, Runs, NoRun, Torn, OcrPcs, CanonicalPcs, ReaderPcs,
     CandidatePcs, Stages, OcrOutcomes, OcrTransient, AttemptKinds, OcrReasons, ReaderReasons,
     ReaderAttempts
<1>2. UniqueInv'
  BY <1>a, SameTrees
<1>3. AttemptsInv'
  BY <1>a, <1>g DEF IInv, AttemptsInv
<1>4. OcrInv'
  BY <1>a, AfterOcrStays DEF AfterOcr, AfterCanonical, CandidatePcs, ocrVars
<1>5. CanonicalInv'
  BY <1>a, AfterCanonicalStays DEF AfterCanonical, ReaderPcs, CandidatePcs, canonicalVars
<1>6. ReaderInv'
  BY <1>a, AfterReaderStays DEF CandidatePcs, readerVars
<1>7. CandidateInv'
  BY <1>a, <1>g DEF IInv, CandidateInv, OfReader
<1>8. MovedInv'
  BY <1>a, <1>g DEF IInv, MovedInv, OcrPcs, CanonicalPcs, ReaderPcs, CandidatePcs,
     AdvanceIsReported
<1>9. CleanInv'
  <2> SUFFICES ASSUME ~scarred, OcrLeft, PendingIsDownstream,
                      CanonicalLeft, ReaderLeft, CandidateLeft
               PROVE  (/\ OcrLeft /\ PendingIsDownstream
                       /\ CanonicalLeft /\ ReaderLeft /\ CandidateLeft)'
    BY <1>a DEF IInv, CleanInv
  <2>1. OcrLeft'
    BY <1>a DEF OcrLeft
  <2>2. PendingIsDownstream'
    BY <1>a DEF PendingIsDownstream, OcrMatches, CanonicalMatches, OfCanonical, Made
  <2>3. CanonicalLeft'
    BY <1>a, <1>g DEF CanonicalLeft, CanonicalPointersUsable, CanonicalTempUsable
  <2>4. ReaderLeft'
    BY <1>a, <1>g DEF ReaderLeft
  <2>5. CandidateLeft'
    BY <1>a, NoRunIsNone DEF CandidateLeft
  <2> QED BY <2>1, <2>2, <2>3, <2>4, <2>5
<1>10. LostOnlyWhenScarred'
  BY <1>a, SameWord
<1> QED BY <1>1, <1>2, <1>3, <1>4, <1>5, <1>6, <1>7, <1>8, <1>9, <1>10 DEF IInv

LEMMA CandidateStagingStep == ASSUME IInv, CandidateStaging, CandidateOnly PROVE IInv'
<1>a. /\ pc = "candidate_staging"
      /\ pc' = "candidate_current" /\ hand' = NoRun
      /\ \/ Staged(material) = {} /\ UNCHANGED material
         \/ \E r \in Made(material, semanticCurrent) :
                Staged(material) = {r} /\ material' = Renamed(material, r)
      /\ UNCHANGED <<attempts, reason, advanced, result, release, ocr,
                    ocrTemp, ocrCurrent, canonical, canonicalTemp, canonicalCopy,
                    canonicalCurrent, semantic, semanticCurrent, materialNext, materialCurrent,
                    moved, scarred>>
  BY DEF CandidateStaging, CandidateOnly, Goto, ocrVars, canonicalVars, readerVars, Along, Moves
<1>g. /\ ocrTemp = NoRun /\ ocrCurrent \in Formal(ocr) \intersect Made(ocr, release)
      /\ canonicalTemp = NoRun /\ canonicalCopy = NoRun /\ Staged(canonical) = {}
      /\ canonicalCurrent \in Formal(canonical) \intersect Made(canonical, ocrCurrent)
      /\ Staged(semantic) = {}
      /\ semanticCurrent \in Formal(semantic) \intersect Made(semantic, canonicalCurrent)
      /\ \A r \in Staged(material) : Staged(material) = {r}
  BY <1>a, OcrDone, CanonicalDone, ReaderDone DEF AfterOcr, AfterCanonical, CandidatePcs, IInv,
     CandidateInv
<1>s. material \in Trees({"partial", "succeeded"})
  BY DEF IInv, TypeOK, CandidateTypeOK
<1>t. /\ material' \in Trees({"partial", "succeeded"})
      /\ Staged(material') = {} /\ Formal(material') = Formal(material) \union Staged(material)
      /\ Whole(material') = Whole(material) /\ Whole(material) \subseteq Runs
      /\ \A s \in Runs : material'[s].of = material[s].of
      /\ Formal(material') \subseteq Runs
  <2>1. CASE Staged(material) = {} /\ UNCHANGED material
    BY <1>s, <2>1, TreesAre
  <2>2. CASE \E r \in Made(material, semanticCurrent) :
               Staged(material) = {r} /\ material' = Renamed(material, r)
    BY <1>s, <2>2, RenamedIs, TreesAre
  <2> QED BY <1>a, <2>1, <2>2
<1>1. TypeOK'
  BY <1>a, UnfitTyped, <1>t, RunsAssumption, ReleasesAssumption DEF IInv, TypeOK, OcrTypeOK,
     CanonicalTypeOK, ReaderTypeOK, CandidateTypeOK, Inputs, Runs, NoRun, Torn, OcrPcs, CanonicalPcs, ReaderPcs,
     CandidatePcs
<1>2. UniqueInv'
  BY <1>a, <1>t DEF IInv, UniqueInv, Unique
<1>3. AttemptsInv'
  BY <1>a DEF IInv, AttemptsInv, OcrPcs, ReaderPcs
<1>4. OcrInv'
  BY <1>a, AfterOcrStays DEF AfterOcr, AfterCanonical, CandidatePcs, ocrVars
<1>5. CanonicalInv'
  BY <1>a, AfterCanonicalStays DEF AfterCanonical, ReaderPcs, CandidatePcs, canonicalVars
<1>6. ReaderInv'
  BY <1>a, AfterReaderStays DEF CandidatePcs, readerVars
<1>7. CandidateInv'
  BY <1>a, <1>t DEF IInv, CandidateInv, OfReader
<1>8. MovedInv'
  BY <1>a DEF IInv, MovedInv, OcrPcs, CanonicalPcs, ReaderPcs, CandidatePcs, AdvanceIsReported
<1>9. CleanInv'
  BY <1>a, <1>t, <1>g DEF IInv, CleanInv, OcrLeft, PendingIsDownstream, CanonicalLeft, ReaderLeft,
     CandidateLeft, OcrTempUsable, OcrMatches, CanonicalMatches, CanonicalPointersUsable,
     CanonicalTempUsable, ReaderInterruptible, OfCanonical, Made
<1>10. LostOnlyWhenScarred'
  BY <1>a, SameWord
<1> QED BY <1>1, <1>2, <1>3, <1>4, <1>5, <1>6, <1>7, <1>8, <1>9, <1>10 DEF IInv

LEMMA CandidateReuseStep == ASSUME IInv, CandidateReuse, CandidateOnly PROVE IInv'
<1>a. /\ pc = "candidate_current"
      /\ CandidateIsCurrent
      /\ pc' = "review" /\ hand' = NoRun /\ attempts' = <<>> /\ reason' = "none"
      /\ UNCHANGED <<advanced, result, release, ocr, ocrTemp, ocrCurrent,
                    canonical, canonicalTemp, canonicalCopy, canonicalCurrent, semantic,
                    semanticCurrent, material, materialNext, materialCurrent, moved, scarred>>
  BY DEF CandidateReuse, CandidateOnly, HandOver, candidateVars, ocrVars, canonicalVars,
     readerVars, Along, Moves
<1>g. /\ ocrTemp = NoRun /\ ocrCurrent \in Formal(ocr) \intersect Made(ocr, release)
      /\ canonicalTemp = NoRun /\ canonicalCopy = NoRun /\ Staged(canonical) = {}
      /\ canonicalCurrent \in Formal(canonical) \intersect Made(canonical, ocrCurrent)
      /\ Staged(semantic) = {}
      /\ semanticCurrent \in Formal(semantic) \intersect Made(semantic, canonicalCurrent)
      /\ materialCurrent # NoRun /\ materialNext = NoRun
  BY <1>a, OcrDone, CanonicalDone, ReaderDone DEF AfterOcr, AfterCanonical, CandidatePcs, IInv,
     CandidateInv, CandidateIsCurrent
<1>1. TypeOK'
  BY <1>a, UnfitTyped, RunsAssumption, ReleasesAssumption DEF IInv, TypeOK, OcrTypeOK,
     CanonicalTypeOK, ReaderTypeOK, CandidateTypeOK, Inputs, Runs, NoRun, Torn, OcrPcs, CanonicalPcs, ReaderPcs,
     CandidatePcs, Stages, OcrOutcomes, OcrTransient, AttemptKinds, OcrReasons, ReaderReasons,
     ReaderAttempts
<1>2. UniqueInv'
  BY <1>a, SameTrees
<1>3. AttemptsInv'
  BY <1>a DEF IInv, AttemptsInv
<1>4. OcrInv'
  BY <1>a, AfterOcrStays DEF AfterOcr, AfterCanonical, CandidatePcs, ocrVars
<1>5. CanonicalInv'
  BY <1>a, AfterCanonicalStays DEF AfterCanonical, ReaderPcs, CandidatePcs, canonicalVars
<1>6. ReaderInv'
  BY <1>a, AfterReaderStays DEF CandidatePcs, readerVars
<1>7. CandidateInv'
  BY <1>a, <1>g DEF IInv, CandidateInv, OfReader
<1>8. MovedInv'
  BY <1>a DEF IInv, MovedInv, OcrPcs, CanonicalPcs, ReaderPcs, CandidatePcs, AdvanceIsReported,
     CandidateIsCurrent
<1>9. CleanInv'
  BY <1>a, <1>g DEF IInv, CleanInv, OcrLeft, PendingIsDownstream, CanonicalLeft, ReaderLeft,
     CandidateLeft, OcrTempUsable, OcrMatches, CanonicalMatches, CanonicalPointersUsable,
     CanonicalTempUsable, ReaderInterruptible, OfCanonical, Made
<1>10. LostOnlyWhenScarred'
  BY <1>a, SameWord
<1> QED BY <1>1, <1>2, <1>3, <1>4, <1>5, <1>6, <1>7, <1>8, <1>9, <1>10 DEF IInv

LEMMA CandidateRecoverStep == ASSUME IInv, CandidateRecover, CandidateOnly PROVE IInv'
<1>a. /\ pc = "candidate_current"
      /\ ~CandidateIsCurrent /\ hand' \in CandidateMatches
      /\ pc' = "candidate_publish"
      /\ UNCHANGED <<attempts, reason, advanced, result, release, ocr,
                    ocrTemp, ocrCurrent, canonical, canonicalTemp, canonicalCopy,
                    canonicalCurrent, semantic, semanticCurrent, material, materialNext,
                    materialCurrent, moved, scarred>>
  BY DEF CandidateRecover, CandidateOnly, CandidateSettled, Goto, candidateVars, ocrVars,
     canonicalVars, readerVars, Along, Moves
<1>g. /\ ocrTemp = NoRun /\ ocrCurrent \in Formal(ocr) \intersect Made(ocr, release)
      /\ canonicalTemp = NoRun /\ canonicalCopy = NoRun /\ Staged(canonical) = {}
      /\ canonicalCurrent \in Formal(canonical) \intersect Made(canonical, ocrCurrent)
      /\ Staged(semantic) = {}
      /\ semanticCurrent \in Formal(semantic) \intersect Made(semantic, canonicalCurrent)
      /\ hand' \in Formal(material) \intersect Whole(material) /\ hand' \in Runs
      /\ materialNext = NoRun
  BY <1>a, OcrDone, CanonicalDone, ReaderDone, TreesAre DEF AfterOcr, AfterCanonical,
     CandidatePcs, IInv, CandidateInv, CandidateMatches, Made
<1>1. TypeOK'
  BY <1>a, UnfitTyped, <1>g DEF IInv, TypeOK, OcrTypeOK, CanonicalTypeOK, ReaderTypeOK,
     CandidateTypeOK,
     Inputs, Runs, NoRun, Torn, OcrPcs, CanonicalPcs, ReaderPcs, CandidatePcs
<1>2. UniqueInv'
  BY <1>a, SameTrees
<1>3. AttemptsInv'
  BY <1>a DEF IInv, AttemptsInv, OcrPcs, ReaderPcs
<1>4. OcrInv'
  BY <1>a, AfterOcrStays DEF AfterOcr, AfterCanonical, CandidatePcs, ocrVars
<1>5. CanonicalInv'
  BY <1>a, AfterCanonicalStays DEF AfterCanonical, ReaderPcs, CandidatePcs, canonicalVars
<1>6. ReaderInv'
  BY <1>a, AfterReaderStays DEF CandidatePcs, readerVars
<1>7. CandidateInv'
  BY <1>a, <1>g DEF IInv, CandidateInv, OfReader
<1>8. MovedInv'
  BY <1>a DEF IInv, MovedInv, OcrPcs, CanonicalPcs, ReaderPcs, CandidatePcs, AdvanceIsReported
<1>9. CleanInv'
  BY <1>a, <1>g DEF IInv, CleanInv, OcrLeft, PendingIsDownstream, CanonicalLeft, ReaderLeft,
     CandidateLeft, OcrTempUsable, OcrMatches, CanonicalMatches, CanonicalPointersUsable,
     CanonicalTempUsable, ReaderInterruptible, OfCanonical, Made
<1>10. LostOnlyWhenScarred'
  BY <1>a, SameWord
<1> QED BY <1>1, <1>2, <1>3, <1>4, <1>5, <1>6, <1>7, <1>8, <1>9, <1>10 DEF IInv

LEMMA CandidateRefusedStep == ASSUME IInv, CandidateRefused, CandidateOnly PROVE IInv'
<1>a. /\ pc = "candidate_current"
      /\ pc' = "idle" /\ hand' = NoRun /\ attempts' = <<>> /\ reason' = "none"
      /\ result' = "candidate_validation_failed"
      /\ UNCHANGED <<advanced, release, ocr, ocrTemp, ocrCurrent, canonical,
                    canonicalTemp, canonicalCopy, canonicalCurrent, semantic, semanticCurrent,
                    material, materialNext, materialCurrent, moved, scarred>>
  BY DEF CandidateRefused, CandidateOnly, CandidateSettled, Stop, candidateVars, ocrVars,
     canonicalVars, readerVars, Along, Moves
<1>g. /\ ocrTemp = NoRun /\ ocrCurrent \in Formal(ocr) \intersect Made(ocr, release)
      /\ canonicalTemp = NoRun /\ canonicalCopy = NoRun /\ Staged(canonical) = {}
      /\ canonicalCurrent \in Formal(canonical) \intersect Made(canonical, ocrCurrent)
      /\ Staged(semantic) = {}
      /\ semanticCurrent \in Formal(semantic) \intersect Made(semantic, canonicalCurrent)
      /\ \A r \in Staged(material) : Staged(material) = {r} /\ OfReader(r)
  BY <1>a, OcrDone, CanonicalDone, ReaderDone DEF AfterOcr, AfterCanonical, CandidatePcs, IInv,
     CandidateInv
<1>1. TypeOK'
  BY <1>a, UnfitTyped, RunsAssumption, ReleasesAssumption DEF IInv, TypeOK, OcrTypeOK,
     CanonicalTypeOK, ReaderTypeOK, CandidateTypeOK, Inputs, Runs, NoRun, Torn, Stages, OcrOutcomes, OcrTransient,
     AttemptKinds, OcrReasons, ReaderReasons, ReaderAttempts
<1>2. UniqueInv'
  BY <1>a, SameTrees
<1>3. AttemptsInv'
  BY <1>a DEF IInv, AttemptsInv
<1>4. OcrInv'
  BY <1>a, AfterOcrStays DEF AfterOcr, AfterCanonical, CandidatePcs, ocrVars
<1>5. CanonicalInv'
  BY <1>a, AfterCanonicalStays DEF AfterCanonical, ReaderPcs, CandidatePcs, canonicalVars
<1>6. ReaderInv'
  BY <1>a, AfterReaderStays DEF CandidatePcs, readerVars
<1>7. CandidateInv'
  BY <1>a DEF IInv, CandidateInv, OfReader
<1>8. MovedInv'
  BY <1>a, NothingMoves
<1>9. CleanInv'
  <2> SUFFICES ASSUME ~scarred, OcrLeft, PendingIsDownstream,
                      CanonicalLeft, ReaderLeft, CandidateLeft
               PROVE  (/\ OcrLeft /\ PendingIsDownstream
                       /\ CanonicalLeft /\ ReaderLeft /\ CandidateLeft)'
    BY <1>a DEF IInv, CleanInv
  <2>1. OcrLeft'
    BY <1>a, <1>g DEF OcrLeft
  <2>2. PendingIsDownstream'
    BY <1>a DEF PendingIsDownstream, OcrMatches, CanonicalMatches, OfCanonical, Made
  <2>3. CanonicalLeft'
    BY <1>a, <1>g DEF CanonicalLeft, CanonicalPointersUsable, CanonicalTempUsable
  <2>4. ReaderLeft'
    BY <1>a, <1>g DEF ReaderLeft
  <2>5. CandidateLeft'
    BY <1>a DEF CandidateLeft
  <2> QED BY <2>1, <2>2, <2>3, <2>4, <2>5
<1>10. LostOnlyWhenScarred'
  BY <1>a, OtherWord
<1> QED BY <1>1, <1>2, <1>3, <1>4, <1>5, <1>6, <1>7, <1>8, <1>9, <1>10 DEF IInv

LEMMA CandidateBeginStep == ASSUME IInv, CandidateBegin, CandidateOnly PROVE IInv'
<1>a. /\ pc = "candidate_current"
      /\ ~CandidateIsCurrent /\ CandidateMatches = {}
      /\ pc' = "candidate_fill"
      /\ hand' \in Free(material) /\ material' = Mkdir(material, hand', semanticCurrent)
      /\ UNCHANGED <<attempts, reason, advanced, result, release, ocr,
                    ocrTemp, ocrCurrent, canonical, canonicalTemp, canonicalCopy,
                    canonicalCurrent, semantic, semanticCurrent, materialNext, materialCurrent,
                    moved, scarred>>
  BY DEF CandidateBegin, CandidateOnly, CandidateSettled, IsNext, Goto, ocrVars, canonicalVars,
     readerVars, Along, Moves
<1>g. /\ ocrTemp = NoRun /\ ocrCurrent \in Formal(ocr) \intersect Made(ocr, release)
      /\ canonicalTemp = NoRun /\ canonicalCopy = NoRun /\ Staged(canonical) = {}
      /\ canonicalCurrent \in Formal(canonical) \intersect Made(canonical, ocrCurrent)
      /\ Staged(semantic) = {}
      /\ semanticCurrent \in Formal(semantic) \intersect Made(semantic, canonicalCurrent)
      /\ semanticCurrent \in Runs /\ semanticCurrent # NoRun
      /\ Staged(material) = {} /\ Whole(material) = {} /\ materialNext = NoRun
      /\ Formal(material) \subseteq Runs /\ Staged(material) \subseteq Runs
  BY <1>a, OcrDone, CanonicalDone, ReaderDone, TreesAre, NoRunIsNone DEF AfterOcr, AfterCanonical,
     CandidatePcs, IInv, CandidateInv, OfReader, CandidateMatches, Made
<1>s. /\ material \in Trees({"partial", "succeeded"}) /\ semanticCurrent \in Inputs
      /\ material' = Mkdir(material, hand', semanticCurrent)
      /\ "partial" \in {"partial", "succeeded"} /\ hand' \in Free(material)
  BY <1>a DEF IInv, TypeOK, CandidateTypeOK, CandidateInv, OcrTypeOK, CanonicalTypeOK,
     ReaderTypeOK
<1>t. /\ material' \in Trees({"partial", "succeeded"})
      /\ Staged(material') = Staged(material) \union {hand'}
      /\ Formal(material') = Formal(material) /\ Whole(material') = Whole(material)
      /\ material'[hand'].of = semanticCurrent /\ material'[hand'].state = "partial"
      /\ \A s \in Runs \ {hand'} : material'[s] = material[s]
      /\ hand' \in Runs \ (Staged(material) \union Formal(material) \union Whole(material))
      /\ \A s \in Whole(material) : s \in Runs /\ material'[s].of = material[s].of
  BY <1>s, MkdirIs
<1>1. TypeOK'
  BY <1>a, UnfitTyped, <1>t DEF IInv, TypeOK, OcrTypeOK, CanonicalTypeOK, ReaderTypeOK,
     CandidateTypeOK,
     Inputs, Runs, NoRun, Torn, OcrPcs, CanonicalPcs, ReaderPcs, CandidatePcs
<1>2. UniqueInv'
  BY <1>a, <1>t DEF IInv, UniqueInv, Unique
<1>3. AttemptsInv'
  BY <1>a DEF IInv, AttemptsInv, OcrPcs, ReaderPcs
<1>4. OcrInv'
  BY <1>a, AfterOcrStays DEF AfterOcr, AfterCanonical, CandidatePcs, ocrVars
<1>5. CanonicalInv'
  BY <1>a, AfterCanonicalStays DEF AfterCanonical, ReaderPcs, CandidatePcs, canonicalVars
<1>6. ReaderInv'
  BY <1>a, AfterReaderStays DEF CandidatePcs, readerVars
<1>7. CandidateInv'
  BY <1>a, <1>t, <1>g DEF IInv, CandidateInv, OfReader
<1>8. MovedInv'
  BY <1>a DEF IInv, MovedInv, OcrPcs, CanonicalPcs, ReaderPcs, CandidatePcs, AdvanceIsReported
<1>9. CleanInv'
  BY <1>a, <1>g DEF IInv, CleanInv, OcrLeft, PendingIsDownstream, CanonicalLeft, ReaderLeft,
     CandidateLeft, OcrTempUsable, OcrMatches, CanonicalMatches, CanonicalPointersUsable,
     CanonicalTempUsable, ReaderInterruptible, OfCanonical, Made
<1>10. LostOnlyWhenScarred'
  BY <1>a, SameWord
<1> QED BY <1>1, <1>2, <1>3, <1>4, <1>5, <1>6, <1>7, <1>8, <1>9, <1>10 DEF IInv

LEMMA CandidateFillStep == ASSUME IInv, CandidateFill, CandidateOnly PROVE IInv'
<1>a. /\ pc = "candidate_fill"
      /\ pc' = "candidate_commit"
      /\ material' = Becomes(material, hand, "succeeded")
      /\ UNCHANGED <<hand, attempts, reason, advanced, result, release, ocr,
                    ocrTemp, ocrCurrent, canonical, canonicalTemp, canonicalCopy,
                    canonicalCurrent, semantic, semanticCurrent, materialNext, materialCurrent,
                    moved, scarred>>
  BY DEF CandidateFill, CandidateOnly, Goto, ocrVars, canonicalVars, readerVars, Along, Moves
<1>g. /\ ocrTemp = NoRun /\ ocrCurrent \in Formal(ocr) \intersect Made(ocr, release)
      /\ canonicalTemp = NoRun /\ canonicalCopy = NoRun /\ Staged(canonical) = {}
      /\ canonicalCurrent \in Formal(canonical) \intersect Made(canonical, ocrCurrent)
      /\ Staged(semantic) = {}
      /\ semanticCurrent \in Formal(semantic) \intersect Made(semantic, canonicalCurrent)
      /\ Staged(material) = {hand} /\ Whole(material) = {} /\ materialNext = NoRun
      /\ OfReader(hand)
      /\ Formal(material) \subseteq Runs /\ Staged(material) \subseteq Runs
  BY <1>a, OcrDone, CanonicalDone, ReaderDone, TreesAre DEF AfterOcr, AfterCanonical,
     CandidatePcs, IInv, CandidateInv
<1>s. /\ material \in Trees({"partial", "succeeded"}) /\ hand \in Staged(material)
      /\ material' = Becomes(material, hand, "succeeded")
      /\ "succeeded" \in {"partial", "succeeded"}
  BY <1>a DEF IInv, TypeOK, CandidateTypeOK, CandidateInv
<1>t. /\ material' \in Trees({"partial", "succeeded"})
      /\ Staged(material') = Staged(material) /\ Formal(material') = Formal(material)
      /\ Whole(material') = Whole(material) \union {hand}
      /\ material'[hand].state = "succeeded" /\ \A s \in Runs : material'[s].of = material[s].of
      /\ \A s \in Runs \ {hand} : material'[s] = material[s]
      /\ Whole(material) \subseteq Runs /\ hand \in Runs
  BY <1>s, BecomesIs
<1>1. TypeOK'
  BY <1>a, UnfitTyped, <1>t DEF IInv, TypeOK, OcrTypeOK, CanonicalTypeOK, ReaderTypeOK,
     CandidateTypeOK,
     OcrPcs, CanonicalPcs, ReaderPcs, CandidatePcs
<1>2. UniqueInv'
  BY <1>a, <1>t, <1>g DEF IInv, UniqueInv, Unique
<1>3. AttemptsInv'
  BY <1>a DEF IInv, AttemptsInv, OcrPcs, ReaderPcs
<1>4. OcrInv'
  BY <1>a, AfterOcrStays DEF AfterOcr, AfterCanonical, CandidatePcs, ocrVars
<1>5. CanonicalInv'
  BY <1>a, AfterCanonicalStays DEF AfterCanonical, ReaderPcs, CandidatePcs, canonicalVars
<1>6. ReaderInv'
  BY <1>a, AfterReaderStays DEF CandidatePcs, readerVars
<1>7. CandidateInv'
  BY <1>a, <1>t, <1>g DEF IInv, CandidateInv, OfReader
<1>8. MovedInv'
  BY <1>a DEF IInv, MovedInv, OcrPcs, CanonicalPcs, ReaderPcs, CandidatePcs, AdvanceIsReported
<1>9. CleanInv'
  <2> SUFFICES ASSUME ~scarred, OcrLeft, PendingIsDownstream,
                      CanonicalLeft, ReaderLeft, CandidateLeft
               PROVE  (/\ OcrLeft /\ PendingIsDownstream
                       /\ CanonicalLeft /\ ReaderLeft /\ CandidateLeft)'
    BY <1>a DEF IInv, CleanInv
  <2>1. OcrLeft'
    BY <1>a DEF OcrLeft
  <2>2. PendingIsDownstream'
    BY <1>a DEF PendingIsDownstream, OcrMatches, CanonicalMatches, OfCanonical, Made
  <2>3. CanonicalLeft'
    BY <1>a, <1>g DEF CanonicalLeft, CanonicalPointersUsable, CanonicalTempUsable
  <2>4. ReaderLeft'
    BY <1>a, <1>g DEF ReaderLeft
  <2>5. CandidateLeft'
    BY <1>a, <1>t, <1>g DEF CandidateLeft
  <2> QED BY <2>1, <2>2, <2>3, <2>4, <2>5
<1>10. LostOnlyWhenScarred'
  BY <1>a, SameWord
<1> QED BY <1>1, <1>2, <1>3, <1>4, <1>5, <1>6, <1>7, <1>8, <1>9, <1>10 DEF IInv

LEMMA CandidateCommitStep == ASSUME IInv, CandidateCommit, CandidateOnly PROVE IInv'
<1>a. /\ pc = "candidate_commit"
      /\ pc' = "candidate_publish"
      /\ material' = Renamed(material, hand)
      /\ UNCHANGED <<hand, attempts, reason, advanced, result, release, ocr,
                    ocrTemp, ocrCurrent, canonical, canonicalTemp, canonicalCopy,
                    canonicalCurrent, semantic, semanticCurrent, materialNext, materialCurrent,
                    moved, scarred>>
  BY DEF CandidateCommit, CandidateOnly, Goto, ocrVars, canonicalVars, readerVars, Along, Moves
<1>g. /\ ocrTemp = NoRun /\ ocrCurrent \in Formal(ocr) \intersect Made(ocr, release)
      /\ canonicalTemp = NoRun /\ canonicalCopy = NoRun /\ Staged(canonical) = {}
      /\ canonicalCurrent \in Formal(canonical) \intersect Made(canonical, ocrCurrent)
      /\ Staged(semantic) = {}
      /\ semanticCurrent \in Formal(semantic) \intersect Made(semantic, canonicalCurrent)
      /\ Staged(material) = {hand} /\ hand \in Whole(material) /\ materialNext = NoRun
      /\ OfReader(hand)
      /\ Formal(material) \subseteq Runs /\ Staged(material) \subseteq Runs
  BY <1>a, OcrDone, CanonicalDone, ReaderDone, TreesAre DEF AfterOcr, AfterCanonical,
     CandidatePcs, IInv, CandidateInv
<1>s. /\ material \in Trees({"partial", "succeeded"}) /\ hand \in Staged(material)
      /\ material' = Renamed(material, hand)
  BY <1>a DEF IInv, TypeOK, CandidateTypeOK, CandidateInv
<1>t. /\ material' \in Trees({"partial", "succeeded"})
      /\ Staged(material') = Staged(material) \ {hand}
      /\ Formal(material') = Formal(material) \union {hand}
      /\ Whole(material') = Whole(material)
      /\ \A s \in Runs : material'[s].of = material[s].of /\ material'[s].state = material[s].state
      /\ Whole(material) \subseteq Runs /\ hand \in Runs
  BY <1>s, RenamedIs
<1>1. TypeOK'
  BY <1>a, UnfitTyped, <1>t DEF IInv, TypeOK, OcrTypeOK, CanonicalTypeOK, ReaderTypeOK,
     CandidateTypeOK,
     OcrPcs, CanonicalPcs, ReaderPcs, CandidatePcs
<1>2. UniqueInv'
  BY <1>a, <1>t DEF IInv, UniqueInv, Unique
<1>3. AttemptsInv'
  BY <1>a DEF IInv, AttemptsInv, OcrPcs, ReaderPcs
<1>4. OcrInv'
  BY <1>a, AfterOcrStays DEF AfterOcr, AfterCanonical, CandidatePcs, ocrVars
<1>5. CanonicalInv'
  BY <1>a, AfterCanonicalStays DEF AfterCanonical, ReaderPcs, CandidatePcs, canonicalVars
<1>6. ReaderInv'
  BY <1>a, AfterReaderStays DEF CandidatePcs, readerVars
<1>7. CandidateInv'
  BY <1>a, <1>t, <1>g DEF IInv, CandidateInv, OfReader
<1>8. MovedInv'
  BY <1>a DEF IInv, MovedInv, OcrPcs, CanonicalPcs, ReaderPcs, CandidatePcs, AdvanceIsReported
<1>9. CleanInv'
  BY <1>a, <1>t, <1>g DEF IInv, CleanInv, OcrLeft, PendingIsDownstream, CanonicalLeft, ReaderLeft,
     CandidateLeft, OcrTempUsable, OcrMatches, CanonicalMatches, CanonicalPointersUsable,
     CanonicalTempUsable, ReaderInterruptible, OfCanonical, Made
<1>10. LostOnlyWhenScarred'
  BY <1>a, SameWord
<1> QED BY <1>1, <1>2, <1>3, <1>4, <1>5, <1>6, <1>7, <1>8, <1>9, <1>10 DEF IInv

LEMMA CandidatePublishStep == ASSUME IInv, CandidatePublish, CandidateOnly PROVE IInv'
<1>a. /\ pc = "candidate_publish"
      /\ pc' = "candidate_pointer"
      /\ materialNext' = Torn
      /\ UNCHANGED <<hand, attempts, reason, advanced, result, release, ocr,
                    ocrTemp, ocrCurrent, canonical, canonicalTemp, canonicalCopy,
                    canonicalCurrent, semantic, semanticCurrent, material, materialCurrent,
                    moved, scarred>>
  BY DEF CandidatePublish, CandidateOnly, Goto, ocrVars, canonicalVars, readerVars, Along, Moves
<1>g. /\ ocrTemp = NoRun /\ ocrCurrent \in Formal(ocr) \intersect Made(ocr, release)
      /\ canonicalTemp = NoRun /\ canonicalCopy = NoRun /\ Staged(canonical) = {}
      /\ canonicalCurrent \in Formal(canonical) \intersect Made(canonical, ocrCurrent)
      /\ Staged(semantic) = {}
      /\ semanticCurrent \in Formal(semantic) \intersect Made(semantic, canonicalCurrent)
  BY <1>a, OcrDone, CanonicalDone, ReaderDone DEF AfterOcr, AfterCanonical, CandidatePcs
<1>1. TypeOK'
  BY <1>a, UnfitTyped DEF IInv, TypeOK, OcrTypeOK, CanonicalTypeOK, ReaderTypeOK,
     CandidateTypeOK, OcrPcs,
     CanonicalPcs, ReaderPcs, CandidatePcs
<1>2. UniqueInv'
  BY <1>a, SameTrees
<1>3. AttemptsInv'
  BY <1>a DEF IInv, AttemptsInv, OcrPcs, ReaderPcs
<1>4. OcrInv'
  BY <1>a, AfterOcrStays DEF AfterOcr, AfterCanonical, CandidatePcs, ocrVars
<1>5. CanonicalInv'
  BY <1>a, AfterCanonicalStays DEF AfterCanonical, ReaderPcs, CandidatePcs, canonicalVars
<1>6. ReaderInv'
  BY <1>a, AfterReaderStays DEF CandidatePcs, readerVars
<1>7. CandidateInv'
  BY <1>a DEF IInv, CandidateInv, OfReader
<1>8. MovedInv'
  BY <1>a DEF IInv, MovedInv, OcrPcs, CanonicalPcs, ReaderPcs, CandidatePcs, AdvanceIsReported
<1>9. CleanInv'
  BY <1>a, <1>g DEF IInv, CleanInv, OcrLeft, PendingIsDownstream, CanonicalLeft, ReaderLeft,
     CandidateLeft, OcrTempUsable, OcrMatches, CanonicalMatches, CanonicalPointersUsable,
     CanonicalTempUsable, ReaderInterruptible, OfCanonical, Made
<1>10. LostOnlyWhenScarred'
  BY <1>a, SameWord
<1> QED BY <1>1, <1>2, <1>3, <1>4, <1>5, <1>6, <1>7, <1>8, <1>9, <1>10 DEF IInv

LEMMA CandidatePointerStep == ASSUME IInv, CandidatePointer, CandidateOnly PROVE IInv'
<1>a. /\ pc = "candidate_pointer"
      /\ pc' = "candidate_replace"
      /\ materialNext' = hand
      /\ UNCHANGED <<hand, attempts, reason, advanced, result, release, ocr,
                    ocrTemp, ocrCurrent, canonical, canonicalTemp, canonicalCopy,
                    canonicalCurrent, semantic, semanticCurrent, material, materialCurrent,
                    moved, scarred>>
  BY DEF CandidatePointer, CandidateOnly, Goto, ocrVars, canonicalVars, readerVars, Along, Moves
<1>g. /\ ocrTemp = NoRun /\ ocrCurrent \in Formal(ocr) \intersect Made(ocr, release)
      /\ canonicalTemp = NoRun /\ canonicalCopy = NoRun /\ Staged(canonical) = {}
      /\ canonicalCurrent \in Formal(canonical) \intersect Made(canonical, ocrCurrent)
      /\ Staged(semantic) = {}
      /\ semanticCurrent \in Formal(semantic) \intersect Made(semantic, canonicalCurrent)
      /\ hand \in Formal(material) \intersect Whole(material) /\ hand \in Runs /\ hand # Torn
  BY <1>a, OcrDone, CanonicalDone, ReaderDone, TreesAre, NoRunIsNone DEF AfterOcr, AfterCanonical,
     CandidatePcs, IInv, CandidateInv
<1>1. TypeOK'
  BY <1>a, UnfitTyped DEF IInv, TypeOK, OcrTypeOK, CanonicalTypeOK, ReaderTypeOK,
     CandidateTypeOK, OcrPcs,
     CanonicalPcs, ReaderPcs, CandidatePcs
<1>2. UniqueInv'
  BY <1>a, SameTrees
<1>3. AttemptsInv'
  BY <1>a DEF IInv, AttemptsInv, OcrPcs, ReaderPcs
<1>4. OcrInv'
  BY <1>a, AfterOcrStays DEF AfterOcr, AfterCanonical, CandidatePcs, ocrVars
<1>5. CanonicalInv'
  BY <1>a, AfterCanonicalStays DEF AfterCanonical, ReaderPcs, CandidatePcs, canonicalVars
<1>6. ReaderInv'
  BY <1>a, AfterReaderStays DEF CandidatePcs, readerVars
<1>7. CandidateInv'
  BY <1>a DEF IInv, CandidateInv, OfReader
<1>8. MovedInv'
  BY <1>a DEF IInv, MovedInv, OcrPcs, CanonicalPcs, ReaderPcs, CandidatePcs, AdvanceIsReported
<1>9. CleanInv'
  <2> SUFFICES ASSUME ~scarred, OcrLeft, PendingIsDownstream,
                      CanonicalLeft, ReaderLeft, CandidateLeft
               PROVE  (/\ OcrLeft /\ PendingIsDownstream
                       /\ CanonicalLeft /\ ReaderLeft /\ CandidateLeft)'
    BY <1>a DEF IInv, CleanInv
  <2>1. OcrLeft'
    BY <1>a DEF OcrLeft
  <2>2. PendingIsDownstream'
    BY <1>a DEF PendingIsDownstream, OcrMatches, CanonicalMatches, OfCanonical, Made
  <2>3. CanonicalLeft'
    BY <1>a, <1>g DEF CanonicalLeft, CanonicalPointersUsable, CanonicalTempUsable
  <2>4. ReaderLeft'
    BY <1>a, <1>g DEF ReaderLeft
  <2>5. CandidateLeft'
    BY <1>a, <1>g DEF CandidateLeft
  <2> QED BY <2>1, <2>2, <2>3, <2>4, <2>5
<1>10. LostOnlyWhenScarred'
  BY <1>a, SameWord
<1> QED BY <1>1, <1>2, <1>3, <1>4, <1>5, <1>6, <1>7, <1>8, <1>9, <1>10 DEF IInv

LEMMA CandidateReplaceStep == ASSUME IInv, CandidateReplace, CandidateOnly PROVE IInv'
<1>a. /\ pc = "candidate_replace"
      /\ pc' = "review" /\ hand' = NoRun /\ attempts' = <<>> /\ reason' = "none"
      /\ advanced' = advanced \union {"read"}
      /\ materialCurrent' = hand /\ materialNext' = NoRun
      /\ moved' = moved \union {"read"}
      /\ UNCHANGED <<result, release, ocr, ocrTemp, ocrCurrent, canonical,
                    canonicalTemp, canonicalCopy, canonicalCurrent, semantic, semanticCurrent,
                    material, scarred>>
  BY DEF CandidateReplace, CandidateOnly, HandOver, ocrVars, canonicalVars, readerVars, Along,
     Moves
<1>g. /\ ocrTemp = NoRun /\ ocrCurrent \in Formal(ocr) \intersect Made(ocr, release)
      /\ canonicalTemp = NoRun /\ canonicalCopy = NoRun /\ Staged(canonical) = {}
      /\ canonicalCurrent \in Formal(canonical) \intersect Made(canonical, ocrCurrent)
      /\ Staged(semantic) = {}
      /\ semanticCurrent \in Formal(semantic) \intersect Made(semantic, canonicalCurrent)
      /\ hand \in Formal(material) \intersect Whole(material) /\ hand # NoRun
  BY <1>a, OcrDone, CanonicalDone, ReaderDone, TreesAre, NoRunIsNone DEF AfterOcr, AfterCanonical,
     CandidatePcs, IInv, CandidateInv
<1>1. TypeOK'
  BY <1>a, UnfitTyped, RunsAssumption, ReleasesAssumption DEF IInv, TypeOK, OcrTypeOK,
     CanonicalTypeOK, ReaderTypeOK, CandidateTypeOK, Inputs, Runs, NoRun, Torn, OcrPcs, CanonicalPcs, ReaderPcs,
     CandidatePcs, Stages, OcrOutcomes, OcrTransient, AttemptKinds, OcrReasons, ReaderReasons,
     ReaderAttempts
<1>2. UniqueInv'
  BY <1>a, SameTrees
<1>3. AttemptsInv'
  BY <1>a DEF IInv, AttemptsInv
<1>4. OcrInv'
  BY <1>a, AfterOcrStays DEF AfterOcr, AfterCanonical, CandidatePcs, ocrVars
<1>5. CanonicalInv'
  BY <1>a, AfterCanonicalStays DEF AfterCanonical, ReaderPcs, CandidatePcs, canonicalVars
<1>6. ReaderInv'
  BY <1>a, AfterReaderStays DEF CandidatePcs, readerVars
<1>7. CandidateInv'
  BY <1>a, <1>g DEF IInv, CandidateInv, OfReader
<1>8. MovedInv'
  BY <1>a DEF IInv, MovedInv, OcrPcs, CanonicalPcs, ReaderPcs, CandidatePcs, AdvanceIsReported
<1>9. CleanInv'
  <2> SUFFICES ASSUME ~scarred, OcrLeft, PendingIsDownstream,
                      CanonicalLeft, ReaderLeft, CandidateLeft
               PROVE  (/\ OcrLeft /\ PendingIsDownstream
                       /\ CanonicalLeft /\ ReaderLeft /\ CandidateLeft)'
    BY <1>a DEF IInv, CleanInv
  <2>1. OcrLeft'
    BY <1>a DEF OcrLeft
  <2>2. PendingIsDownstream'
    BY <1>a DEF PendingIsDownstream, OcrMatches, CanonicalMatches, OfCanonical, Made
  <2>3. CanonicalLeft'
    BY <1>a, <1>g DEF CanonicalLeft, CanonicalPointersUsable, CanonicalTempUsable
  <2>4. ReaderLeft'
    BY <1>a, <1>g DEF ReaderLeft
  <2>5. CandidateLeft'
    BY <1>a, NoRunIsNone DEF CandidateLeft
  <2> QED BY <2>1, <2>2, <2>3, <2>4, <2>5
<1>10. LostOnlyWhenScarred'
  BY <1>a, SameWord
<1> QED BY <1>1, <1>2, <1>3, <1>4, <1>5, <1>6, <1>7, <1>8, <1>9, <1>10 DEF IInv

\* The steps between the stages and outside of the command.
LEMMA StartStep == ASSUME IInv, Start PROVE IInv'
<1>a. /\ pc = "idle"
      /\ pc' = "ocr" /\ advanced' = {} /\ result' = "none" /\ moved' = {}
      /\ UNCHANGED <<unfit, hand, attempts, reason, release, ocr, ocrTemp,
                    ocrCurrent, canonical, canonicalTemp, canonicalCopy, canonicalCurrent,
                    semantic, semanticCurrent, material, materialNext, materialCurrent,
                    scarred>>
  BY DEF Start, work, ocrVars, canonicalVars, readerVars, candidateVars
<1>1. TypeOK'
  BY <1>a DEF IInv, TypeOK, UnfitTypeOK, OcrTypeOK, CanonicalTypeOK, ReaderTypeOK,
     CandidateTypeOK, OcrPcs,
     CanonicalPcs, ReaderPcs, CandidatePcs
<1>2. UniqueInv'
  BY <1>a, SameTrees
<1>3. AttemptsInv'
  BY <1>a DEF IInv, AttemptsInv, OcrPcs, ReaderPcs
<1>4. OcrInv'
  BY <1>a DEF IInv, OcrInv, AfterOcr, AfterCanonical, CanonicalPcs, ReaderPcs, CandidatePcs
<1>5. CanonicalInv'
  BY <1>a DEF IInv, CanonicalInv, CanonicalPcs, AfterCanonical, ReaderPcs, CandidatePcs
<1>6. ReaderInv'
  BY <1>a DEF IInv, ReaderInv, ReaderMaking, CandidatePcs
<1>7. CandidateInv'
  BY <1>a DEF IInv, CandidateInv, OfReader
<1>8. MovedInv'
  BY <1>a DEF IInv, MovedInv, AdvanceIsReported
<1>9. CleanInv'
  BY <1>a DEF IInv, CleanInv, OcrLeft, PendingIsDownstream, CanonicalLeft, ReaderLeft,
     CandidateLeft, OcrTempUsable, OcrMatches, CanonicalMatches, CanonicalPcs, ReaderPcs,
     CanonicalPointersUsable, CanonicalTempUsable, ReaderInterruptible, OfCanonical, Made
<1>10. LostOnlyWhenScarred'
  BY <1>a, OtherWord
<1> QED BY <1>1, <1>2, <1>3, <1>4, <1>5, <1>6, <1>7, <1>8, <1>9, <1>10 DEF IInv

LEMMA PassStep == ASSUME IInv, Pass PROVE IInv'
<1>a. /\ pc = "review"
      /\ pc' = "idle" /\ hand' = NoRun /\ attempts' = <<>> /\ reason' = "none"
      /\ result' = "passed"
      /\ UNCHANGED <<unfit, advanced, release, ocr, ocrTemp, ocrCurrent, canonical,
                    canonicalTemp, canonicalCopy, canonicalCurrent, semantic, semanticCurrent,
                    material, materialNext, materialCurrent, moved, scarred>>
  BY DEF Pass, Stop, work, ocrVars, canonicalVars, readerVars, candidateVars
<1>g. /\ ocrTemp = NoRun /\ ocrCurrent \in Formal(ocr) \intersect Made(ocr, release)
      /\ canonicalTemp = NoRun /\ canonicalCopy = NoRun /\ Staged(canonical) = {}
      /\ canonicalCurrent \in Formal(canonical) \intersect Made(canonical, ocrCurrent)
      /\ Staged(semantic) = {}
      /\ semanticCurrent \in Formal(semantic) \intersect Made(semantic, canonicalCurrent)
  BY <1>a, OcrDone, CanonicalDone, ReaderDone DEF AfterOcr, AfterCanonical, CandidatePcs
<1>1. TypeOK'
  BY <1>a, RunsAssumption, ReleasesAssumption DEF IInv, TypeOK, UnfitTypeOK, OcrTypeOK,
     CanonicalTypeOK, ReaderTypeOK, CandidateTypeOK, Inputs, Runs, NoRun, Torn, Stages, OcrOutcomes, OcrTransient,
     AttemptKinds, OcrReasons, ReaderReasons, ReaderAttempts
<1>2. UniqueInv'
  BY <1>a, SameTrees
<1>3. AttemptsInv'
  BY <1>a DEF IInv, AttemptsInv
<1>4. OcrInv'
  BY <1>a, <1>g DEF IInv, OcrInv
<1>5. CanonicalInv'
  BY <1>a DEF IInv, CanonicalInv, CanonicalPcs, AfterCanonical, ReaderPcs, CandidatePcs
<1>6. ReaderInv'
  BY <1>a, <1>g DEF IInv, ReaderInv, ReaderMaking
<1>7. CandidateInv'
  BY <1>a DEF IInv, CandidateInv, OfReader
<1>8. MovedInv'
  BY <1>a, NothingMoves
<1>9. CleanInv'
  <2> SUFFICES ASSUME ~scarred, OcrLeft, PendingIsDownstream,
                      CanonicalLeft, ReaderLeft, CandidateLeft
               PROVE  (/\ OcrLeft /\ PendingIsDownstream
                       /\ CanonicalLeft /\ ReaderLeft /\ CandidateLeft)'
    BY <1>a DEF IInv, CleanInv
  <2>1. OcrLeft'
    BY <1>a, <1>g DEF OcrLeft
  <2>2. PendingIsDownstream'
    BY <1>a DEF PendingIsDownstream, OcrMatches, CanonicalMatches, OfCanonical, Made
  <2>3. CanonicalLeft'
    BY <1>a, <1>g DEF CanonicalLeft, CanonicalPointersUsable, CanonicalTempUsable
  <2>4. ReaderLeft'
    BY <1>a, <1>g DEF ReaderLeft
  <2>5. CandidateLeft'
    BY <1>a DEF CandidateLeft
  <2> QED BY <2>1, <2>2, <2>3, <2>4, <2>5
<1>10. LostOnlyWhenScarred'
  BY <1>a, OtherWord
<1> QED BY <1>1, <1>2, <1>3, <1>4, <1>5, <1>6, <1>7, <1>8, <1>9, <1>10 DEF IInv

LEMMA HaltStep == ASSUME IInv, Halt PROVE IInv'
<1>a. /\ pc # "idle"
      /\ pc' = "idle" /\ hand' = NoRun /\ attempts' = <<>> /\ reason' = "none"
      /\ result' = "halted"
      /\ scarred' = (scarred \/ NoRecovery)
      /\ UNCHANGED <<unfit, advanced, release, ocr, ocrTemp, ocrCurrent, canonical,
                    canonicalTemp, canonicalCopy, canonicalCurrent, semantic, semanticCurrent,
                    material, materialNext, materialCurrent, moved>>
  BY DEF Halt, Stop, work, ocrVars, canonicalVars, readerVars, candidateVars
<1>1. TypeOK'
  BY <1>a, RunsAssumption, ReleasesAssumption DEF IInv, TypeOK, UnfitTypeOK, OcrTypeOK,
     CanonicalTypeOK, ReaderTypeOK, CandidateTypeOK, Inputs, Runs, NoRun, Torn, Stages, OcrOutcomes, OcrTransient,
     AttemptKinds, OcrReasons, ReaderReasons, ReaderAttempts
<1>2. UniqueInv'
  BY <1>a, SameTrees
<1>3. AttemptsInv'
  BY <1>a DEF IInv, AttemptsInv
<1>4. OcrInv'
  BY <1>a DEF IInv, OcrInv, AfterOcr, AfterCanonical, CanonicalPcs, ReaderPcs, CandidatePcs
<1>5. CanonicalInv'
  BY <1>a DEF IInv, CanonicalInv, CanonicalPcs, AfterCanonical, ReaderPcs, CandidatePcs
<1>6. ReaderInv'
  BY <1>a DEF IInv, ReaderInv, ReaderMaking, CandidatePcs
<1>7. CandidateInv'
  BY <1>a DEF IInv, CandidateInv, OfReader
<1>8. MovedInv'
  BY <1>a, NothingMoves
<1>9. CleanInv'
  <2> SUFFICES ASSUME ~scarred, ~NoRecovery
               PROVE  (/\ OcrLeft /\ PendingIsDownstream
                       /\ CanonicalLeft /\ ReaderLeft /\ CandidateLeft)'
    BY <1>a DEF CleanInv
  <2>1. OcrLeft /\ PendingIsDownstream /\ CanonicalLeft /\ ReaderLeft /\ CandidateLeft
    BY DEF IInv, CleanInv
  <2>2. pc \in OcrPcs \union CanonicalPcs \union ReaderPcs \union CandidatePcs
    BY <1>a DEF IInv, TypeOK
  <2>3. OcrLeft'
    <3>1. CASE pc \in {"ocr_replace", "ocr_unlink"}
      <4>1. ocrTemp = hand /\ hand \in Formal(ocr) \intersect Made(ocr, release) /\ hand \in Runs
        BY <3>1, TreesAre DEF IInv, OcrInv
      <4>2. ocrCurrent \in {NoRun, hand}
        BY <3>1 DEF IInv, OcrInv, NoRecovery
      <4>3. OcrMatches = {hand}
        BY <4>1 DEF IInv, UniqueInv, Unique, OcrMatches, Made
      <4>4. OcrTempUsable
        BY <4>1, <4>2, <4>3, NoRunIsNone DEF OcrTempUsable
      <4> QED BY <1>a, <4>4 DEF OcrLeft, OcrTempUsable, OcrMatches
    <3>2. CASE pc \notin {"ocr", "ocr_replace", "ocr_unlink"}
      <4>1. ocrTemp = NoRun
        BY <3>2, <2>2 DEF IInv, OcrInv, AfterOcr, AfterCanonical, OcrPcs, NoRecovery
      <4> QED BY <1>a, <4>1 DEF OcrLeft
    <3>3. CASE pc = "ocr"
      BY <1>a, <2>1, <3>3 DEF OcrLeft, OcrTempUsable, OcrMatches
    <3> QED BY <3>1, <3>2, <3>3
  <2>4. PendingIsDownstream'
    BY <1>a, <2>1 DEF PendingIsDownstream, OcrMatches, CanonicalMatches, OfCanonical, Made
  <2>5. CanonicalLeft'
    <3>1. Staged(canonical) \subseteq CanonicalMatches /\ CanonicalPointersUsable
      <4>1. CASE pc \in CanonicalPcs \ {"canonical"}
        BY <4>1 DEF IInv, CanonicalInv, CanonicalPcs, NoRecovery, CanonicalPointersUsable,
           CanonicalTempUsable
      <4> QED BY <2>1, <4>1 DEF CanonicalLeft
    <3> QED BY <1>a, <3>1 DEF CanonicalLeft, CanonicalPointersUsable, CanonicalTempUsable,
               CanonicalMatches
  <2>6. ReaderLeft'
    <3>1. \A r \in Staged(semantic) : ReaderInterruptible(r)
      <4>1. CASE pc \in {"reader_current", "reader_replace"}
        BY <4>1 DEF IInv, ReaderInv
      <4>2. CASE pc \in {"reader_attempt", "reader_stop", "reader_result"}
        <5>1. hand \in Staged(semantic) /\ OfCanonical(hand) /\ \A r \in Staged(semantic) : r = hand
          BY <4>2 DEF IInv, ReaderInv, ReaderMaking
        <5>2. semantic[hand].state = "begun"
          BY <4>2 DEF IInv, ReaderInv, NoRecovery
        <5> QED BY <5>1, <5>2 DEF ReaderInterruptible
      <4>3. CASE pc \notin ReaderPcs \ {"reader"}
        BY <2>1, <4>3 DEF ReaderLeft
      <4> QED BY <4>1, <4>2, <4>3 DEF ReaderPcs, NoRecovery
    <3> QED BY <1>a, <3>1 DEF ReaderLeft, ReaderInterruptible, OfCanonical
  <2>7. CandidateLeft'
    BY <1>a, <2>1 DEF CandidateLeft, NoRecovery
  <2> QED BY <2>3, <2>4, <2>5, <2>6, <2>7
<1>10. LostOnlyWhenScarred'
  BY <1>a, OtherWord
<1> QED BY <1>1, <1>2, <1>3, <1>4, <1>5, <1>6, <1>7, <1>8, <1>9, <1>10 DEF IInv

LEMMA UpgradeStep == ASSUME IInv, Upgrade PROVE IInv'
<1>a. /\ pc = "idle"
      /\ release < Releases /\ release' = release + 1
      /\ scarred' = (scarred \/ Pending \/ semanticCurrent # NoRun)
      /\ UNCHANGED <<unfit, pc, hand, attempts, reason, advanced, result, ocr,
                    ocrTemp, ocrCurrent, canonical, canonicalTemp, canonicalCopy,
                    canonicalCurrent, semantic, semanticCurrent, material, materialNext,
                    materialCurrent, moved>>
  BY DEF Upgrade, work, ocrVars, canonicalVars, readerVars, candidateVars
<1>1. TypeOK'
  BY <1>a, RunsAssumption, ReleasesAssumption DEF IInv, TypeOK, UnfitTypeOK, OcrTypeOK,
     CanonicalTypeOK, ReaderTypeOK, CandidateTypeOK
<1>2. UniqueInv'
  BY <1>a, SameTrees
<1>3. AttemptsInv'
  BY <1>a DEF IInv, AttemptsInv
<1>4. OcrInv'
  BY <1>a DEF IInv, OcrInv, AfterOcr, AfterCanonical, CanonicalPcs, ReaderPcs, CandidatePcs
<1>5. CanonicalInv'
  BY <1>a DEF IInv, CanonicalInv, CanonicalMatches
<1>6. ReaderInv'
  BY <1>a DEF IInv, ReaderInv, ReaderMaking
<1>7. CandidateInv'
  BY <1>a DEF IInv, CandidateInv, OfReader
<1>8. MovedInv'
  BY <1>a DEF IInv, MovedInv, AdvanceIsReported
<1>9. CleanInv'
  <2> SUFFICES ASSUME ~scarred, ~Pending, semanticCurrent = NoRun
               PROVE  (/\ OcrLeft /\ PendingIsDownstream
                       /\ CanonicalLeft /\ ReaderLeft /\ CandidateLeft)'
    BY <1>a DEF CleanInv
  <2>1. CanonicalLeft /\ CandidateLeft
    BY DEF IInv, CleanInv
  <2>2. /\ ocrTemp = NoRun /\ Staged(canonical) = {} /\ canonicalTemp = NoRun
        /\ Staged(semantic) = {}
    BY DEF Pending
  <2>3. CanonicalPointersUsable
    BY <1>a, <2>1 DEF CanonicalLeft, CanonicalPcs
  <2>4. OcrLeft' /\ PendingIsDownstream' /\ ReaderLeft'
    BY <1>a, <2>2 DEF OcrLeft, PendingIsDownstream, ReaderLeft
  <2>5. CanonicalLeft' /\ CandidateLeft'
    BY <1>a, <2>1, <2>2, <2>3 DEF CanonicalLeft, CandidateLeft, CanonicalPointersUsable,
       CanonicalTempUsable
  <2> QED BY <2>4, <2>5
<1>10. LostOnlyWhenScarred'
  BY <1>a DEF IInv, LostOnlyWhenScarred
<1> QED BY <1>1, <1>2, <1>3, <1>4, <1>5, <1>6, <1>7, <1>8, <1>9, <1>10 DEF IInv

LEMMA StutterStep == ASSUME IInv, UNCHANGED vars PROVE IInv'
<1>a. UNCHANGED <<unfit, pc, hand, attempts, reason, advanced, result, release, ocr,
                    ocrTemp, ocrCurrent, canonical, canonicalTemp, canonicalCopy,
                    canonicalCurrent, semantic, semanticCurrent, material, materialNext,
                    materialCurrent, moved, scarred>>
  BY DEF vars, command, work, ocrVars, canonicalVars, readerVars, candidateVars
<1>1. TypeOK'
  BY <1>a DEF IInv, TypeOK, UnfitTypeOK, OcrTypeOK, CanonicalTypeOK, ReaderTypeOK, CandidateTypeOK
<1>2. UniqueInv'
  BY <1>a, SameTrees
<1>3. AttemptsInv'
  BY <1>a DEF IInv, AttemptsInv
<1>4. OcrInv'
  BY <1>a DEF IInv, OcrInv
<1>5. CanonicalInv'
  BY <1>a DEF IInv, CanonicalInv, CanonicalMatches
<1>6. ReaderInv'
  BY <1>a DEF IInv, ReaderInv, ReaderMaking, Made, OfCanonical
<1>7. CandidateInv'
  BY <1>a DEF IInv, CandidateInv, OfReader
<1>8. MovedInv'
  BY <1>a DEF IInv, MovedInv, AdvanceIsReported
<1>9. CleanInv'
  BY <1>a DEF IInv, CleanInv, OcrLeft, PendingIsDownstream, CanonicalLeft, ReaderLeft,
     CandidateLeft, OcrTempUsable, OcrMatches, CanonicalMatches, CanonicalPointersUsable,
     CanonicalTempUsable, ReaderInterruptible, OfCanonical, Made
<1>10. LostOnlyWhenScarred'
  BY <1>a, SameWord
<1> QED BY <1>1, <1>2, <1>3, <1>4, <1>5, <1>6, <1>7, <1>8, <1>9, <1>10 DEF IInv

(************************** the invariant is inductive ***********************)

LEMMA EmptyIs ==
  ASSUME NEW states
  PROVE  /\ EmptyTree \in Trees(states)
         /\ Staged(EmptyTree) = {} /\ Formal(EmptyTree) = {} /\ Whole(EmptyTree) = {}
BY DEF EmptyTree, Absent, Trees, Staged, Formal, Whole

LEMMA InitIsFine == ASSUME Init PROVE IInv
<1>a. /\ pc = "idle" /\ hand = NoRun /\ attempts = <<>> /\ reason = "none" /\ advanced = {}
      /\ result = "none" /\ release = 1 /\ unfit = {} /\ moved = {} /\ scarred = FALSE
      /\ ocrTemp = NoRun /\ ocrCurrent = NoRun /\ canonicalTemp = NoRun /\ canonicalCopy = NoRun
      /\ canonicalCurrent = NoRun /\ semanticCurrent = NoRun
      /\ materialNext = NoRun /\ materialCurrent = NoRun
  BY DEF Init, OcrInit, CanonicalInit, ReaderInit, CandidateInit
<1>t. \A tree \in {ocr, canonical, semantic, material} :
         Staged(tree) = {} /\ Formal(tree) = {} /\ Whole(tree) = {}
  BY EmptyIs DEF Init, OcrInit, CanonicalInit, ReaderInit, CandidateInit
<1>1. TypeOK
  <2>1. /\ ocr \in Trees(OcrStates) /\ canonical \in Trees({"partial", "succeeded"})
        /\ semantic \in Trees(ReaderStates) /\ material \in Trees({"partial", "succeeded"})
    BY EmptyIs DEF Init, OcrInit, CanonicalInit, ReaderInit, CandidateInit
  <2>2. attempts \in Seq(OcrOutcomes \union AttemptKinds) /\ Len(attempts) <= ReaderAttempts
    BY <1>a DEF ReaderAttempts
  <2>3. release \in 1..Releases
    BY <1>a, RunsAssumption, ReleasesAssumption
  <2>4. 0 \in Inputs
    BY RunsAssumption DEF Inputs
  <2>5. OcrTypeOK /\ CanonicalTypeOK /\ ReaderTypeOK /\ CandidateTypeOK /\ UnfitTypeOK
    BY <1>a, <2>1, <2>4 DEF OcrTypeOK, CanonicalTypeOK, ReaderTypeOK, CandidateTypeOK,
       UnfitTypeOK,
       NoRun
  <2>6. scarred \in BOOLEAN /\ moved \subseteq Stages \union {"reader"} /\ advanced \subseteq Stages
    BY <1>a
  <2> QED BY <1>a, <2>2, <2>3, <2>4, <2>5, <2>6 DEF TypeOK, NoRun
<1>2. UniqueInv /\ AttemptsInv
  BY <1>a, <1>t DEF UniqueInv, Unique, AttemptsInv
<1>3. OcrInv
  BY <1>a DEF OcrInv, AfterOcr, AfterCanonical, CanonicalPcs, ReaderPcs, CandidatePcs
<1>4. CanonicalInv
  BY <1>a DEF CanonicalInv, AfterCanonical, CanonicalPcs, ReaderPcs, CandidatePcs
<1>5. ReaderInv
  BY <1>a, <1>t DEF ReaderInv, ReaderMaking, CandidatePcs
<1>6. CandidateInv
  BY <1>a, <1>t DEF CandidateInv
<1>7. MovedInv
  BY <1>a DEF MovedInv, AdvanceIsReported
<1>8. CleanInv
  BY <1>a, <1>t, NoRunIsNone DEF CleanInv, OcrLeft, PendingIsDownstream, CanonicalLeft,
     ReaderLeft, CandidateLeft, CanonicalPointersUsable
<1>9. LostOnlyWhenScarred
  BY <1>a DEF LostOnlyWhenScarred
<1> QED BY <1>1, <1>2, <1>3, <1>4, <1>5, <1>6, <1>7, <1>8, <1>9 DEF IInv

LEMMA NextStep == ASSUME IInv, [Next]_vars PROVE IInv'
<1>1. CASE OcrNext /\ OcrOnly
  BY <1>1, OcrLostStep, OcrRepairStep, OcrReuseStep, OcrRecoverStep, OcrBeginStep, OcrNativeStep,
     OcrUnresolvedStep, OcrAttemptStep, OcrOverBudgetStep, OcrFinishStep, OcrCommitStep,
     OcrPublishStep, OcrTempWrittenStep, OcrReplaceStep, OcrUnlinkStep DEF OcrNext,
     OcrProviderStep
<1>2. CASE CanonicalNext /\ CanonicalOnly
  BY <1>2, CanonicalLostStep, CanonicalRepairStep, CanonicalReuseStep, CanonicalRecoverStep,
     CanonicalRefusedStep, CanonicalBeginStep, CanonicalFillStep, CanonicalCommitStep,
     CanonicalPublishStep,
     CanonicalTempWrittenStep, CanonicalCopyBeginStep, CanonicalCopyWrittenStep,
     CanonicalReplaceStep, CanonicalUnlinkStep DEF CanonicalNext
<1>3. CASE ReaderNext /\ ReaderOnly
  BY <1>3, ReaderUnavailableStep, ReaderLostStep, ReaderInterruptStep, ReaderInterruptedStep,
     ReaderCleanStep, ReaderReuseStep, ReaderForeignCurrentStep, ReaderRecoverStep,
     ReaderInputRefusedStep, ReaderBeginStep,
     ReaderPrepareStep, ReaderRefusedStep, ReaderAttemptStep, ReaderRecordStep, ReaderStopStep,
     ReaderStoppedStep, ReaderResultStep, ReaderCommitStep, ReaderReplaceStep DEF ReaderNext
<1>4. CASE CandidateNext /\ CandidateOnly
  BY <1>4, CandidateLostStep, CandidateNextPointerStep, CandidateCommitNextStep,
     CandidateStagingStep, CandidateReuseStep, CandidateRecoverStep, CandidateRefusedStep,
     CandidateBeginStep,
     CandidateFillStep, CandidateCommitStep, CandidatePublishStep, CandidatePointerStep,
     CandidateReplaceStep DEF CandidateNext
<1>5. CASE Start \/ Pass \/ Halt \/ Upgrade
  BY <1>5, StartStep, PassStep, HaltStep, UpgradeStep
<1>6. CASE UNCHANGED vars
  BY <1>6, StutterStep
<1> QED
  BY <1>1, <1>2, <1>3, <1>4, <1>5, <1>6 DEF Next, CommandStep, StageStep, OcrOnly, CanonicalOnly,
     ReaderOnly, CandidateOnly, Along

THEOREM Invariance == Spec => []IInv
<1>1. Init => IInv
  BY InitIsFine
<1>2. IInv /\ [Next]_vars => IInv'
  BY NextStep
<1> QED BY <1>1, <1>2, PTL DEF Spec

(************************************ theorems *******************************)

\* Every variable keeps its type: a run is absent, staged or formal, and a pointer names a
\* run, is torn or is absent.
THEOREM TypeCorrect == Spec => []TypeOK
<1>1. IInv => TypeOK
  BY DEF IInv
<1> QED BY <1>1, Invariance, PTL

\* No input is ever given two whole successes, in any of the four trees.
THEOREM OneSuccess == Spec => []OneSuccessPerInput
<1>1. IInv => OneSuccessPerInput
  <2> SUFFICES ASSUME IInv, NEW tree \in {ocr, canonical, semantic, material}, NEW i \in 1..MaxRuns
               PROVE  Cardinality(Made(tree, i)) <= 1
    BY DEF OneSuccessPerInput
  <2>1. Made(tree, i) \in SUBSET Runs
    BY TreesAre DEF Made
  <2>2. \A r, s \in Made(tree, i) : r = s
    BY DEF IInv, UniqueInv, Unique, Made
  <2> QED BY <2>1, <2>2, AtMostOne
<1> QED BY <1>1, Invariance, PTL

\* A command that got through leaves each pointer on a formal success of what the pointer
\* before it names, and nothing half replaced.
THEOREM PassedDerived == Spec => []PassedIsDerived
<1>1. IInv => PassedIsDerived
  <2> SUFFICES ASSUME IInv, pc = "review" PROVE PassedIsDerived
    BY DEF PassedIsDerived
  <2>1. pc \in CandidatePcs /\ pc \in AfterCanonical /\ pc \in AfterOcr
    BY DEF CandidatePcs, AfterCanonical, AfterOcr
  <2>2. /\ materialCurrent \in Formal(material) \intersect Made(material, semanticCurrent)
        /\ materialNext = NoRun
    BY DEF IInv, CandidateInv, OfReader, Made
  <2> QED BY <2>1, <2>2, OcrDone, CanonicalDone, ReaderDone DEF PassedIsDerived
<1> QED BY <1>1, Invariance, PTL

\* What a command reports as advanced is what it made current.
THEOREM AdvanceReported == Spec => []AdvanceIsReported
<1>1. IInv => AdvanceIsReported
  BY DEF IInv, MovedInv
<1> QED BY <1>1, Invariance, PTL

\* A command stops as uncertain or as having lost an asset only on a Work where a halt or an
\* upgrade fell in a window that the code does not recover from.
THEOREM LostScarred == Spec => []LostOnlyWhenScarred
<1>1. IInv => LostOnlyWhenScarred
  BY DEF IInv
<1> QED BY <1>1, Invariance, PTL

(* How the OCR tree and the Reader's tree change. *)
LEMMA OcrGrows ==
  ASSUME IInv, [Next]_vars
  PROVE  \/ UNCHANGED ocr
         \/ \E r \in Free(ocr) : ocr' = Mkdir(ocr, r, release) /\ Made(ocr, release) = {}
         \/ \E r \in Staged(ocr) \ Whole(ocr), state \in OcrStates : ocr' = Becomes(ocr, r, state)
         \/ \E r \in Staged(ocr) : ocr' = Renamed(ocr, r)
<1>1. CASE OcrBegin
  BY <1>1 DEF OcrBegin, IsNext, OcrMatches
<1>2. CASE OcrFinish
  BY <1>2 DEF OcrFinish, IInv, OcrInv, OcrStates
<1>3. CASE OcrCommit
  BY <1>3 DEF OcrCommit, IInv, OcrInv
<1>4. CASE UNCHANGED ocr
  BY <1>4
<1>5. OcrBegin \/ OcrFinish \/ OcrCommit \/ UNCHANGED ocr
  <2>1. CASE OcrNext
    BY <2>1 DEF OcrNext, OcrProviderStep, OcrLost, OcrRepair, OcrReuse, OcrRecover, OcrNative,
       OcrUnresolved, OcrAttempt, OcrOverBudget, OcrPublish, OcrTempWritten, OcrReplace,
       OcrUnlink,
       ocrVars
  <2>2. CASE ~OcrNext
    BY <2>2 DEF Next, Start, CommandStep, StageStep, Pass, Halt, Upgrade, work, vars, ocrVars
  <2> QED BY <2>1, <2>2
<1> QED BY <1>1, <1>2, <1>3, <1>4, <1>5

LEMMA SemanticGrows ==
  ASSUME IInv, [Next]_vars
  PROVE  \/ UNCHANGED semantic
         \/ \E r \in Free(semantic) :
              semantic' = Mkdir(semantic, r, canonicalCurrent) /\ Made(semantic, canonicalCurrent) = {}
         \/ \E r \in Staged(semantic) \ Whole(semantic), state \in ReaderStates :
              semantic' = Becomes(semantic, r, state)
         \/ \E r \in Staged(semantic) : semantic' = Renamed(semantic, r)
<1> DEFINE Making == ReaderPrepare \/ ReaderAttempt \/ ReaderRecord \/ ReaderStop \/ ReaderResult
           Moving == ReaderInterrupted \/ ReaderStopped \/ ReaderCommit
<1>1. CASE ReaderBegin
  <2>1. Made(semantic, canonicalCurrent) = {}
    BY <1>1, TreesAre DEF ReaderBegin, ReaderMatches, Made, IInv, ReaderInv
  <2> QED BY <1>1, <2>1 DEF ReaderBegin, IsNext
<1>2. CASE ReaderInterrupt
  BY <1>2 DEF ReaderInterrupt, ReaderInterruptible, Whole, ReaderStates
<1>3. CASE Making
  <2>1. hand \in Staged(semantic) \ Whole(semantic)
    BY <1>3 DEF ReaderPrepare, ReaderAttempt, ReaderRecord, ReaderStop, ReaderResult, IInv,
       ReaderInv, ReaderMaking
  <2>2. \E state \in ReaderStates : semantic' = Becomes(semantic, hand, state)
    BY <1>3 DEF ReaderPrepare, ReaderAttempt, ReaderRecord, ReaderStop, ReaderResult, ReaderStates
  <2> QED BY <2>1, <2>2
<1>4. CASE Moving
  <2>1. hand \in Staged(semantic)
    BY <1>4 DEF ReaderInterrupted, ReaderStopped, ReaderCommit, IInv, ReaderInv
  <2> QED BY <1>4, <2>1 DEF ReaderInterrupted, ReaderStopped, ReaderCommit
<1>5. CASE UNCHANGED semantic
  BY <1>5
<1>6. ReaderBegin \/ ReaderInterrupt \/ Making \/ Moving \/ UNCHANGED semantic
  <2>1. CASE ReaderNext
    BY <2>1 DEF ReaderNext, ReaderUnavailable, ReaderLost, ReaderClean, ReaderReuse,
       ReaderForeignCurrent, ReaderRecover, ReaderInputRefused, ReaderRefused, ReaderReplace,
       readerVars
  <2>2. CASE ~ReaderNext
    BY <2>2 DEF Next, Start, CommandStep, StageStep, Pass, Halt, Upgrade, work, vars, readerVars
  <2> QED BY <2>1, <2>2
<1> QED BY <1>1, <1>2, <1>3, <1>4, <1>5, <1>6

(* A tree that grows like this keeps what was paid for. *)
LEMMA BecomesKeeps ==
  ASSUME NEW states, NEW tree \in Trees(states), NEW r \in Staged(tree) \ Whole(tree),
         NEW state \in states, NEW next, next = Becomes(tree, r, state)
  PROVE  /\ \A s \in Whole(tree) : s \in Whole(next) /\ next[s].of = tree[s].of
         /\ Formal(next) = Formal(tree) /\ Staged(next) = Staged(tree)
<1>1. /\ Staged(next) = Staged(tree) /\ Formal(next) = Formal(tree)
      /\ Whole(tree) \subseteq Whole(next) /\ Whole(tree) \subseteq Runs
      /\ \A s \in Runs : next[s].of = tree[s].of
  BY BecomesIs
<1> QED BY <1>1

LEMMA GrowthKeeps ==
  ASSUME NEW states, "partial" \in states, NEW tree \in Trees(states), NEW input \in Inputs, NEW next,
         \/ next = tree
         \/ \E r \in Free(tree) : next = Mkdir(tree, r, input) /\ Made(tree, input) = {}
         \/ \E r \in Staged(tree) \ Whole(tree), state \in states : next = Becomes(tree, r, state)
         \/ \E r \in Staged(tree) : next = Renamed(tree, r)
  PROVE  /\ \A r \in Whole(tree) : r \in Whole(next) /\ next[r].of = tree[r].of
         /\ Formal(tree) \subseteq Formal(next)
         /\ \A r \in Staged(next) \ Staged(tree) : Made(tree, next[r].of) = {}
<1>1. CASE next = tree
  BY <1>1
<1>2. CASE \E r \in Free(tree) : next = Mkdir(tree, r, input) /\ Made(tree, input) = {}
  BY <1>2, MkdirIs
<1>3. CASE \E r \in Staged(tree) \ Whole(tree), state \in states : next = Becomes(tree, r, state)
  BY <1>3, BecomesKeeps
<1>4. CASE \E r \in Staged(tree) : next = Renamed(tree, r)
  BY <1>4, RenamedIs
<1> QED BY <1>1, <1>2, <1>3, <1>4

\* A success is never overwritten or removed, a formal run stays, and no run is begun while
\* a success of its input stands.
THEOREM WorkStays == Spec => WorkStaysDone
<1> DEFINE Kept ==
      /\ \A r \in Whole(ocr) : ocr'[r].state = "succeeded" /\ ocr'[r].of = ocr[r].of
      /\ \A r \in Whole(semantic) : semantic'[r].state = "succeeded"
      /\ Formal(ocr) \subseteq Formal(ocr)' /\ Formal(semantic) \subseteq Formal(semantic)'
      /\ \A r \in Staged(ocr)' \ Staged(ocr) : Made(ocr, ocr'[r].of) = {}
      /\ \A r \in Staged(semantic)' \ Staged(semantic) : Made(semantic, semantic'[r].of) = {}
<1>1. IInv /\ [Next]_vars => Kept
  <2> SUFFICES ASSUME IInv, [Next]_vars PROVE Kept
    OBVIOUS
  <2>1. /\ ocr \in Trees(OcrStates) /\ semantic \in Trees(ReaderStates)
        /\ release \in Inputs /\ canonicalCurrent \in Inputs
        /\ "partial" \in OcrStates /\ "partial" \in ReaderStates
    BY RunsAssumption, ReleasesAssumption DEF IInv, TypeOK, OcrTypeOK, CanonicalTypeOK,
       ReaderTypeOK, Inputs, OcrStates, ReaderStates
  <2>2. /\ \A r \in Whole(ocr) : r \in Whole(ocr') /\ ocr'[r].of = ocr[r].of
        /\ Formal(ocr) \subseteq Formal(ocr')
        /\ \A r \in Staged(ocr') \ Staged(ocr) : Made(ocr, ocr'[r].of) = {}
    BY <2>1, OcrGrows, GrowthKeeps
  <2>3. /\ \A r \in Whole(semantic) : r \in Whole(semantic')
        /\ Formal(semantic) \subseteq Formal(semantic')
        /\ \A r \in Staged(semantic') \ Staged(semantic) : Made(semantic, semantic'[r].of) = {}
    BY <2>1, SemanticGrows, GrowthKeeps
  <2> QED BY <2>2, <2>3 DEF Whole
<1> QED BY <1>1, Invariance, PTL DEF Spec, WorkStaysDone

=================================================================================
