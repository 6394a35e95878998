# Gezhi: specification and proofs

Gezhi is a Windows command line program for one researcher. `gezhi literature …`
takes PDFs in, turns them into text, lets an LLM agent read them and extracts
Candidates of knowledge that the human reviews; `gezhi knowledge …` keeps the
reviewed Candidates and answers questions from them. Everything lives in files
and SQLite databases under two Data Roots, Literature and Knowledge, which
several processes may work on at the same time. There is no daemon and no retry
by itself: a command ends, or dies, and the next one has to make sense of what it
finds.

This directory holds TLA+ models of the parts of the program where order, failure
and concurrency matter, the TLC runs that check them on small instances, and
TLAPS proofs for every value of the constants. All source paths below are
relative to `src/src/gezhi/` unless they say otherwise.

    tlasany CandidateReview.tla
    tlc -workers 2 -config review_safety.cfg MCCandidateReview
    tlapm AnswerTerminalProofs.tla

## 1. The system

| Component | State it keeps | Operations | What is hard about it |
|---|---|---|---|
| Native cancellation latch, `native/knowledge_cancellation/gezhi_cancel_v1.c` | interlocked words: phase/latch/generation/token, gate, observers, in-flight count, observation, poison | console handler; arm, activate, snapshot, try_begin_work, cutover, conditional_seal, release | every Ctrl+C is a new thread that races the main thread, lock-free |
| Cancellation bridge, `_knowledge_cancellation.py`, `run_ask` of `_knowledge_commands.py` | what the last snapshot said, candidate token | validates every snapshot, loops on the seal, proves the release | a stale snapshot must never be sealed into the report |
| Answer terminal, `_answer_terminal.py` | `answers/.staging/<id>`, `answers/<id>`, writer mutex | scan and recover orphans, publish an Answer | crashes between any two file operations, renames with an unclear outcome |
| Knowledge intake, `_knowledge_intake.py`, `_knowledge_registry.py` | `imports/<handoff_id>`, `registry.sqlite3`, Registry mutex | `apply(handoff)`: evidence, bootstrap or upgrade, accept or withdraw transaction | evidence and Registry commit separately; derived tables must follow the history |
| Candidate review, `_literature_review.py` | `reviews/<candidate>/…`: decisions, current.json, no-action receipts, Handoffs, import attempts and receipts; Knowledge's Registry at a distance | `literature review`, the review part of `literature resume` | two Data Roots without a common transaction, lost acknowledgements, superseded decisions |
| Local PDF intake, `_literature_intake.py`, `_work_id.py` | Works, staged Works, reservations, catalog, three mutexes | `literature add` | identity is decided under one mutex, committed under another, projected under a third |
| Writer ownership, `_windows_ownership.py` | named mutexes, a registry per process | acquire, close, "is somebody active" | abandoned mutexes, close in the wrong order |
| OCR and resume, `_literature_resume.py` | OCR runs, staging, `current.json` | seven stages of `literature resume` | dies between run and pointer; must neither redo nor skip paid work |
| Canonical, Reader and Candidate stages, `_literature_canonical.py`, `_literature_reader.py`, `_literature_candidate.py` | runs and `current.json` of each stage | advance the stage, adopt a staged success | the same protocol, the Reader with a Codex attempt inside |
| Knowledge ask, `_knowledge_ask.py` | stage of one invocation | barriers, retrieval, synthesis, publication | each barrier takes another branch once a Ctrl+C came |
| Knowledge answerer, `_knowledge_answerer.py`, `_knowledge_attempt_events.py` | attempts, shared deadline | up to three Codex attempts with backoff | cancellation, deadline and retry due together |
| Codex child process, `_codex_child_process.py` | Job object, pipes, three threads | one attempt with commit gate, deadlines, drain | threads, late facts, classification |
| Codex runtime and role plan, `_codex_runtime.py`, `_codex_role_plan.py` | none | prove the pinned runtime, build a command line | sequential checks |
| Knowledge reads, `_knowledge_read.py` | none, one SQLite snapshot | search, show | show opens evidence files that the snapshot does not cover; both refuse for good what they take for corrupt |
| Retrieval, `_knowledge_retrieval.py` | none | normalise the query, split it into atoms | a text algorithm |
| Status, `_literature_status.py`, `_knowledge_status.py`, `_status_runtime.py` | none | projections | read-only |
| Doctor and bounded probe, `_operations.py`, `_doctor_runtime.py`, `_bounded_probe.py` | a child process, two readers | probe with a deadline | timeout against overflow against exit |
| Data Root, `_windows_data_root.py` | handles, identities | no-follow open, exclusive create, checkpoints | any check may fail at any time |
| CLI and presentation, `_cli.py` and others | none | grammar, configuration, text | sequential |

How they interact:

- `knowledge ask` arms the **latch**, scans with the **Answer terminal**, cuts over
  to an Answer ID under the latch, retrieves, lets the **answerer** run **Codex
  children**, publishes with the Answer terminal, seals the latch and presents.
- `literature add` is the **PDF intake**; `literature resume` drives OCR, canonical,
  Reader and Candidate stages of one Work and then the **review** continuation.
- **Candidate review** calls **Knowledge intake** in the same process, through an
  adapter that opens the other Data Root. This is the only link between the roots.
- Mutual exclusion is by named Windows mutexes (**writer ownership**): identity
  intake, one per Work, catalog projection, Registry and Answer writer. No mutex is
  ever waited for; who finds one taken stops. Windows frees the mutexes of a
  process that dies.

What makes each part correct: the sealed report tells exactly whether the command
was cancelled (latch, bridge); a formal path holds a whole Answer or nothing, and
a report never contradicts the disk (Answer terminal); the Registry never names
evidence that is missing, and what can be retrieved follows from the recorded
history (intake); Knowledge agrees with the human's last decision whenever the
program says so (review); a PDF belongs to one Work, and a success is visible in
the catalog (PDF intake); one success per stage and profile, never redone and
never lost (stages); an attempt ends, once, with the first cause (answerer, child,
probe).

## 2. Modules

| Module | Role |
|---|---|
| `CancellationWindow` | abstract: what the latch and the bridge promise to `ask` |
| `CancellationLatch` | latch, bridge and seal loop, one interlocked operation per action |
| `CancellationLatchProofs` | its proofs: type and counters, publication, seal, refinement, no refusal without a cancellation |
| `AnswerStore` | abstract: Answers appear whole, once, and receipts are true |
| `AnswerTerminal`, `AnswerTerminalProofs` | scan, recovery and publication of several invocations; its proofs |
| `KnowledgeRegistry` | abstract: the history of Handoffs; used by two modules |
| `KnowledgeIntake`, `KnowledgeIntakeProofs` | `apply` with evidence, transactions and crashes; its proofs, with the refinement of `KnowledgeRegistry` and the reads |
| `CandidateReview`, `CandidateReviewProofs` | decisions, Handoffs, imports; composed with `KnowledgeRegistry` as its Knowledge; its proofs |
| `LocalPdfIntake`, `LocalPdfIntakeProofs` | several processes that add PDFs; its proofs |
| `KnowledgeRead` | `search` and `show` as operators of the state `KnowledgeIntake` keeps changing |
| `ResumeCommand` | what the stages of `literature resume` share: the command, run trees |
| `OcrStage`, `CanonicalStage`, `ReaderStage`, `CandidateStage` | one stage each: runs, staging, pointers, recovery |
| `LiteratureResume`, `LiteratureResumeProofs` | composes the four stages with halts and new releases; its proofs |
| `CodexAttempt` | abstract: what one Codex attempt promises to its caller |
| `CodexChildProcess`, `CodexChildProcessProofs` | supervisor, two worker threads, process tree, pipes, deadlines; its proofs, with the refinement of `CodexAttempt` |
| `AnswerVerdict` | which terminal requests the publication and the reader accept |
| `KnowledgeAnswerer` | attempts, backoff, shared deadline; uses the classification of `CodexAttempt` |
| `KnowledgeAsk`, `KnowledgeAskProofs` | the whole command around the answerer: barriers, cutover, publication, seal, exit; its proofs |
| `MC…` | constants and symmetry for TLC |

`KnowledgeRegistry` is the seam between the two Data Roots: `KnowledgeIntake` is shown
to implement it, `CandidateReview` records Handoffs only through its action `Record`.
`CodexAttempt` is the seam below the answerer in the same way: `CodexChildProcess`
implements it, and `KnowledgeAnswerer` classifies its attempts with the operator
`MechanicalOutcome` of that module. `LiteratureResume` ends where `CandidateReview`
begins.

Definitions named in a comment as *Mutant* are not part of any specification: each
is a plausible slip in the definition below it, and shows that a property would
notice the slip.

### CancellationLatch

One element of `Handlers` is one Ctrl+C delivery on its own thread, with its
place in `pc`; the main thread has `mpc`. The variables are the words of
`gezhi_cancel_v1.c` (`control` is the packed 64-bit word as a record, the gate and
the observer word are counters with their flag bits) and what the bridge holds
(`view`, `snap`, `token`, `outcome`). Every action is one interlocked operation;
a CAS that loses only loads again and is no step. A bounded spin may give up
whenever its condition was false at its last look, as on a machine that does not
schedule the other thread. `gezhi_cancel_v1_snapshot` is nine reads, one
step each, and starts again if the words moved. `SealReport … SealReopen` is the loop of
`run_ask`. Failing system calls (QueryPerformanceCounter, SetConsoleCtrlHandler)
are choices. Left out: 4096 lost CAS races in a row, the no-source profile of the
bridge (a single thread), DLL identity checks.

### AnswerTerminal

One element of `Asks` is one process that runs the command once, `Ids` are Answer
IDs, `Trees` tell how much of an Answer a directory holds and who wrote it. Each
action is one visible access to the file system; `Crash` may come between any two
of them, a look may fail, `Rename` may take place and report an error, `Plant`
puts an entry at a formal path that no ask wrote. `Inspect … OrphanDone` is
`scan_answer_staging_v1`, `Begin … CommitDone` is `publish_answer_v1` and
`_publish_answer_report_v1`. The bytes of the assets and the JSON validation are
the predicate `Whole`. Retrieval and synthesis between scan and publication are
one step (`CutOver`).

### KnowledgeIntake and KnowledgeRegistry

`Callers` are processes that call `apply` again and again with any Handoff.
`evidence` is what lies in `imports/.staging` and `imports` under each Handoff ID;
`schema`, `rows`, `content`, `source`, `current` and `searchable` are the tables.
A SQLite transaction is one step that commits, rolls back, or commits and does not
say so. A Registry may be new or left behind by the release without the search
projection. `Conflict` is the ladder of checks of the two transactions in their
order; `Rebuild` is the projection code. `generation` and `bound` are the counters of
`registry_meta` and `registry_search_meta`. A legacy Registry starts with any history
of accepts of one Candidate, its content bound to any of them, as the release before
the search projection could leave it; `Upgradable` and `Upgrade` are the replay that
brings it up to date. `OpenRegistry` is a step of its own: it creates an empty
`registry.sqlite3` (`schema` is `empty`) before the transaction that makes its tables,
and a process that dies in between, or finds it busy, leaves it to every later command
and to the readers. A transaction of SQLite is one step, so the journal that a death
inside its commit leaves is below the model. `HistoryVerified` is the check of a Candidate's
whole history against the evidence, which every transaction makes first. The validation of a
Handoff's bytes is left out.

### KnowledgeRead

`search` and `show` keep no state: `SearchRefusal` and `ShowRefusal` are the checks in
the order of the code, `Shown` is what a success prints. The reads are operators over
the state of `KnowledgeIntake`, which is extended, not copied. Search sees one
snapshot. Show takes its snapshot first and opens the evidence afterwards, so its
operators take the evidence `e` as a parameter and `ReadsAreFaithful` evaluates them
with the evidence of the step after the snapshot; formal evidence never changes
again, so a longer distance shows nothing else. What the full-text branches find is
any set of searchable Candidates; ranking, canonical bytes and the text of results
are left out. Where there is no file both say `registry_unavailable`, of the empty file
that comes before the tables `registry_incompatible`; nothing is recorded in either case.
Show on a legacy Registry may say `evidence_corrupt` where the content
is not bound to the latest accept; the tests ask for that, and the upgrade mends it.

### CandidateReview

The six directories of a Candidate are sets of revisions, the decision files a
sequence of statuses. The Work mutex admits one command at a time, so a command is
`pc`, `command`, its `plan` of obligations and where it goes after them. `Fail`
stops the command at any step, which covers I/O errors, lost roots, unknown
outcomes and death; each publishing action may also take effect and stop.
`WellFormed` and `Unambiguous` are the checks of `_review_authority_snapshot`: every
test but the last, and the last, on several unresolved imports. `review_safety` and the
theorem `FilesAgree` are about the first (`ReviewIsWellFormed`); the second fails
(finding 1).
`Outstanding` and `First` are the plan of `_work_decision_obligations`; `Apply` is
the call of Knowledge. The lookup of the Candidate's authority and the Handoff's
bytes are abstracted.

### ResumeCommand, the four stages and LiteratureResume

A stage's tree maps a run ID to where the directory is (`staging`, `runs`), how far it
got and the input it was made of; a pointer is a run ID, `NoRun` or `Torn`. The four
stages have different recovery protocols, so each has a module: OCR keeps the
pointer in the making as `.current.json.<uuid>.tmp` until `current.json` was read
back, canonicalize replaces through a second copy and takes any foreign staged run for
lost evidence, the Reader closes an interrupted run and never reads its temporary
file, the Candidate stage commits `.current.next.json` first. `resume` is one
process: `pc` is its place, every file operation that another command can find
half done is a step, and `Halt` may come before any of them. `Upgrade` installs a
release with another OCR profile between two commands. `scarred` is a history
variable: a halt fell in a window (`NoRecovery`) that the code does not recover from, or
a release was installed over pending work or a read Work. These windows are a list of
the model's own, read off the code: outside of it nothing may be lost
(`LostOnlyWhenScarred`), inside of it nothing is claimed. OCR, for instance, loses certainty
when a halt falls between the written temporary pointer and the replaced `current.json`
while an older success was current. `unfit` says which successes the stage after them
refuses whenever it looks: `_build_bundle` finds no document in the OCR output
(`canonicalization_failed`), `_reader_input` cannot make an input of the document
(`reader_input_invalid`, `reader_input_too_large`), the Candidates break a budget
(`candidate_validation_failed`). It is chosen once, when the success is complete, because
these checks are pure functions of it. Within a release the code has no way on from such
a refusal. The last alternative of `CandidateCommitNext`
cannot happen as long as only the program writes. Left out: bytes of OCR output and
text normalisation, invalid formal runs, the ingest stop.

### CodexAttempt and CodexChildProcess

The supervisor's polling loop is one read per step, because the root process, its
descendant, the writer, the collector, the clock and the cancellation all move
between two reads. Chunks of prompt and output are counted, a pipe holds one write. A
cancellation is stamped and later becomes visible. A system call that fails is a
choice wherever the code has a branch for it; later failures of a read whose first
failure is recorded already are left out, as is handle bookkeeping.

### AnswerVerdict, KnowledgeAnswerer and KnowledgeAsk

`AnswerVerdict` holds the closed matrices of `_answer_terminal.py` between status,
error, assets and attempts. The answerer reads cancellation and clock in separate
steps, everywhere the code does. `KnowledgeAsk` puts the barriers, the cutover,
retrieval, the publication, the presentation, the seal and the exit around it. The
publication is one step here (its file operations are `AnswerTerminal`), a question
to the bridge is one step (`CancellationLatch`), the stamp of a cancellation and its
visibility are one step because a read waits for a delivery under way. Human
presentation of a committed Answer may fail (`MayBeLost`); texts made by the program
alone cannot. Left out: parsing of events, validation of an output and rendering as
text (they are choices of outcome), the overflow of the diagnostics count, events
that fill the capture exactly.

### LocalPdfIntake

`Adders` are processes that run `literature add` again and again. A Source is the
content of a PDF, `Strong` are DOIs and arXiv IDs, `Weak` citations. The processes
read all Works in one step and act on what they have `seen`, so the copy may be
stale: `Begin` reads under the identity mutex, `Acquire` under the Work mutex,
`ReadForCatalog` under the catalog mutex. `Eligible` is `_resolve_work`. `Stop`
is any failure or death; `Tear` is a death in the middle of a reservation.

## 3. Runs

| Run | Instance | Shows |
|---|---|---|
| `latch_safety` | 2 deliveries, generations to 2, tokens to 2 | safety of the sealed report and the refinement of `CancellationWindow` |
| `latch_liveness` | 3 deliveries, one of them over, generations to 2, tokens to 4, window open | deliveries return, also past a generation that overflows and poisons; the seal loop ends: two refused seals, a third that stands, no exhaustion of tokens |
| `answer_safety` | 3 invocations, 3 IDs, 1 asset, symmetric | what is staged, recovered, published and reported agree; refinement of `AnswerStore` |
| `intake_safety` | 2 processes, 1 Candidate, 2 revisions, 2 contents | the Registry stays readable, search and show are faithful also over an empty file, refinement of `KnowledgeRegistry` |
| `review_safety` | 2 Candidates with 4 and 1 revisions | the review files stay well formed (all tests of their validation but the one on ambiguity), receipts are facts, settled means agreement |
| `pdf_safety` | 2 processes, 2 PDFs, 2 Works, 1 DOI, 1 citation | one Work per PDF, Works are whole and only grow, success is projected |
| `resume_safety` | 3 runs per stage, 2 OCR profiles | one success per input, whole chains, true reports, certainty, end and convergence unless a success is unfit |
| `child_safety` | prompt of 2 writes, 1 chunk of stdout kept of 2, timeout 1, shared deadline absent or 1 | the tree is gone, the outcome is the cause, refinement of `CodexAttempt`, every attempt ends |
| `ask_safety` | 3 attempts, timeout 1, window 5, backoffs 1 | requests fit the matrices, a cause is named only in time, the sealed report is true, every command ends |
| `review_replay` | 1 Candidate, 3 revisions | **violation**, finding 1 |
| `pdf_alias` | 2 processes, 2 PDFs, 2 Works, 1 DOI | **violation**, finding 2 |
| `reader_terminal` | as `resume_safety` | **violation**, finding 3 |

Why these bounds are enough to be interesting. *Latch*: the protocol
distinguishes the first delivery, which publishes, from a later one, which waits;
two deliveries are one of each, and the main thread is the third party. Two tokens
allow one refused seal, two generations let both be accepted. The proofs cover any number. For liveness the
loop of refused seals must be able to turn: each refusal needs a delivery that came after
the snapshot, so two deliveries beside the one that is over refuse at most twice, the
third candidate stands, and the fourth token is there for a loop that does not end. If the
delivery that is over was counted, the third one overflows the generation. *Answer*: a
crashed invocation, one that recovers its orphan and one that comes after or finds
the mutex taken need three; one asset and the manifest give every kind of part
tree. *Intake*: a conflict, a replay and a reordering each need two revisions or
two contents; Candidates share nothing but the schema, the generation and the mutex.
*Review*: the longest pattern the code distinguishes is accept, reject (withdraw due),
defer (nothing due), accept again; four revisions reach it, and the second Candidate
makes a resume stop in between. *PDF*: ambiguity needs two PDFs, two Works and two
processes. *Resume*: a run left behind, one that replaces it and one made for another
profile are three runs, two profiles are one change. *Child*: a prompt of two writes
fills the pipe of one and blocks the writer; two chunks of output with one kept is the
overflow that must still be drained; the shared deadline is earlier than, equal to or
absent next to the attempt's. *Ask*: three attempts is the code's own limit; a window
of 5 can end any of them, and a later attempt gets less than its own timeout; the
clock is bounded by `Horizon`, after every deadline that can be formed. The caps
`MaxGeneration`, `MaxToken` and `MaxRevision` are checks in the code as well: the
model does at the bound what the code does. `MaxRuns` bounds `Start`: a command is
only issued while each tree has room.

Deadlock is checked except where the command ends (latch, Answer, child, ask) or the
bound on runs is used up (resume): `CHECK_DEADLOCK FALSE` there.

**Fairness.** *Latch*: weak fairness of the main thread and of each handler thread,
which Windows schedules preemptively, with no step that waits for the user. Nothing
obliges `ask` to reach its seal, so the property starts when sealing has begun.
*Child*: weak fairness of the supervisor, each worker thread and the clock, and of the
exit of a process that was told to terminate; none of the tree while it runs, which
may hang. *Ask*: weak fairness of the one thread and of the clock; an attempt ends
because it implements `CodexAttempt`. *Resume*: weak fairness of the command while it
runs; a provider attempt ends because it has a deadline. `Converges` is conditional:
if from some time on nothing halts, no release is installed, providers answer and
commands go on being issued, the Work gets through its stages again and again, unless
it is scarred or a success made for the installed release is of no use to the next stage
(`Useless`). The other modules need none: their commands may stop at any step, and
that is part of the model.

## 4. Proofs

All theorems hold for every value of the constants that satisfies the named
assumption of the module: finitely many handlers (`LatchAssumption`), numbers as bounds,
times and revisions (`BoundsAssumption`, `TimesAssumption`, `ReviewAssumption`,
`RunsAssumption`, `ReleasesAssumption`), at most as many releases as runs, and markers
like `None` that are different from every real value (`TerminalAssumption`,
`AddAssumption`, `IntakeAssumption`, `ReadAssumption`). An invariant that a proof module
needs and the component's module states, mostly named `IInv`, was checked by TLC on the
component's safety run before it was proved.

- `CancellationLatchProofs`: `TypeCorrect`, `CountersCorrect`, `GenerationCorrect`,
  `PublicationCorrect`, `SealQuiet`, `SealedReportCorrect`, `FirstObservationCorrect`,
  `LatchImplementsWindow`, `NoPhantom`. Counters are compared with the number of
  threads at given places; `CountMoves` says how that number changes when one thread
  moves: a decrement is safe because the mover itself is counted. `SealProofInv` adds
  who claims the publication, that a failed registration cannot poison behind the
  seal's back, that a delivery in flight keeps the window open, and what the main
  thread's reads still guarantee at each place. The seal property does not follow from
  the words alone: it needs that the drain saw no observer after the observer word was
  closed. `NoPhantom` needs a property of the future as a state predicate: a refusal is
  seen when a delivery is in the gate, long before it latches. `Doomed` says that such a
  delivery latches or poisons, and `BackInv` that those which saw the window closed, and
  will only turn back, are gone before activation is over; the gate the activation
  proof read free is what shows it. `RefusalInv` and `RefusedInv` carry the doom from
  the read that refused to the seal.
- `AnswerTerminalProofs`: `TypeCorrect`, `FormalAnswers`, `OrphansStand`,
  `ScansAreExact`, `ReceiptsAreOwn`, `NoCommitIsTrue`, `CommitFailures`,
  `TargetsFinal`, `StagedWork`, `Refinement`. The inductive invariant `IInv`
  (stated in `AnswerTerminal`) says that the mutex holder is the only one at work,
  that an ID names the tree of one writer, that trees move whole, how far the
  current tree has come at each place and what position and report say of the
  commit. Each kind of step (write a tree, move a tree, classify, report, leave)
  has one lemma; the actions are instances of them.
- `LocalPdfIntakeProofs`: `TypeCorrect`, `OneWork`, `WorksGrow`, `WholeWorks`,
  `SuccessShown`, `CatalogGrows`. That a PDF is in at
  most one Work is not inductive: a process may be about to add it to a Work it chose
  long ago. `IInv` adds that a process past `Acquire` holds the mutex of its Work
  (`WriterInv`); that while a PDF is in no Work its reservation names the Work that
  everybody at work on it decided on (`ReservedInv`); that the second reading missed no
  Work of the PDF (`SeenInv`); that a staged Work holds one PDF (`StagedInv`); and that
  after `Confirm` the PDF is in no Work but the target (`CommitInv`). The heart is
  `NoSecondWork`: two processes about to add one PDF that is in no Work would have the
  same target and hold the same mutex. The catalog is about the end of the command:
  what a process committed stays in its Work because it still holds that Work's mutex
  (`OwnShown`), whoever rebuilds the catalog after it reads the Works later (`DoneInv`),
  and the rebuilds are serial, so that what a rebuild saw lies between the catalog and
  the Works (`CatalogInv`).
- `KnowledgeIntakeProofs`: `TypeCorrect`, `StaysReadable`, `EvidenceStays`,
  `RegistryImplemented`, `ReadsFaithful`. `RegistryStaysReadable` alone is not
  inductive: a transaction relies on the steps before it. `IInv` (stated in `KnowledgeIntake`) adds that only the
  mutex holder is at work (`MutexInv`); that its evidence is where its last step left it
  (`PlaceInv`), so that a row is inserted only over its own formal evidence; that an
  acknowledgement is of a row (`HandInv`); that rows have formal evidence and are counted
  (`FormalInv`, `CountInv`); and what is stored of a Candidate follows from its history
  (`HistoryInv`). The heart are three lemmas about histories as plain sets, which say what
  `Latest` is (`LatestIs`), that the rebuilt projection of a sound history is sound
  (`RebuiltIsSound`) and that it stays sound with a Handoff that follows
  (`ExtendedIsSound`); `PassedFollows` shows that what passes the ladder of `Conflict`
  does follow. The same lemma makes every insertion a `Record` of `KnowledgeRegistry`;
  every other step is an `Answer` or a stutter. `ReadsFaithful` is about the readers'
  operators over the same state: what is searchable is what the projection of a sound
  history says (`SearchInv`), the evidence that a stored row names carries that row
  (`StoredIs`), and a step of a writer between snapshot and reading keeps it
  (`FormalStays`). The empty file is
  a place before the first row: opening it keeps what the counters and tables say
  (`OpenedSound`, `OpenSearch`).
- `CodexChildProcessProofs`: `TypeCorrect`, `NothingIsLeft`, `OrdinaryIsComplete`,
  `FailureIsGenuine`, `AttemptImplemented`. The invariant says, thread by thread, what
  the supervisor may rely on: that nothing runs before the commitment (`EarlyInv`), that
  the root runs only inside the Job (`RootInv`), that the writer is told to give up
  before the tree is terminated and never without a cause (`TellInv`), that what the
  loop has read is still so when it is used (`SeenInv`), that a stop has a cause the
  classification will see (`CauseInv`), and that nothing of prompt or output is missing
  without a fact that says so (`OutputInv`). The refinement has one lemma per step.
- `KnowledgeAskProofs`: `TypeCorrect`, `RequestsAreAccepted`, `CauseTimely`,
  `SealedIsTrue`. Attempts end one after the other on one clock, so the invariant dates
  everything (`TimeInv`), says what may have happened on the way to each step
  (`PathInv`), what the list of attempts looks like while one is tried, retried or given
  up (`AttemptsInv`), and which list and cause stand behind each verdict (`VerdictInv`).
  `CauseInv` carries the time of an interruption from the attempt to the verdict.
  `CauseTimely` does not say that the earliest cause wins: cancellation and clock are
  read one after the other, and a Ctrl+C between the two before the shared deadline ends
  as exhaustion all the same. The matrices of `AnswerVerdict` are then checked
  verdict by verdict; `ReportInv` and `ShownInv` carry the verdict to the sealed report and the exit code.
- `CandidateReviewProofs`: `TypeCorrect`, `FilesAgree`, `ReceiptsTrue`, `NoActionsTrue`,
  `SettledAgrees`, `SupersededOut`. Commands stop anywhere, so the invariant says what
  the files of a Candidate look like between two commands: an unresolved import of an
  accept is that of the last Decision (`DiskInv`), Knowledge holds every acknowledged
  Handoff and none without an attempt (`KnownInv`), each obligation of the plan is still
  one when its turn comes (`PlanInv`), a Decision is only taken when no import is
  unresolved (`ReplayInv`), and what the command has settled stays so (`SettledInv`).
  That a plan has a first obligation rests on the well-foundedness of the naturals.
- `LiteratureResumeProofs`: `TypeCorrect`, `OneSuccess`, `PassedDerived`,
  `AdvanceReported`, `LostScarred`, `WorkStays`. Each stage has a part that says where
  its run in hand and its pointers are at each of its steps, and what it leaves to the
  next stage (`OcrInv`, `CanonicalInv`, `ReaderInv`, `CandidateInv`); `MovedInv` compares
  the pointers that were moved with what is reported. `CleanInv` is the argument for
  certainty: unless the Work is scarred, every way a halt can leave a stage is one that
  the stage's recovery understands (`OcrLeft` … `CandidateLeft`), whatever the other
  stages were doing. Lemmas on run trees (what a new directory, a new state and a rename
  change) are shared by the four stages.

Side facts that a proof gives and no run repeats
(`CountersCorrect`, `FirstObservationCorrect`, `OrphansStand`, `ReceiptsAreOwn`,
`TargetsFinal`, `EvidenceStays`, `NoActionsTrue`, `CatalogGrows`) are left to the proofs.

Only model-checked: the liveness properties (`DeliveriesReturn`, `SealingEnds`,
`AttemptEnds`, `AskEnds`, `ResumeEnds`, `Converges`), because the prover has no rules for
fairness. Every invariant, action property and refinement of a passing run is proved.

## 5. Findings

1. `review_replay`: after accept r1 (imported), reject r2 (stopped) and accept r3
   (stopped after its attempt), a resume begins the import of r2 although r3 is
   unresolved (`_literature_review.py:3313`); two unresolved attempts then block
   every later command (`reviewed-handoff-v1.md:132`).
2. `pdf_alias`: a reservation of the same PDF is reused although it lacks the DOI of
   the new request (`_literature_intake.py:1026`); two processes can then give one
   DOI to two Works, and no catalog can be built any more (ADR 0124).
3. `reader_terminal`: a launch that is refused after a timed-out attempt commits a run
   with reason `codex_runtime_unavailable` (`_literature_reader.py:1986`), which the
   validator of the status (`:1573`) accepts only without attempts
   (`literature-reader-v1.md:253`).

More counterexamples that TLC finds in the same modules; each has its `.cfg` and one
property, and is run by hand on the module of its component:

- `latch_activation.cfg` (`MCCancellationLatch`): a Ctrl+C accepted between
  `gezhi_cancel_v1_activate` and the activation proof (`_knowledge_cancellation.py:519`)
  makes `activate_v1` raise instead of being reported as an interruption.
- `answer_result.cfg` (`MCAnswerTerminal`): the checkpoint after a successful rename
  (`_answer_terminal.py:2345`) may fail; the report has no result although the Answer
  is committed.
- `intake_evidence.cfg` (`MCKnowledgeIntake`): a death or failed write between the two
  evidence files leaves a partial stage (`_knowledge_intake.py:1031`) that no replay
  can use.
- `pdf_reservation.cfg` (`MCLocalPdfIntake`): the Works are read before the reservations
  (`_literature_intake.py:1533`); a commit in between leaves a reservation that
  contradicts the committed Work, and every later add of the PDF stops.
- `resume_upstream.cfg` (`MCLiteratureResume`): after an upstream change the Reader says
  `asset_integrity_lost` although the old success is whole
  (`_literature_reader.py:1712`); no property of `resume_safety` is about this stop.

## 6. Not modelled, and what is left

Not to be modelled: argument grammar, configuration and status (no state,
sequential), the text of presentations, the Codex runtime proof and role plan
(read-only validation), query normalisation and ranking (pure text and order
algorithms), the Data Root's handle work (every model takes a failed check of it as a
stop at any step), build tools. Inside modelled parts, the schema validation of JSON
files is a predicate "whole" or "well formed", and private staging directories that no
other process reads are no state.

Left for later, in this order:

1. Theorems about the abstract specifications themselves (`CancellationWindow`,
   `CodexAttempt`, `AnswerStore`, `KnowledgeRegistry`): what a caller may conclude from
   them alone.
2. `WriterOwnership`: the registry of each process behind the named mutexes and the
   thread rule of `close`; the models rely on what it promises (a holder is alive, or
   the mutex is free).
3. `BoundedProbe`: one child with two readers and a deadline, the small sibling of
   `CodexChildProcess`.
