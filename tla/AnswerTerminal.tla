-------------------------- MODULE AnswerTerminal --------------------------
(***************************************************************************)
(* The Answer terminal of `knowledge ask`: _answer_terminal.py, as ask()   *)
(* of _knowledge_ask.py drives it.  Every element of Asks is one process   *)
(* that runs the command once.  They share one Data Root: the directories  *)
(* answers/.staging/<id> and answers/<id>, and the writer mutex.           *)
(*                                                                         *)
(* Every action is one access to the file system that others can see, or   *)
(* one look at it.  A process may crash between any two of them, a look    *)
(* or a write may fail, and an entry nobody in the model wrote may appear  *)
(* at a free target.  Processes that ignore the mutex are out of scope, as *)
(* they are for the contract (docs/contracts/answer-terminal-v1.md).       *)
(***************************************************************************)
EXTENDS Naturals, FiniteSets

CONSTANTS
  Asks,      \* invocations of `knowledge ask`
  Ids,       \* Answer IDs
  NAssets,   \* assets of an Answer, without its manifest
  None,
  Foreign    \* an entry at answers/<id> that no Answer was committed to

Trees == [by : Asks, assets : 0..NAssets, torn : BOOLEAN,
          manifest : {"none", "torn", "whole"}]

\* Reports that say: no new Answer was committed.
NoCommit == {"answer_writer_busy", "answer_writer_coordination_unavailable",
             "orphan_scan_failed", "user_interrupted", "answer_staging_failed",
             "answer_manifest_failed", "answer_target_conflict",
             "answer_commit_failed"}
RootLost == "data_root_integrity_lost"

ASSUME TerminalAssumption ==
  /\ NAssets \in Nat \ {0}
  /\ None # Foreign
  /\ {None, Foreign} \intersect (Asks \union Ids \union Trees) = {}
  /\ None \notin NoCommit \union {RootLost, "committed", "raised"}

VARIABLES
  owner,     \* who owns the Global\Gezhi.KnowledgeAnswerWriter mutex
  staging,   \* answers/.staging/<id>
  target,    \* answers/<id>
  pc,        \* where each invocation is
  todo,      \* the staging entries its scan has enumerated and not classified
  cur,       \* the orphan it has inspected
  err,       \* why its rename failed
  tally,     \* the entries its scan classified, by class
  mine,      \* its Answer ID, once the cutover formed one
  report     \* the report it will present

disk  == <<owner, staging, target>>
local == <<pc, todo, cur, err, tally, mine, report>>
vars  == <<disk, local>>

Classes == {"quarantined", "recovered", "target_conflict", "recovery_failed"}

Reports == NoCommit \union {None, RootLost, "committed", "raised"}

ScanPcs    == {"scan", "classify", "orphan", "orphanRename", "orphanState", "orphanDone"}
PublishPcs == {"publish", "mkdir", "asset", "assetWrite", "manifest", "manifestWrite",
               "readback", "finalCheck", "rename", "commitState", "commitDone"}
HeldPcs    == ScanPcs \union PublishPcs \union {"cutover", "release"}
Pcs        == HeldPcs \union {"start", "end", "crashed"}

\* _validate_terminal_candidate_v1: every asset and the manifest, whole.
Whole(t) == t # None /\ t # Foreign /\ t.assets = NAssets /\ ~t.torn /\ t.manifest = "whole"

\* The staged tree of the current publication.
Tree(a) == staging[mine[a]]
WriteTree(a, t) == staging' = [staging EXCEPT ![mine[a]] = t]

Init ==
  /\ owner = None
  /\ staging = [id \in Ids |-> None]
  /\ target = [id \in Ids |-> None]
  /\ pc = [a \in Asks |-> "start"]
  /\ todo = [a \in Asks |-> {}]
  /\ cur = [a \in Asks |-> None]
  /\ err = [a \in Asks |-> None]
  /\ tally = [a \in Asks |-> [c \in Classes |-> {}]]
  /\ mine = [a \in Asks |-> None]
  /\ report = [a \in Asks |-> None]

Goto(a, from, to) == pc[a] = from /\ pc' = [pc EXCEPT ![a] = to]

\* The handler that ends ask() here reports r; the owner is then closed.
Report(a, from, r) == Goto(a, from, "release") /\ report' = [report EXCEPT ![a] = r]

-----------------------------------------------------------------------------
(* The writer mutex.                                                       *)

\* Mutant: a mutex that is owned is entered too.
AcquireBarges(a) ==
  /\ Goto(a, "start", "scan")
  /\ owner' = a
  /\ UNCHANGED <<staging, target, todo, cur, err, tally, mine, report>>

\* try_acquire_knowledge_answer_writer_v1: a mutex that a crashed process
\* abandoned is acquired like a free one.
Acquire(a) ==
  /\ pc[a] = "start"
  /\ \/ /\ owner = None /\ owner' = a
        /\ pc' = [pc EXCEPT ![a] = "scan"]
        /\ UNCHANGED report
     \/ /\ UNCHANGED owner
        /\ pc' = [pc EXCEPT ![a] = "end"]
        /\ \/ owner # None /\ report' = [report EXCEPT ![a] = "answer_writer_busy"]
           \/ report' = [report EXCEPT ![a] = "answer_writer_coordination_unavailable"]
  /\ UNCHANGED <<staging, target, todo, cur, err, tally, mine>>

\* What the process knew about the scan goes with it.
Forget(a) ==
  /\ todo' = [todo EXCEPT ![a] = {}]
  /\ cur' = [cur EXCEPT ![a] = None]
  /\ err' = [err EXCEPT ![a] = None]
  /\ tally' = [tally EXCEPT ![a] = [c \in Classes |-> {}]]

\* WriterOwnershipV1.__exit__: closing may raise, and the report is then lost.
Release(a) ==
  /\ Goto(a, "release", "end")
  /\ owner' = None
  /\ \/ UNCHANGED report
     \/ report' = [report EXCEPT ![a] = "raised"]
  /\ Forget(a)
  /\ UNCHANGED <<staging, target, mine>>

\* The process dies; the kernel abandons its mutex.
Crash(a) ==
  /\ pc[a] \in HeldPcs
  /\ pc' = [pc EXCEPT ![a] = "crashed"]
  /\ owner' = None
  /\ report' = [report EXCEPT ![a] = None]
  /\ Forget(a)
  /\ UNCHANGED <<staging, target, mine>>

\* An entry that no ask wrote appears at a free formal path.
Plant(id) ==
  /\ target[id] = None
  /\ target' = [target EXCEPT ![id] = Foreign]
  /\ UNCHANGED <<owner, staging, local>>

-----------------------------------------------------------------------------
(* scan_answer_staging_v1: classify what earlier invocations left behind.  *)

Enumerate(a) ==
  /\ \/ /\ Goto(a, "scan", "classify")
        /\ todo' = [todo EXCEPT ![a] = {id \in Ids : staging[id] # None}]
        /\ UNCHANGED report
     \/ /\ \E r \in {"user_interrupted", RootLost, "orphan_scan_failed"} : Report(a, "scan", r)
        /\ UNCHANGED todo
  /\ UNCHANGED <<disk, cur, err, tally, mine>>

\* One entry is settled and the scan goes on with the next.
Classify(a, id, class) ==
  /\ todo' = [todo EXCEPT ![a] = @ \ {id}]
  /\ tally' = [tally EXCEPT ![a][class] = @ \union {id}]

\* Mutant: an entry that has a manifest is taken for a whole tree.
InspectTrustsManifest(a) ==
  /\ pc[a] = "classify"
  /\ \E id \in todo[a] :
       IF staging[id].manifest # "none"
         THEN /\ Goto(a, "classify", "orphan")
              /\ cur' = [cur EXCEPT ![a] = id]
              /\ UNCHANGED <<todo, tally>>
         ELSE /\ Classify(a, id, "quarantined")
              /\ UNCHANGED <<pc, cur>>
  /\ UNCHANGED <<disk, err, mine, report>>

\* _inspect_answer_orphan_v1: a tree that cannot be read whole is quarantined.
Inspect(a) ==
  /\ \E id \in todo[a] :
       \/ /\ Whole(staging[id])
          /\ Goto(a, "classify", "orphan")
          /\ cur' = [cur EXCEPT ![a] = id]
          /\ UNCHANGED <<todo, tally, report>>
       \/ /\ pc[a] = "classify"
          /\ Classify(a, id, "quarantined")
          /\ UNCHANGED <<pc, cur, report>>
       \/ Report(a, "classify", RootLost) /\ UNCHANGED <<todo, cur, tally>>
  /\ UNCHANGED <<disk, err, mine>>

\* The enumeration is settled: a last checkpoint, and the scan returns.
ScanReturn(a) ==
  /\ todo[a] = {}
  /\ \/ Goto(a, "classify", "cutover") /\ UNCHANGED report
     \/ Report(a, "classify", RootLost)
  /\ UNCHANGED <<disk, todo, cur, err, tally, mine>>

\* _complete_answer_orphan_v1, up to its second checkpoint.
OrphanCheckpoint(a) ==
  /\ pc[a] = "orphan"
  /\ \/ /\ target[cur[a]] = None
        /\ Goto(a, "orphan", "orphanRename")
        /\ UNCHANGED <<todo, tally, report>>
     \/ /\ target[cur[a]] # None
        /\ Goto(a, "orphan", "classify")
        /\ Classify(a, cur[a], "target_conflict")
        /\ UNCHANGED report
     \/ Report(a, "orphan", RootLost) /\ UNCHANGED <<todo, tally>>
  /\ UNCHANGED <<disk, cur, err, mine>>

\* Mutant: the rename replaces what is at the target.
RenameReplaces(a, id, from, done, failed) ==
  /\ Goto(a, from, done)
  /\ target' = [target EXCEPT ![id] = staging[id]]
  /\ staging' = [staging EXCEPT ![id] = None]
  /\ UNCHANGED <<owner, todo, cur, err, tally, mine, report>>

\* os.rename of a staging directory: it never replaces a target.  An error
\* other than FileExistsError does not tell whether the rename took place.
Rename(a, id, from, done, failed) ==
  /\ pc[a] = from
  /\ \/ /\ target[id] = None
        /\ target' = [target EXCEPT ![id] = staging[id]]
        /\ staging' = [staging EXCEPT ![id] = None]
        /\ \/ Goto(a, from, done) /\ UNCHANGED err
           \/ Goto(a, from, failed) /\ err' = [err EXCEPT ![a] = "other"]
     \/ /\ UNCHANGED <<staging, target>>
        /\ Goto(a, from, failed)
        /\ \/ target[id] # None /\ err' = [err EXCEPT ![a] = "exists"]
           \/ err' = [err EXCEPT ![a] = "other"]
  /\ UNCHANGED <<owner, todo, cur, tally, mine, report>>

OrphanRename(a) == Rename(a, cur[a], "orphanRename", "orphanDone", "orphanState")

\* Mutant: every failed rename counts as not done.
OrphanStateAssumesFailed(a) ==
  /\ Goto(a, "orphanState", "classify")
  /\ Classify(a, cur[a], IF err[a] = "exists" THEN "target_conflict" ELSE "recovery_failed")
  /\ UNCHANGED <<disk, cur, err, mine, report>>

\* The rename failed: _namespace_state decides what may be said of it, and
\* the command gives up if that is indeterminate.
OrphanState(a) ==
  LET id == cur[a]
      here == staging[id] # None
      there == target[id] # None
  IN /\ pc[a] = "orphanState"
     /\ \/ /\ here /\ there /\ err[a] = "exists"
           /\ Goto(a, "orphanState", "classify")
           /\ Classify(a, id, "target_conflict")
           /\ UNCHANGED report
        \/ /\ here /\ ~there
           /\ Goto(a, "orphanState", "classify")
           /\ Classify(a, id, "recovery_failed")
           /\ UNCHANGED report
        \/ /\ \E r \in {"raised", RootLost} : Report(a, "orphanState", r)
           /\ UNCHANGED <<todo, tally>>
     /\ UNCHANGED <<disk, cur, err, mine>>

OrphanDone(a) ==
  /\ \/ /\ Goto(a, "orphanDone", "classify")
        /\ Classify(a, cur[a], "recovered")
        /\ UNCHANGED report
     \/ Report(a, "orphanDone", RootLost) /\ UNCHANGED <<todo, tally>>
  /\ UNCHANGED <<disk, cur, err, mine>>

-----------------------------------------------------------------------------
(* ask() between the scan and the publication.                             *)

\* The cutover forms a fresh Answer ID, unless a Ctrl+C came first; retrieval
\* and synthesis then end in a request to publish, or in a lost root or an error.
CutOver(a) ==
  /\ \/ /\ Goto(a, "cutover", "publish")
        /\ \E id \in Ids \ {mine[b] : b \in Asks} : mine' = [mine EXCEPT ![a] = id]
        /\ UNCHANGED report
     \/ /\ \E r \in {"user_interrupted", RootLost, "raised"} : Report(a, "cutover", r)
        /\ UNCHANGED mine
  /\ UNCHANGED <<disk, todo, cur, err, tally>>

-----------------------------------------------------------------------------
(* publish_answer_v1                                                       *)

\* It consumes the lease's publication, binds the staging ID to it and takes
\* the first checkpoint.
Begin(a) ==
  /\ \/ Goto(a, "publish", "mkdir") /\ UNCHANGED report
     \/ \E r \in {RootLost, "raised"} : Report(a, "publish", r)
  /\ UNCHANGED <<disk, todo, cur, err, tally, mine>>

\* The directories, the two presence checks and mkdir of the staging entry.
Mkdir(a) ==
  /\ pc[a] = "mkdir"
  /\ \/ /\ target[mine[a]] = None /\ staging[mine[a]] = None
        /\ WriteTree(a, [by |-> a, assets |-> 0, torn |-> FALSE, manifest |-> "none"])
        /\ \/ Goto(a, "mkdir", "asset") /\ UNCHANGED report
           \/ Report(a, "mkdir", "answer_staging_failed")
     \/ /\ UNCHANGED staging
        /\ \/ target[mine[a]] # None /\ Report(a, "mkdir", "answer_target_conflict")
           \/ \E r \in {"answer_staging_failed", RootLost, "raised"} : Report(a, "mkdir", r)
  /\ UNCHANGED <<owner, target, todo, cur, err, tally, mine>>

\* Mutant: one asset too many.
CreateAssetOnce(a) ==
  /\ pc[a] = "asset"
  /\ Tree(a).assets <= NAssets
  /\ Goto(a, "asset", "assetWrite")
  /\ WriteTree(a, [Tree(a) EXCEPT !.torn = TRUE])
  /\ UNCHANGED <<owner, target, todo, cur, err, tally, mine, report>>

\* _install_assets: the next file is created, or all of them are closed.
CreateAsset(a) ==
  /\ pc[a] = "asset"
  /\ \/ /\ Tree(a).assets < NAssets
        /\ Goto(a, "asset", "assetWrite")
        /\ WriteTree(a, [Tree(a) EXCEPT !.torn = TRUE])
        /\ UNCHANGED report
     \/ /\ Tree(a).assets = NAssets
        /\ Goto(a, "asset", "manifest")
        /\ UNCHANGED <<staging, report>>
     \/ /\ \/ Report(a, "asset", "answer_staging_failed")
           \/ Report(a, "asset", RootLost)
        /\ UNCHANGED staging
  /\ UNCHANGED <<owner, target, todo, cur, err, tally, mine>>

\* It is written in full and read back, or the write fails half-way.
WriteAsset(a) ==
  /\ \/ /\ Goto(a, "assetWrite", "asset")
        /\ WriteTree(a, [by |-> a, assets |-> Tree(a).assets + 1, torn |-> FALSE,
                         manifest |-> "none"])
        /\ UNCHANGED report
     \/ /\ \/ Report(a, "assetWrite", "answer_staging_failed")
           \/ Report(a, "assetWrite", RootLost)
        /\ UNCHANGED staging
  /\ UNCHANGED <<owner, target, todo, cur, err, tally, mine>>

\* Mutant: a failed manifest cleans the staging entry up.
CreateManifestCleans(a) ==
  /\ \/ /\ Goto(a, "manifest", "manifestWrite")
        /\ WriteTree(a, [Tree(a) EXCEPT !.manifest = "torn"])
        /\ UNCHANGED report
     \/ /\ Report(a, "manifest", "answer_manifest_failed")
        /\ WriteTree(a, None)
  /\ UNCHANGED <<owner, target, todo, cur, err, tally, mine>>

\* _manifest_bytes, then the exclusive creation of manifest.json.
CreateManifest(a) ==
  /\ \/ /\ Goto(a, "manifest", "manifestWrite")
        /\ WriteTree(a, [Tree(a) EXCEPT !.manifest = "torn"])
        /\ UNCHANGED report
     \/ /\ \/ Report(a, "manifest", "answer_manifest_failed")
           \/ Report(a, "manifest", RootLost)
        /\ UNCHANGED staging
  /\ UNCHANGED <<owner, target, todo, cur, err, tally, mine>>

WriteManifest(a) ==
  /\ \/ /\ Goto(a, "manifestWrite", "readback")
        /\ WriteTree(a, [Tree(a) EXCEPT !.manifest = "whole"])
        /\ UNCHANGED report
     \/ /\ \/ Report(a, "manifestWrite", "answer_manifest_failed")
           \/ Report(a, "manifestWrite", RootLost)
        /\ UNCHANGED staging
  /\ UNCHANGED <<owner, target, todo, cur, err, tally, mine>>

\* The staged tree passes the validator that readers use.
Readback(a) ==
  /\ pc[a] = "readback"
  /\ \/ /\ Whole(Tree(a))
        /\ Goto(a, "readback", "finalCheck")
        /\ UNCHANGED report
     \/ Report(a, "readback", "answer_manifest_failed")
     \/ Report(a, "readback", RootLost)
  /\ UNCHANGED <<disk, todo, cur, err, tally, mine>>

FinalCheck(a) ==
  /\ pc[a] = "finalCheck"
  /\ \/ target[mine[a]] = None /\ Goto(a, "finalCheck", "rename") /\ UNCHANGED report
     \/ target[mine[a]] # None /\ Report(a, "finalCheck", "answer_target_conflict")
     \/ Report(a, "finalCheck", RootLost)
  /\ UNCHANGED <<disk, todo, cur, err, tally, mine>>

Publish(a) == Rename(a, mine[a], "rename", "commitDone", "commitState")

\* Mutants: an unclear rename is taken for a failed one; an entry at the target
\* is taken for the commit.
CommitStateAssumesFailed(a) ==
  /\ Report(a, "commitState", IF err[a] = "exists" THEN "answer_target_conflict"
                              ELSE "answer_commit_failed")
  /\ UNCHANGED <<disk, todo, cur, err, tally, mine>>
CommitStateAssumesDone(a) ==
  /\ pc[a] = "commitState"
  /\ Report(a, "commitState", IF target[mine[a]] # None THEN "committed"
                              ELSE "answer_commit_failed")
  /\ UNCHANGED <<disk, todo, cur, err, tally, mine>>

\* The rename of the current Answer failed.
CommitState(a) ==
  LET here == staging[mine[a]] # None
      there == target[mine[a]] # None
  IN /\ pc[a] = "commitState"
     /\ \/ here /\ there /\ err[a] = "exists"
           /\ Report(a, "commitState", "answer_target_conflict")
        \/ here /\ ~there /\ Report(a, "commitState", "answer_commit_failed")
        \/ Report(a, "commitState", "raised")
        \/ Report(a, "commitState", RootLost)
     /\ UNCHANGED <<disk, todo, cur, err, tally, mine>>

\* The checkpoint after the rename, and the receipt.
CommitDone(a) ==
  /\ \/ Report(a, "commitDone", "committed")
     \/ Report(a, "commitDone", RootLost)
  /\ UNCHANGED <<disk, todo, cur, err, tally, mine>>

Scan(a) ==
  \/ Enumerate(a) \/ Inspect(a) \/ ScanReturn(a) \/ OrphanCheckpoint(a)
  \/ OrphanRename(a) \/ OrphanState(a) \/ OrphanDone(a)

PublishAnswer(a) ==
  \/ Begin(a) \/ Mkdir(a) \/ CreateAsset(a) \/ WriteAsset(a) \/ CreateManifest(a)
  \/ WriteManifest(a) \/ Readback(a) \/ FinalCheck(a) \/ Publish(a)
  \/ CommitState(a) \/ CommitDone(a)

Ask(a) == Acquire(a) \/ Scan(a) \/ CutOver(a) \/ PublishAnswer(a) \/ Release(a)

Next == \/ \E a \in Asks : Ask(a) \/ Crash(a)
        \/ \E id \in Ids : Plant(id)

Spec == Init /\ [][Next]_vars

-----------------------------------------------------------------------------
(* Properties.                                                             *)

Ended(a) == pc[a] \in {"end", "crashed"}

TypeOK ==
  /\ owner \in Asks \union {None}
  /\ staging \in [Ids -> Trees \union {None}]
  /\ target \in [Ids -> Trees \union {None, Foreign}]
  /\ pc \in [Asks -> Pcs]
  /\ todo \in [Asks -> SUBSET Ids]
  /\ cur \in [Asks -> Ids \union {None}]
  /\ err \in [Asks -> {None, "exists", "other"}]
  /\ tally \in [Asks -> [Classes -> SUBSET Ids]]
  /\ mine \in [Asks -> Ids \union {None}]
  /\ report \in [Asks -> Reports]

\* A reader never finds part of an Answer at answers/<id>: whatever process
\* dies at whatever step, and whoever finishes its commit, the formal path
\* holds all assets and the manifest, or nothing an ask has written.
FormalAnswersAreWhole ==
  \A id \in Ids : target[id] \in {None, Foreign} \/ Whole(target[id])

\* A formal path is written once.  No publication, recovery or retry replaces,
\* repairs or removes what is there, even if it is not a valid Answer.
TargetsAreFinal ==
  [][\A id \in Ids : target[id] # None => target'[id] = target[id]]_vars

\* Recovery only ever touches the trees of processes that are gone: what it
\* inspected is still there, whole, when it renames it, and its writer can
\* neither be writing it nor be about to commit it.
InspectedOrphanStands ==
  \A a \in Asks : pc[a] \in {"orphan", "orphanRename"} =>
    /\ Whole(staging[cur[a]])
    /\ Ended(staging[cur[a]].by)

\* Nothing that reached the staging directory is ever lost: a staged tree goes
\* away only by becoming the Answer of its own ID.
StagedWorkIsKept ==
  [][\A id \in Ids : staging[id] # None /\ staging'[id] = None =>
       target[id] = None /\ target'[id] = staging[id]]_vars

\* The entries a scan left where they were.
Counted(a) == {id \in Ids : \E c \in Classes \ {"recovered"} : id \in tally[a][c]}

\* The four counts of a scan that returned tell exactly what it found and did:
\* every entry still staged is counted as quarantined, in conflict or failed,
\* and every entry counted as recovered is now a formal Answer.
ScanIsExact ==
  \A a \in Asks : pc[a] = "cutover" =>
    /\ {id \in Ids : staging[id] # None} = Counted(a)
    /\ \A id \in tally[a]["recovered"] : Whole(target[id])
    /\ \A c, d \in Classes : c # d => tally[a][c] \intersect tally[a][d] = {}

\* A receipt names an Answer that this invocation committed under its own ID,
\* and it stays true for ever, whatever the later invocations do.
ReceiptIsOwn ==
  \A a \in Asks : report[a] = "committed" =>
    mine[a] # None /\ target[mine[a]] # None /\ target[mine[a]] # Foreign
    /\ target[mine[a]].by = a

\* An invocation that reports no commit has not committed: while it still owns
\* the mutex its Answer is not at the formal path.  (A later invocation may
\* recover the staged tree; that is not this invocation's result.)
NoCommitMeansNone ==
  \A a \in Asks : pc[a] = "release" /\ report[a] \in NoCommit =>
    \A id \in Ids : target[id] \in {None, Foreign} \/ target[id].by # a

\* answer_commit_failed leaves the whole tree behind for a later recovery.
CommitFailedIsRecoverable ==
  \A a \in Asks : pc[a] = "release" /\ report[a] = "answer_commit_failed" =>
    Whole(staging[mine[a]]) /\ staging[mine[a]].by = a

\* The result of a command is present exactly if its Answer was committed
\* (docs/contracts/knowledge-ask-result-v1.md): a report without one that is
\* about to be presented belongs to an Answer that is not at its formal path.
ResultIffCommitted ==
  \A a \in Asks : pc[a] = "release" /\ report[a] \in NoCommit \union {RootLost} =>
    \A id \in Ids : target[id] \in {None, Foreign} \/ target[id].by # a

\* The terminal implements the abstract store of Answers: a receipt is presented
\* once the owner is closed.
WriterOf(t) == IF t \in {None, Foreign} THEN t ELSE t.by
Store == INSTANCE AnswerStore WITH
  answers <- [id \in Ids |-> WriterOf(target[id])],
  receipts <- [a \in Asks |->
    IF pc[a] = "end" /\ report[a] = "committed" THEN mine[a] ELSE None]
ImplementsStore == Store!StoreSpec

\* Every process that runs goes on; the file system answers every call.
Fairness == \A a \in Asks : WF_vars(Ask(a))
FairSpec == Spec /\ Fairness

-----------------------------------------------------------------------------
(* The inductive invariant of the proofs.                                  *)

IsTree(t) == t \notin {None, Foreign}
Committed(a) == mine[a] # None /\ IsTree(target[mine[a]])
WritingPcs == {"asset", "assetWrite", "manifest", "manifestWrite",
               "readback", "finalCheck", "rename"}

\* Whoever is past Acquire and has not released owns the mutex.
HolderIsOwner == \A a \in Asks : pc[a] \in HeldPcs <=> owner = a

\* IDs are formed once, after the scan, and name every tree of their writer.
IdsAreOwn ==
  /\ \A a, b \in Asks : mine[a] # None /\ mine[a] = mine[b] => a = b
  /\ \A a \in Asks : pc[a] \in PublishPcs => mine[a] # None
  /\ \A a \in Asks : pc[a] \in ScanPcs \union {"start", "cutover"} => mine[a] = None
  /\ \A id \in Ids : IsTree(staging[id]) => mine[staging[id].by] = id
  /\ \A id \in Ids : IsTree(target[id]) => mine[target[id].by] = id

\* A tree is moved, never copied, and only when it is whole.
TreesMoveWhole ==
  /\ FormalAnswersAreWhole
  /\ \A id \in Ids : IsTree(staging[id]) => ~IsTree(target[id])

\* How far the tree of the current publication has come.
Grown(p, t) ==
  /\ p \in {"asset", "manifest"} => ~t.torn
  /\ p = "assetWrite" => t.assets < NAssets
  /\ p \in {"manifest", "manifestWrite"} => t.assets = NAssets /\ ~t.torn
  /\ p \in {"readback", "finalCheck", "rename"} => Whole(t)
TreeGrows ==
  \A a \in Asks :
    /\ pc[a] \in WritingPcs => IsTree(Tree(a)) /\ Grown(pc[a], Tree(a))
    /\ pc[a] = "commitState" => (Whole(Tree(a)) \/ Committed(a))

\* What the position and the report of an invocation say of its commit.
CommitIsKnown ==
  \A a \in Asks :
    /\ Committed(a) => pc[a] \in {"commitState", "commitDone", "release", "end", "crashed"}
    /\ pc[a] = "commitDone" => Committed(a)
    /\ report[a] = "committed" => Committed(a)
    /\ pc[a] = "release" /\ report[a] \in NoCommit => ~Committed(a)
    /\ pc[a] = "release" /\ report[a] = "answer_commit_failed" =>
         mine[a] # None /\ Whole(staging[mine[a]])

\* The scan has inspected its orphan whole, and its books balance.
OrphanIsWhole ==
  \A a \in Asks :
    /\ pc[a] \in {"orphan", "orphanRename"} => Whole(staging[cur[a]])
    /\ pc[a] \in {"orphan", "orphanRename", "orphanState", "orphanDone"} => cur[a] \in todo[a]
    /\ pc[a] = "orphanDone" => Whole(target[cur[a]]) /\ staging[cur[a]] = None

Books(a) ==
  /\ pc[a] \in {"start", "scan"} =>
       todo[a] = {} /\ \A c \in Classes : tally[a][c] = {}
  /\ pc[a] \in ScanPcs \union {"cutover"} => \A id \in Ids :
       /\ \A c \in Classes : id \in tally[a][c] =>
            id \notin todo[a] /\ \A d \in Classes \ {c} : id \notin tally[a][d]
       /\ id \in Counted(a) => IsTree(staging[id])
       /\ id \in tally[a]["recovered"] => Whole(target[id])
       /\ id \in todo[a] =>
            IsTree(staging[id]) \/ (id = cur[a] /\ pc[a] \in {"orphanState", "orphanDone"})
  /\ pc[a] \in (ScanPcs \ {"scan"}) \union {"cutover"} => \A id \in Ids :
       IsTree(staging[id]) => id \in Counted(a) \union todo[a]
  /\ pc[a] = "cutover" => todo[a] = {}
BooksBalance == \A a \in Asks : Books(a)

IInv == /\ TypeOK /\ HolderIsOwner /\ IdsAreOwn /\ TreesMoveWhole /\ TreeGrows
        /\ CommitIsKnown /\ OrphanIsWhole /\ BooksBalance

=============================================================================
