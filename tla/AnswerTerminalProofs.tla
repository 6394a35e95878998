----------------------- MODULE AnswerTerminalProofs -----------------------
(***************************************************************************)
(* Proofs about AnswerTerminal for any number of invocations, Answer IDs   *)
(* and assets.  IInv is inductive; steps that share a shape (a report, a   *)
(* classification, a write into the own tree) are proved once.             *)
(***************************************************************************)
EXTENDS AnswerTerminal, TLAPS

\* The markers None and Foreign are no asks, IDs or trees.
LEMMA Markers ==
  /\ None # Foreign
  /\ None \notin Asks /\ None \notin Ids /\ None \notin Trees
  /\ Foreign \notin Asks /\ Foreign \notin Ids /\ Foreign \notin Trees
  /\ NAssets \in Nat \ {0}
BY TerminalAssumption

\* The reports that say no commit are reports.
LEMMA ReportsKnown ==
  /\ NoCommit \subseteq Reports
  /\ {None, RootLost, "committed", "raised"} \subseteq Reports
BY DEF Reports

\* The books of an invocation that does not hold the mutex stay as they are.
LEMMA OtherBooks ==
  ASSUME NEW b \in Asks, Books(b), pc[b] \notin HeldPcs,
         pc'[b] = pc[b], todo'[b] = todo[b], tally'[b] = tally[b]
  PROVE  Books(b)'
BY DEF Books, HeldPcs, ScanPcs

\* Classifying moves one entry from what is to do to one class.
LEMMA ClassifyType ==
  ASSUME TypeOK, NEW a \in Asks, NEW id \in Ids, NEW class \in Classes,
         Classify(a, id, class)
  PROVE  /\ todo' \in [Asks -> SUBSET Ids]
         /\ tally' \in [Asks -> [Classes -> SUBSET Ids]]
         /\ todo'[a] = todo[a] \ {id}
         /\ tally'[a][class] = tally[a][class] \union {id}
         /\ \A d \in Classes \ {class} : tally'[a][d] = tally[a][d]
         /\ \A b \in Asks \ {a} : todo'[b] = todo[b] /\ tally'[b] = tally[b]
<1>1. tally[a] \in [Classes -> SUBSET Ids] BY DEF TypeOK
<1>2. [tally[a] EXCEPT ![class] = @ \union {id}] \in [Classes -> SUBSET Ids] BY <1>1
<1>3. tally' = [tally EXCEPT ![a] = [tally[a] EXCEPT ![class] = @ \union {id}]] BY DEF Classify
<1>4. tally'[a] = [tally[a] EXCEPT ![class] = @ \union {id}] BY <1>3 DEF TypeOK
<1>5. tally' \in [Asks -> [Classes -> SUBSET Ids]] BY <1>2, <1>3 DEF TypeOK
<1> QED BY <1>1, <1>3, <1>4, <1>5 DEF Classify, TypeOK

\* The tree an invocation is writing is its own.
LEMMA TreeIsOwn ==
  ASSUME IInv, NEW a \in Asks, pc[a] \in WritingPcs
  PROVE  /\ mine[a] \in Ids /\ Tree(a) \in Trees /\ Tree(a).by = a
         /\ owner = a /\ ~Committed(a)
<1>1. WritingPcs \subseteq PublishPcs /\ WritingPcs \subseteq HeldPcs
  BY DEF WritingPcs, PublishPcs, HeldPcs
<1>2. mine[a] \in Ids /\ owner = a BY <1>1, Markers DEF IInv, TypeOK, IdsAreOwn, HolderIsOwner
<1>3. IsTree(Tree(a)) BY DEF IInv, TreeGrows, Tree
<1>4. Tree(a) \in Trees BY <1>2, <1>3 DEF IInv, TypeOK, Tree, IsTree
<1>5. Tree(a).by \in Asks BY <1>4 DEF Trees
<1>6. mine[Tree(a).by] = mine[a] BY <1>2, <1>3 DEF IInv, IdsAreOwn, Tree
<1>7. Tree(a).by = a BY <1>2, <1>5, <1>6, Markers DEF IInv, IdsAreOwn
<1>8. ~Committed(a) BY DEF IInv, CommitIsKnown, WritingPcs
<1> QED BY <1>2, <1>4, <1>7, <1>8


\* A step that only ends ask() with a report keeps the invariant, if the report
\* fits what was committed.
LEMMA ReportStep ==
  ASSUME IInv, NEW a \in Asks, NEW r \in Reports, pc[a] \in HeldPcs,
         pc' = [pc EXCEPT ![a] = "release"], report' = [report EXCEPT ![a] = r],
         UNCHANGED <<disk, todo, cur, err, tally, mine>>,
         r = "committed" => Committed(a),
         r \in NoCommit => ~Committed(a),
         r = "answer_commit_failed" => mine[a] # None /\ Whole(Tree(a))
  PROVE  IInv'
<1> USE Markers
<1>1. "release" \in Pcs /\ "release" \in HeldPcs /\ "release" \notin PublishPcs /\ "release" \notin ScanPcs
  BY DEF Pcs, HeldPcs, ScanPcs, PublishPcs
<1>2. /\ pc'[a] = "release" /\ report'[a] = r
      /\ \A b \in Asks \ {a} : pc'[b] = pc[b] /\ report'[b] = report[b]
  BY DEF IInv, TypeOK
<1>3. TypeOK' BY <1>1 DEF IInv, TypeOK, disk
<1>4. HolderIsOwner' BY <1>1, <1>2 DEF IInv, HolderIsOwner, disk
<1>5. IdsAreOwn' BY <1>1, <1>2 DEF IInv, IdsAreOwn, disk
<1>6. TreesMoveWhole' BY DEF IInv, TreesMoveWhole, FormalAnswersAreWhole, disk
<1>7. TreeGrows'
  BY <1>2 DEF IInv, TreeGrows, Tree, Grown, WritingPcs, Committed, disk
<1>8. CommitIsKnown'
  BY <1>2 DEF IInv, CommitIsKnown, Tree, Committed, disk
<1>9. OrphanIsWhole' BY <1>2 DEF IInv, OrphanIsWhole, disk
<1>10. BooksBalance'
  BY <1>1, <1>2 DEF IInv, BooksBalance, Books, Counted, ScanPcs, disk
<1> QED BY <1>3, <1>4, <1>5, <1>6, <1>7, <1>8, <1>9, <1>10 DEF IInv

\* Settling an entry keeps the invariant, if its class tells where it is now.
LEMMA ClassifyStep ==
  ASSUME IInv, NEW a \in Asks, NEW id \in todo[a], NEW class \in Classes,
         pc[a] \in {"classify", "orphan", "orphanState", "orphanDone"},
         pc[a] \in {"orphanState", "orphanDone"} => id = cur[a],
         pc' = [pc EXCEPT ![a] = "classify"], Classify(a, id, class),
         UNCHANGED <<disk, cur, err, mine, report>>,
         class = "recovered" => Whole(target[id]) /\ staging[id] = None,
         class # "recovered" => IsTree(staging[id])
  PROVE  IInv'
<1> USE Markers
<1>0. id \in Ids BY DEF IInv, TypeOK
<1>1. /\ "classify" \in Pcs /\ "classify" \in HeldPcs /\ pc[a] \in HeldPcs
      /\ "classify" \notin PublishPcs /\ "classify" \in ScanPcs /\ pc[a] \in ScanPcs
  BY DEF Pcs, HeldPcs, ScanPcs, PublishPcs
<1>2. pc'[a] = "classify" /\ \A b \in Asks \ {a} : pc'[b] = pc[b]
  BY DEF IInv, TypeOK
<1>3. /\ todo' \in [Asks -> SUBSET Ids]
      /\ tally' \in [Asks -> [Classes -> SUBSET Ids]]
      /\ todo'[a] = todo[a] \ {id}
      /\ tally'[a][class] = tally[a][class] \union {id}
      /\ \A d \in Classes \ {class} : tally'[a][d] = tally[a][d]
      /\ \A b \in Asks \ {a} : todo'[b] = todo[b] /\ tally'[b] = tally[b]
  BY <1>0, ClassifyType DEF IInv
<1>4. TypeOK' BY <1>1, <1>3 DEF IInv, TypeOK, disk
<1>5. HolderIsOwner' BY <1>1, <1>2 DEF IInv, HolderIsOwner, disk
<1>6. IdsAreOwn' BY <1>1, <1>2 DEF IInv, IdsAreOwn, disk
<1>7. TreesMoveWhole' BY DEF IInv, TreesMoveWhole, FormalAnswersAreWhole, disk
<1>8. TreeGrows'
  BY <1>2 DEF IInv, TreeGrows, Tree, Grown, WritingPcs, Committed, disk
<1>9. CommitIsKnown'
  BY <1>2 DEF IInv, CommitIsKnown, Tree, Committed, disk
<1>10. OrphanIsWhole' BY <1>2, <1>3 DEF IInv, OrphanIsWhole, disk
<1>11. BooksBalance'
  <2>1. Books(a) BY DEF IInv, BooksBalance
  <2>2. \A e \in Ids : IsTree(staging[e]) \/ staging[e] = None
    BY DEF IInv, TypeOK, IsTree
  <2>3. \A e \in Ids : e \in Counted(a)' <=>
                       e \in Counted(a) \/ (e = id /\ class # "recovered")
    BY <1>0, <1>3 DEF Counted
  <2>4. Books(a)'
    <3>1. \A c \in Classes : id \notin tally[a][c]
      BY <1>0, <1>1, <2>1 DEF Books
    <3>2. \A e \in Ids : \A c \in Classes : e \in tally'[a][c] =>
            e \notin todo'[a] /\ \A d \in Classes \ {c} : e \notin tally'[a][d]
      BY <1>1, <1>3, <2>1, <3>1 DEF Books
    <3>3. \A e \in Ids : e \in Counted(a)' => IsTree(staging[e])
      BY <1>1, <2>1, <2>3 DEF Books
    <3>4. \A e \in Ids : e \in tally'[a]["recovered"] => Whole(target[e])
      BY <1>1, <1>3, <2>1 DEF Books, Classes
    <3>5. \A e \in Ids : e \in todo'[a] => IsTree(staging[e])
      BY <1>1, <1>3, <2>1 DEF Books
    <3>6. \A e \in Ids : IsTree(staging[e]) => e \in Counted(a)' \union todo'[a]
      BY <1>1, <1>3, <2>1, <2>3, Markers DEF Books, IsTree
    <3> QED BY <1>2, <3>2, <3>3, <3>4, <3>5, <3>6 DEF Books, disk
  <2>5. ASSUME NEW b \in Asks \ {a} PROVE Books(b)'
    <3>1. pc[b] \notin HeldPcs BY <1>1 DEF IInv, HolderIsOwner
    <3> QED BY <1>2, <1>3, <3>1, OtherBooks DEF IInv, BooksBalance
  <2> QED BY <2>4, <2>5 DEF BooksBalance
<1> QED BY <1>4, <1>5, <1>6, <1>7, <1>8, <1>9, <1>10, <1>11 DEF IInv

\* A write into the own tree keeps the invariant, if the tree is then as far
\* as the next position says, or is given up.
LEMMA WriteStep ==
  ASSUME IInv, NEW a \in Asks, NEW t \in Trees, NEW to \in WritingPcs \union {"release"},
         pc[a] \in WritingPcs \union {"mkdir"}, t.by = a, WriteTree(a, t),
         to \in WritingPcs => Grown(to, t),
         to = "release" => report'[a] = "answer_staging_failed",
         pc' = [pc EXCEPT ![a] = to],
         report' \in [Asks -> Reports], report'[a] \in {report[a], "answer_staging_failed"},
         \A b \in Asks \ {a} : report'[b] = report[b],
         UNCHANGED <<owner, target, todo, cur, err, tally, mine>>
  PROVE  IInv'
<1> USE Markers
<1>1. to \in Pcs /\ to \in HeldPcs /\ to \notin ScanPcs
      /\ to \notin {"start", "cutover", "commitState", "commitDone"}
      /\ pc[a] \in HeldPcs /\ pc[a] \in PublishPcs
  BY DEF WritingPcs, Pcs, HeldPcs, ScanPcs, PublishPcs
<1>2. mine[a] \in Ids /\ owner = a /\ ~Committed(a)
  <2>1. mine[a] \in Ids /\ owner = a BY <1>1 DEF IInv, TypeOK, IdsAreOwn, HolderIsOwner
  <2>2. ~Committed(a) BY DEF IInv, CommitIsKnown, WritingPcs
  <2> QED BY <2>1, <2>2
<1>3. pc'[a] = to /\ \A b \in Asks \ {a} : pc'[b] = pc[b]
  BY DEF IInv, TypeOK
<1>4. /\ staging' \in [Ids -> Trees \union {None}]
      /\ staging'[mine[a]] = t /\ IsTree(t)
      /\ \A id \in Ids \ {mine[a]} : staging'[id] = staging[id]
  BY <1>2 DEF IInv, TypeOK, WriteTree, IsTree
<1>5. \A b \in Asks \ {a} : pc[b] \notin HeldPcs /\ (mine[b] # None => mine[b] # mine[a])
  BY <1>2 DEF IInv, HolderIsOwner, IdsAreOwn
<1>6. TypeOK' BY <1>1, <1>4 DEF IInv, TypeOK
<1>7. HolderIsOwner' BY <1>1, <1>3 DEF IInv, HolderIsOwner
<1>8. IdsAreOwn' BY <1>1, <1>2, <1>3, <1>4 DEF IInv, IdsAreOwn
<1>9. TreesMoveWhole'
  BY <1>2, <1>4 DEF IInv, TreesMoveWhole, FormalAnswersAreWhole, Committed
<1>10. TreeGrows'
  <2>1. to \in WritingPcs => IsTree(Tree(a)') /\ Grown(pc'[a], Tree(a)')
    BY <1>3, <1>4 DEF Tree
  <2>2. \A b \in Asks \ {a} : pc'[b] \notin WritingPcs /\ pc'[b] # "commitState"
    BY <1>3, <1>5 DEF WritingPcs, HeldPcs, PublishPcs
  <2> QED BY <1>1, <1>3, <2>1, <2>2 DEF TreeGrows, Grown
<1>11. CommitIsKnown'
  <2>1. \A b \in Asks : Committed(b)' = Committed(b) BY DEF Committed
  <2>2. \A b \in Asks \ {a} : pc[b] # "release" BY <1>5 DEF HeldPcs
  <2> QED BY <1>1, <1>2, <1>3, <2>1, <2>2 DEF IInv, CommitIsKnown
<1>12. OrphanIsWhole'
  BY <1>1, <1>3, <1>5 DEF OrphanIsWhole, HeldPcs, ScanPcs
<1>13. BooksBalance'
  <2>1. Books(a)' BY <1>1, <1>3 DEF Books, ScanPcs
  <2>2. \A b \in Asks \ {a} : Books(b)' BY <1>3, <1>5, OtherBooks DEF IInv, BooksBalance
  <2> QED BY <2>1, <2>2 DEF BooksBalance
<1> QED BY <1>6, <1>7, <1>8, <1>9, <1>10, <1>11, <1>12, <1>13 DEF IInv

\* A rename moves a whole tree whose writer is the mover in its publication or
\* is gone, and nothing else.
LEMMA MoveStep ==
  ASSUME IInv, NEW a \in Asks, NEW id \in Ids, NEW to,
         \/ /\ pc[a] = "orphanRename" /\ id = cur[a]
            /\ to \in {"orphanDone", "orphanState"}
         \/ /\ pc[a] = "rename" /\ id = mine[a]
            /\ to \in {"commitDone", "commitState"},
         target[id] = None,
         target' = [target EXCEPT ![id] = staging[id]],
         staging' = [staging EXCEPT ![id] = None],
         pc' = [pc EXCEPT ![a] = to],
         err' \in [Asks -> {None, "exists", "other"}],
         UNCHANGED <<owner, todo, cur, tally, mine, report>>
  PROVE  IInv'
<1> USE Markers
<1>1. /\ pc[a] \in HeldPcs /\ to \in Pcs /\ to \in HeldPcs
      /\ to \notin WritingPcs /\ to \notin {"start", "scan", "cutover", "release"}
      /\ pc[a] \in ScanPcs <=> to \in ScanPcs
      /\ pc[a] \in PublishPcs <=> to \in PublishPcs
  BY DEF WritingPcs, Pcs, HeldPcs, ScanPcs, PublishPcs
<1>2. pc'[a] = to /\ \A b \in Asks \ {a} : pc'[b] = pc[b]
  BY DEF IInv, TypeOK
<1>3. owner = a /\ \A b \in Asks \ {a} : pc[b] \notin HeldPcs
  BY <1>1 DEF IInv, HolderIsOwner
<1>4. Whole(staging[id]) /\ IsTree(staging[id]) /\ staging[id] \in Trees
  <2>1. Whole(staging[id])
    BY DEF IInv, OrphanIsWhole, TreeGrows, WritingPcs, Tree, Grown
  <2> QED BY <2>1 DEF Whole, IsTree, IInv, TypeOK
<1>5. /\ staging' \in [Ids -> Trees \union {None}]
      /\ target' \in [Ids -> Trees \union {None, Foreign}]
      /\ staging'[id] = None /\ target'[id] = staging[id]
      /\ \A e \in Ids \ {id} : staging'[e] = staging[e] /\ target'[e] = target[e]
  BY <1>4 DEF IInv, TypeOK
<1> DEFINE w == staging[id].by
<1>6. w \in Asks /\ mine[w] = id
  BY <1>4 DEF IInv, IdsAreOwn, Trees
<1>7. \A b \in Asks : mine[b] = id => b = w
  BY <1>6 DEF IInv, IdsAreOwn
<1>8. \/ w = a /\ pc[a] = "rename"
      \/ w # a /\ pc[a] = "orphanRename" /\ pc[w] \in {"end", "crashed"}
  <2>1. CASE pc[a] = "rename" BY <2>1, <1>6, <1>7
  <2>2. CASE pc[a] = "orphanRename"
    <3>1. mine[a] = None BY <2>2 DEF IInv, IdsAreOwn, ScanPcs
    <3>2. w # a BY <1>6, <3>1
    <3>3. pc[w] \notin HeldPcs /\ pc[w] # "start"
      BY <1>3, <1>6, <3>2 DEF IInv, IdsAreOwn
    <3>4. pc[w] \in {"end", "crashed"} BY <1>6, <3>3 DEF IInv, TypeOK, Pcs
    <3> QED BY <2>2, <3>2, <3>4
  <2> QED BY <2>1, <2>2
<1>9. \A b \in Asks : Committed(b)' <=> Committed(b) \/ b = w
  BY <1>4, <1>5, <1>6, <1>7 DEF Committed, IInv, TypeOK, IsTree
<1>10. TypeOK' BY <1>1, <1>5 DEF IInv, TypeOK
<1>11. HolderIsOwner' BY <1>1, <1>2 DEF IInv, HolderIsOwner
<1>12. IdsAreOwn'
  BY <1>1, <1>2, <1>4, <1>5, <1>6 DEF IInv, IdsAreOwn, IsTree
<1>13. TreesMoveWhole'
  BY <1>4, <1>5 DEF IInv, TreesMoveWhole, FormalAnswersAreWhole, IsTree
<1>14. TreeGrows'
  <2>1. \A b \in Asks \ {a} : pc'[b] \notin WritingPcs /\ pc'[b] # "commitState"
    BY <1>2, <1>3 DEF WritingPcs, HeldPcs, PublishPcs
  <2>2. pc'[a] = "commitState" => Committed(a)' BY <1>2, <1>8, <1>9
  <2> QED BY <1>1, <1>2, <2>1, <2>2 DEF TreeGrows, Grown
<1>15. CommitIsKnown'
  <2>1. \A b \in Asks \ {a} : pc[b] # "release" /\ pc[b] # "commitDone"
    BY <1>3 DEF HeldPcs, PublishPcs
  <2> QED BY <1>1, <1>2, <1>8, <1>9, <2>1 DEF IInv, CommitIsKnown
<1>16. OrphanIsWhole'
  <2>1. \A b \in Asks \ {a} : pc'[b] \notin ScanPcs BY <1>2, <1>3 DEF HeldPcs
  <2>2. pc'[a] \in ScanPcs => cur[a] \in todo[a] /\ id = cur[a]
    BY <1>1, <1>2 DEF IInv, OrphanIsWhole, ScanPcs
  <2> QED BY <1>2, <1>4, <1>5, <2>1, <2>2 DEF OrphanIsWhole, ScanPcs
<1>17. BooksBalance'
  <2>1. Books(a) /\ (pc[a] \in ScanPcs => id = cur[a] /\ id \in todo[a])
    BY DEF IInv, BooksBalance, OrphanIsWhole, ScanPcs
  <2>2. Books(a)'
    <3>1. CASE pc[a] = "orphanRename"
      <4>1. pc[a] \in ScanPcs /\ pc[a] # "scan" /\ to \in {"orphanDone", "orphanState"}
        BY <3>1, <1>1 DEF ScanPcs
      <4>2. id \in todo[a] /\ id = cur[a] /\ \A c \in Classes : id \notin tally[a][c]
        BY <2>1, <4>1 DEF Books
      <4>3. Counted(a)' = Counted(a) /\ id \notin Counted(a) BY <4>2 DEF Counted
      <4>4. \A e \in Ids : e \in tally[a]["recovered"] => Whole(target[e])
        BY <2>1, <4>1 DEF Books
      <4> QED BY <1>2, <1>5, <2>1, <4>1, <4>2, <4>3, <4>4, <1>4 DEF Books, IsTree, Classes
    <3>2. CASE pc[a] = "rename"
      BY <1>1, <1>2, <3>2 DEF Books, ScanPcs
    <3> QED BY <3>1, <3>2
  <2>3. \A b \in Asks \ {a} : Books(b)'
    BY <1>2, <1>3, OtherBooks DEF IInv, BooksBalance
  <2> QED BY <2>2, <2>3 DEF BooksBalance
<1> QED BY <1>10, <1>11, <1>12, <1>13, <1>14, <1>15, <1>16, <1>17 DEF IInv

\* Going on within the scan or within the publication keeps the invariant, if
\* the files are as the next position says.
LEMMA AdvanceStep ==
  ASSUME IInv, NEW a \in Asks, NEW to,
         \/ /\ pc[a] \in {"classify", "orphan", "orphanRename"}
            /\ to \in {"orphan", "orphanRename", "orphanState"}
         \/ /\ pc[a] \in PublishPcs /\ pc[a] \notin {"commitState", "commitDone"}
            /\ to \in PublishPcs /\ to # "commitDone",
         to \in WritingPcs => IsTree(Tree(a)) /\ Grown(to, Tree(a)),
         to = "commitState" => Whole(Tree(a)),
         to \in {"orphan", "orphanRename"} => Whole(staging[cur'[a]]),
         to \in {"orphan", "orphanRename", "orphanState"} => cur'[a] \in todo[a],
         pc' = [pc EXCEPT ![a] = to],
         cur' \in [Asks -> Ids \union {None}],
         \A b \in Asks \ {a} : cur'[b] = cur[b],
         err' \in [Asks -> {None, "exists", "other"}],
         UNCHANGED <<disk, todo, tally, mine, report>>
  PROVE  IInv'
<1> USE Markers
<1>1. /\ pc[a] \in HeldPcs /\ to \in Pcs /\ to \in HeldPcs
      /\ to \notin {"start", "scan", "cutover", "release", "orphanDone", "commitDone"}
      /\ pc[a] \in ScanPcs <=> to \in ScanPcs
      /\ pc[a] \in PublishPcs <=> to \in PublishPcs
      /\ pc[a] # "scan" /\ ~Committed(a)
  BY DEF Pcs, HeldPcs, ScanPcs, PublishPcs, IInv, CommitIsKnown
<1>2. pc'[a] = to /\ \A b \in Asks \ {a} : pc'[b] = pc[b]
  BY DEF IInv, TypeOK
<1>3. owner = a /\ \A b \in Asks \ {a} : pc[b] \notin HeldPcs
  BY <1>1 DEF IInv, HolderIsOwner
<1>4. TypeOK' BY <1>1 DEF IInv, TypeOK, disk
<1>5. HolderIsOwner' BY <1>1, <1>2 DEF IInv, HolderIsOwner, disk
<1>6. IdsAreOwn' BY <1>1, <1>2 DEF IInv, IdsAreOwn, disk
<1>7. TreesMoveWhole' BY DEF IInv, TreesMoveWhole, FormalAnswersAreWhole, disk
<1>8. TreeGrows'
  <2>1. \A b \in Asks \ {a} : pc'[b] \notin WritingPcs /\ pc'[b] # "commitState"
    BY <1>2, <1>3 DEF WritingPcs, HeldPcs, PublishPcs
  <2>2. Tree(a)' = Tree(a) BY DEF Tree, disk
  <2> QED BY <1>2, <2>1, <2>2 DEF TreeGrows, Grown
<1>9. CommitIsKnown'
  <2>1. \A b \in Asks : Committed(b)' = Committed(b) /\ Tree(b)' = Tree(b)
    BY DEF Committed, Tree, disk
  <2> QED BY <1>1, <1>2, <2>1 DEF IInv, CommitIsKnown, disk
<1>10. OrphanIsWhole'
  <2>1. \A b \in Asks \ {a} : pc'[b] \notin ScanPcs BY <1>2, <1>3 DEF HeldPcs
  <2> QED BY <1>1, <1>2, <2>1 DEF OrphanIsWhole, ScanPcs, PublishPcs, disk
<1>11. BooksBalance'
  <2>1. Books(a)'
    <3>1. Books(a) /\ Counted(a)' = Counted(a) BY DEF IInv, BooksBalance, Counted
    <3>2. pc[a] \in ScanPcs => pc[a] \notin {"orphanState", "orphanDone"}
      BY DEF ScanPcs, PublishPcs
    <3> QED BY <1>1, <1>2, <3>1, <3>2 DEF Books, disk
  <2>2. \A b \in Asks \ {a} : Books(b)'
    BY <1>2, <1>3, OtherBooks DEF IInv, BooksBalance
  <2> QED BY <2>1, <2>2 DEF BooksBalance
<1> QED BY <1>4, <1>5, <1>6, <1>7, <1>8, <1>9, <1>10, <1>11 DEF IInv

-----------------------------------------------------------------------------
(* The steps of the mutex and of the environment.                          *)

\* Acquiring the mutex, or ending because it is owned or unusable.
LEMMA AcquireStep ==
  ASSUME IInv, NEW a \in Asks, Acquire(a)
  PROVE  IInv'
<1> USE Markers
<1>1. /\ {"start", "scan", "end"} \subseteq Pcs
      /\ "scan" \in HeldPcs /\ {"start", "end"} \intersect HeldPcs = {}
      /\ {"answer_writer_busy", "answer_writer_coordination_unavailable"} \subseteq Reports
  BY DEF Pcs, HeldPcs, ScanPcs, PublishPcs, Reports, NoCommit
<1>a. pc \in [Asks -> Pcs] /\ report \in [Asks -> Reports] /\ owner \in Asks \union {None}
  BY DEF IInv, TypeOK
<1>b. \/ /\ owner = None /\ owner' = a /\ pc' = [pc EXCEPT ![a] = "scan"] /\ report' = report
      \/ /\ owner' = owner /\ pc' = [pc EXCEPT ![a] = "end"]
         /\ \E r \in Reports : report' = [report EXCEPT ![a] = r]
  BY <1>1 DEF Acquire
<1>c. pc' \in [Asks -> Pcs] /\ report' \in [Asks -> Reports] /\ owner' \in Asks \union {None}
  BY <1>1, <1>a, <1>b
<1>d. /\ pc[a] = "start" /\ \A b \in Asks \ {a} : pc'[b] = pc[b]
      /\ \/ owner = None /\ owner' = a /\ pc'[a] = "scan"
         \/ owner' = owner /\ pc'[a] = "end"
  BY <1>a, <1>b DEF Acquire
<1>2. TypeOK' BY <1>c DEF IInv, TypeOK, Acquire
<1>3. HolderIsOwner' BY <1>1, <1>d DEF IInv, HolderIsOwner
<1>4. IdsAreOwn' BY DEF IInv, TypeOK, IdsAreOwn, Acquire, ScanPcs, PublishPcs
<1>5. TreesMoveWhole' BY DEF IInv, TreesMoveWhole, FormalAnswersAreWhole, Acquire
<1>6. TreeGrows' BY DEF IInv, TypeOK, TreeGrows, Tree, Grown, Committed, WritingPcs, Acquire
<1>7. CommitIsKnown' BY DEF IInv, TypeOK, CommitIsKnown, Tree, Committed, Acquire
<1>8. OrphanIsWhole' BY DEF IInv, TypeOK, OrphanIsWhole, Acquire
<1>9. BooksBalance'
  <2>1. Books(a) /\ Books(a)' = Books(a)'
    BY DEF IInv, BooksBalance
  <2>2. pc[a] = "start" /\ pc'[a] \in {"scan", "end"} BY DEF Acquire, IInv, TypeOK
  <2>3. Books(a)'
    <3>1. todo[a] = {} /\ \A c \in Classes : tally[a][c] = {} BY <2>1, <2>2 DEF Books
    <3>2. UNCHANGED <<staging, target, todo, tally>> BY DEF Acquire
    <3>3. "end" \notin ScanPcs BY DEF ScanPcs
    <3>4. Counted(a)' = {} BY <3>1, <3>2 DEF Counted
    <3> QED BY <2>2, <3>1, <3>2, <3>3, <3>4 DEF Books, Classes
  <2>4. ASSUME NEW b \in Asks \ {a} PROVE Books(b)'
    <3>1. UNCHANGED <<staging, target, todo, tally, cur>> /\ pc'[b] = pc[b]
      BY DEF Acquire, IInv, TypeOK
    <3>2. Books(b) /\ Counted(b)' = Counted(b) BY <3>1 DEF IInv, BooksBalance, Counted
    <3> QED BY <3>1, <3>2 DEF Books
  <2> QED BY <2>3, <2>4 DEF BooksBalance
<1> QED BY <1>2, <1>3, <1>4, <1>5, <1>6, <1>7, <1>8, <1>9 DEF IInv

\* Leaving, by ending or by dying.
LEMMA LeaveStep ==
  ASSUME IInv, NEW a \in Asks, Release(a) \/ Crash(a)
  PROVE  IInv'
<1> USE Markers
<1>1. /\ {"end", "crashed"} \subseteq Pcs /\ {None, "raised"} \subseteq Reports
      /\ {"end", "crashed"} \intersect HeldPcs = {} /\ "release" \in HeldPcs
      /\ {"end", "crashed"} \intersect (ScanPcs \union PublishPcs \union WritingPcs) = {}
  BY DEF Pcs, HeldPcs, ScanPcs, PublishPcs, WritingPcs, Reports
<1>a. pc \in [Asks -> Pcs] /\ report \in [Asks -> Reports]
  BY DEF IInv, TypeOK
<1>b. /\ pc[a] \in HeldPcs /\ owner' = None /\ UNCHANGED <<staging, target, mine>>
      /\ \E p \in {"end", "crashed"} : pc' = [pc EXCEPT ![a] = p]
  BY <1>1 DEF Release, Crash, Goto
<1>c. report' = report \/ \E r \in {None, "raised"} : report' = [report EXCEPT ![a] = r]
  BY DEF Release, Crash
<1>2. /\ pc[a] \in HeldPcs /\ owner' = None /\ UNCHANGED <<staging, target, mine>>
      /\ pc'[a] \in {"end", "crashed"} /\ \A b \in Asks \ {a} : pc'[b] = pc[b]
      /\ pc' \in [Asks -> Pcs]
  BY <1>1, <1>a, <1>b
<1>3. /\ report' \in [Asks -> Reports] /\ report'[a] \in {report[a], "raised", None}
      /\ \A b \in Asks \ {a} : report'[b] = report[b]
  BY <1>1, <1>a, <1>c
<1>4. /\ todo' \in [Asks -> SUBSET Ids] /\ cur' \in [Asks -> Ids \union {None}]
      /\ err' \in [Asks -> {None, "exists", "other"}]
      /\ tally' \in [Asks -> [Classes -> SUBSET Ids]]
      /\ \A b \in Asks \ {a} : todo'[b] = todo[b] /\ cur'[b] = cur[b] /\ tally'[b] = tally[b]
  <2>1. Forget(a) BY DEF Release, Crash
  <2> QED BY <2>1 DEF IInv, TypeOK, Forget
<1>5. owner = a /\ \A b \in Asks \ {a} : pc[b] \notin HeldPcs
  BY <1>2 DEF IInv, HolderIsOwner
<1>6. TypeOK' BY <1>2, <1>3, <1>4 DEF IInv, TypeOK
<1>7. HolderIsOwner' BY <1>1, <1>2, <1>5 DEF HolderIsOwner
<1>8. IdsAreOwn' BY <1>1, <1>2 DEF IInv, IdsAreOwn
<1>9. TreesMoveWhole' BY <1>2 DEF IInv, TreesMoveWhole, FormalAnswersAreWhole
<1>10. \A b \in Asks : pc'[b] \notin HeldPcs BY <1>1, <1>2, <1>5
<1>11. TreeGrows' BY <1>10 DEF TreeGrows, WritingPcs, HeldPcs, PublishPcs
<1>12. CommitIsKnown'
  <2>1. \A b \in Asks : Committed(b)' = Committed(b) BY <1>2 DEF Committed
  <2>2. \A b \in Asks : pc'[b] # "release" /\ pc'[b] # "commitDone"
    BY <1>10 DEF HeldPcs, PublishPcs
  <2>3. None # "committed" BY TerminalAssumption
  <2>4. \A b \in Asks : report'[b] = "committed" => Committed(b)
    BY <1>2, <1>3, <2>3 DEF IInv, CommitIsKnown
  <2>5. \A b \in Asks : Committed(b) =>
          pc'[b] \in {"commitState", "commitDone", "release", "end", "crashed"}
    BY <1>2 DEF IInv, CommitIsKnown
  <2> QED BY <2>1, <2>2, <2>4, <2>5 DEF CommitIsKnown
<1>13. OrphanIsWhole' BY <1>10 DEF OrphanIsWhole, HeldPcs, ScanPcs
<1>14. BooksBalance'
  <2>1. Books(a)' BY <1>2, <1>1 DEF Books
  <2>2. \A b \in Asks \ {a} : Books(b)'
    BY <1>2, <1>4, <1>5, OtherBooks DEF IInv, BooksBalance
  <2> QED BY <2>1, <2>2 DEF BooksBalance
<1> QED BY <1>6, <1>7, <1>8, <1>9, <1>11, <1>12, <1>13, <1>14 DEF IInv

\* A foreign entry at a free formal path is no tree of anybody.
LEMMA PlantStep ==
  ASSUME IInv, NEW id \in Ids, Plant(id)
  PROVE  IInv'
<1> USE Markers
<1>1. /\ target[id] = None /\ target'[id] = Foreign
      /\ target' \in [Ids -> Trees \union {None, Foreign}]
      /\ \A e \in Ids \ {id} : target'[e] = target[e]
      /\ UNCHANGED <<owner, staging, pc, todo, cur, err, tally, mine, report>>
  BY DEF IInv, TypeOK, Plant, local
<1>2. \A e \in Ids : /\ IsTree(target'[e]) <=> IsTree(target[e])
                     /\ IsTree(target[e]) => target'[e] = target[e]
                     /\ Whole(target'[e]) <=> Whole(target[e])
  BY <1>1 DEF IsTree, Whole
<1>3. \A b \in Asks : Committed(b)' = Committed(b) /\ Tree(b)' = Tree(b)
  BY <1>1, <1>2 DEF Committed, Tree, IInv, TypeOK
<1>4. TypeOK' BY <1>1 DEF IInv, TypeOK
<1>5. HolderIsOwner' BY <1>1 DEF IInv, HolderIsOwner
<1>6. IdsAreOwn' BY <1>1, <1>2 DEF IInv, IdsAreOwn
<1>7. TreesMoveWhole' BY <1>1, <1>2 DEF IInv, TreesMoveWhole, FormalAnswersAreWhole
<1>8. TreeGrows' BY <1>1, <1>3 DEF IInv, TreeGrows
<1>9. CommitIsKnown' BY <1>1, <1>3 DEF IInv, CommitIsKnown
<1>10. OrphanIsWhole' BY <1>1, <1>2 DEF IInv, OrphanIsWhole, TypeOK
<1>11. BooksBalance'
  <2>1. \A b \in Asks : Books(b) /\ Counted(b)' = Counted(b)
    BY <1>1 DEF IInv, BooksBalance, Counted
  <2> QED BY <1>1, <1>2, <2>1 DEF BooksBalance, Books
<1> QED BY <1>4, <1>5, <1>6, <1>7, <1>8, <1>9, <1>10, <1>11 DEF IInv

-----------------------------------------------------------------------------
(* The steps of the scan and of the publication.                           *)

\* Before the rename of the current Answer every report but
\* answer_commit_failed tells the truth: nothing is committed yet.
LEMMA EarlyReport ==
  ASSUME IInv, NEW a \in Asks, NEW from \in HeldPcs \ {"commitState", "commitDone", "release"},
         NEW r \in (NoCommit \ {"answer_commit_failed"}) \union {RootLost, "raised"},
         Report(a, from, r),
         UNCHANGED <<disk, todo, cur, err, tally, mine>>
  PROVE  IInv'
<1>1. pc[a] = from BY DEF Report, Goto
<1>2. ~Committed(a) BY <1>1 DEF IInv, CommitIsKnown, HeldPcs, ScanPcs, PublishPcs
<1>3. r \in Reports /\ r # "committed" /\ r # "answer_commit_failed"
  BY DEF Reports, NoCommit, RootLost
<1>4. pc' = [pc EXCEPT ![a] = "release"] /\ report' = [report EXCEPT ![a] = r]
  BY DEF Report, Goto
<1> QED BY <1>1, <1>2, <1>3, <1>4, ReportStep

\* Positions of the scan and their neighbours.
LEMMA ScanPositions ==
  /\ ScanPcs \union {"cutover"} \subseteq HeldPcs \ {"commitState", "commitDone", "release"}
  /\ ScanPcs \subseteq Pcs /\ "cutover" \in Pcs /\ "cutover" \notin ScanPcs
  /\ (ScanPcs \union {"cutover"}) \intersect (PublishPcs \union WritingPcs) = {}
  /\ {RootLost, "user_interrupted", "orphan_scan_failed"} \subseteq
       (NoCommit \ {"answer_commit_failed"}) \union {RootLost, "raised"}
BY DEF ScanPcs, HeldPcs, PublishPcs, WritingPcs, Pcs, NoCommit, RootLost

\* A step of the owner within the scan, or out of it to the cutover, that
\* leaves the files and the reports alone keeps all but the types and the books.
LEMMA ScanFrame ==
  ASSUME IInv, NEW a \in Asks, NEW to \in ScanPcs \union {"cutover"},
         pc[a] \in ScanPcs, pc' = [pc EXCEPT ![a] = to],
         to \notin {"orphan", "orphanRename", "orphanState", "orphanDone"},
         UNCHANGED <<disk, cur, err, tally, mine, report>>,
         todo' \in [Asks -> SUBSET Ids],
         \A b \in Asks \ {a} : todo'[b] = todo[b],
         Books(a)'
  PROVE  IInv'
<1>1. pc'[a] = to /\ \A b \in Asks \ {a} : pc'[b] = pc[b]
  BY DEF IInv, TypeOK
<1>2. to \in Pcs /\ to \in HeldPcs /\ to \notin PublishPcs /\ to \notin WritingPcs /\ pc[a] \in HeldPcs
      /\ to \notin {"commitState", "commitDone", "release"}
  BY ScanPositions
<1>3. \A b \in Asks \ {a} : pc[b] \notin HeldPcs BY <1>2 DEF IInv, HolderIsOwner
<1>4. TypeOK' BY <1>2 DEF IInv, TypeOK, disk
<1>5. HolderIsOwner' BY <1>1, <1>2 DEF IInv, HolderIsOwner, disk
<1>6. IdsAreOwn' BY <1>1, <1>2 DEF IInv, IdsAreOwn, disk
<1>7. TreesMoveWhole' BY DEF IInv, TreesMoveWhole, FormalAnswersAreWhole, disk
<1>8. TreeGrows' BY <1>1, <1>2 DEF IInv, TreeGrows, Tree, Grown, WritingPcs, Committed, disk
<1>9. CommitIsKnown'
  <2>1. \A b \in Asks : Committed(b)' = Committed(b) BY DEF Committed, disk
  <2>2. ~Committed(a) BY ScanPositions DEF IInv, CommitIsKnown, ScanPcs
  <2> QED BY <1>1, <1>2, <2>1, <2>2 DEF IInv, CommitIsKnown, disk
<1>10. OrphanIsWhole' BY <1>1 DEF IInv, OrphanIsWhole, disk
<1>11. BooksBalance'
  <2>1. \A b \in Asks \ {a} : Books(b)'
    BY <1>1, <1>3, OtherBooks DEF IInv, BooksBalance
  <2> QED BY <2>1 DEF BooksBalance
<1> QED BY <1>4, <1>5, <1>6, <1>7, <1>8, <1>9, <1>10, <1>11 DEF IInv

\* The scan enumerates every staged tree, or ends ask().
LEMMA EnumerateStep ==
  ASSUME IInv, NEW a \in Asks, Enumerate(a)
  PROVE  IInv'
<1> USE Markers, ScanPositions
<1>1. CASE \E r \in {"user_interrupted", RootLost, "orphan_scan_failed"} :
             Report(a, "scan", r) /\ UNCHANGED todo
  <2>1. "scan" \in ScanPcs /\ UNCHANGED <<disk, cur, err, tally, mine>>
    BY DEF Enumerate, ScanPcs
  <2> QED BY <1>1, <2>1, EarlyReport
<1>2. CASE /\ Goto(a, "scan", "classify")
           /\ todo' = [todo EXCEPT ![a] = {id \in Ids : staging[id] # None}]
           /\ UNCHANGED report
  <2>1. /\ pc[a] = "scan" /\ pc' = [pc EXCEPT ![a] = "classify"]
        /\ "scan" \in ScanPcs /\ "classify" \in ScanPcs
        /\ UNCHANGED <<disk, cur, err, tally, mine, report>>
    BY <1>2 DEF Enumerate, Goto, ScanPcs
  <2>2. /\ todo' \in [Asks -> SUBSET Ids]
        /\ todo'[a] = {id \in Ids : staging[id] # None}
        /\ \A b \in Asks \ {a} : todo'[b] = todo[b]
        /\ pc'[a] = "classify"
    BY <1>2, <2>1 DEF IInv, TypeOK
  <2>3. \A id \in Ids : IsTree(staging[id]) <=> staging[id] # None
    BY DEF IInv, TypeOK, IsTree
  <2>4. \A c \in Classes : tally[a][c] = {} BY <2>1 DEF IInv, BooksBalance, Books
  <2>5. Counted(a)' = {} BY <2>1, <2>4 DEF Counted
  <2>6. Books(a)' BY <2>1, <2>2, <2>3, <2>4, <2>5 DEF Books, Classes, disk
  <2> QED BY <2>1, <2>2, <2>6, ScanFrame
<1> QED BY <1>1, <1>2 DEF Enumerate

\* The scan returns once every entry is settled.
LEMMA ScanReturnStep ==
  ASSUME IInv, NEW a \in Asks, ScanReturn(a)
  PROVE  IInv'
<1> USE ScanPositions
<1>1. "classify" \in ScanPcs /\ UNCHANGED <<disk, todo, cur, err, tally, mine>>
  BY DEF ScanReturn, ScanPcs
<1>2. CASE Report(a, "classify", RootLost) BY <1>1, <1>2, EarlyReport
<1>3. CASE Goto(a, "classify", "cutover") /\ UNCHANGED report
  <2>1. pc[a] = "classify" /\ pc' = [pc EXCEPT ![a] = "cutover"] BY <1>3 DEF Goto
  <2>2. pc'[a] = "cutover" BY <2>1 DEF IInv, TypeOK
  <2>3. todo[a] = {} BY DEF ScanReturn
  <2>4. Books(a) /\ Counted(a)' = Counted(a) BY <1>1 DEF IInv, BooksBalance, Counted
  <2>5. Books(a)' BY <1>1, <2>1, <2>2, <2>3, <2>4 DEF Books, disk
  <2>6. todo' \in [Asks -> SUBSET Ids] BY <1>1 DEF IInv, TypeOK
  <2> QED BY <1>1, <1>3, <2>1, <2>5, <2>6, ScanFrame
<1> QED BY <1>2, <1>3 DEF ScanReturn

\* An inspected entry is an orphan to complete, or it is quarantined.
LEMMA InspectStep ==
  ASSUME IInv, NEW a \in Asks, Inspect(a)
  PROVE  IInv'
<1> USE ScanPositions
<1>0. /\ pc[a] = "classify" /\ "classify" \in ScanPcs
      /\ UNCHANGED <<disk, err, mine>>
      /\ pc \in [Asks -> Pcs] /\ cur \in [Asks -> Ids \union {None}]
      /\ err \in [Asks -> {None, "exists", "other"}]
  BY DEF Inspect, Report, Goto, ScanPcs, IInv, TypeOK
<1>1. PICK id \in todo[a] :
       \/ /\ Whole(staging[id])
          /\ Goto(a, "classify", "orphan")
          /\ cur' = [cur EXCEPT ![a] = id]
          /\ UNCHANGED <<todo, tally, report>>
       \/ /\ pc[a] = "classify"
          /\ Classify(a, id, "quarantined")
          /\ UNCHANGED <<pc, cur, report>>
       \/ Report(a, "classify", RootLost) /\ UNCHANGED <<todo, cur, tally>>
  BY DEF Inspect
<1>2. id \in Ids BY DEF IInv, TypeOK
<1>3. CASE Report(a, "classify", RootLost) /\ UNCHANGED <<todo, cur, tally>>
  BY <1>0, <1>3, EarlyReport
<1>4. CASE /\ pc[a] = "classify"
           /\ Classify(a, id, "quarantined")
           /\ UNCHANGED <<pc, cur, report>>
  <2>1. pc' = [pc EXCEPT ![a] = "classify"] BY <1>0, <1>4
  <2>2. IsTree(staging[id]) BY <1>0, <1>2 DEF IInv, BooksBalance, Books
  <2>3. "quarantined" \in Classes BY DEF Classes
  <2> QED BY <1>0, <1>4, <2>1, <2>2, <2>3, ClassifyStep
<1>5. CASE /\ Whole(staging[id])
           /\ Goto(a, "classify", "orphan")
           /\ cur' = [cur EXCEPT ![a] = id]
           /\ UNCHANGED <<todo, tally, report>>
  <2>1. /\ cur' \in [Asks -> Ids \union {None}] /\ cur'[a] = id
        /\ \A b \in Asks \ {a} : cur'[b] = cur[b]
        /\ err' \in [Asks -> {None, "exists", "other"}]
    BY <1>0, <1>2, <1>5
  <2>2. pc' = [pc EXCEPT ![a] = "orphan"] BY <1>5 DEF Goto
  <2>3. "orphan" \notin WritingPcs BY DEF WritingPcs
  <2> QED BY <1>0, <1>5, <2>1, <2>2, <2>3, AdvanceStep
<1> QED BY <1>1, <1>3, <1>4, <1>5

\* The checkpoints of a completion, before and after its rename.
LEMMA OrphanCheckpointStep ==
  ASSUME IInv, NEW a \in Asks, OrphanCheckpoint(a)
  PROVE  IInv'
<1> USE ScanPositions
<1>0. /\ pc[a] = "orphan" /\ "orphan" \in ScanPcs
      /\ UNCHANGED <<disk, cur, err, mine>>
      /\ cur \in [Asks -> Ids \union {None}]
      /\ err \in [Asks -> {None, "exists", "other"}]
  BY DEF OrphanCheckpoint, ScanPcs, IInv, TypeOK
<1>1. cur[a] \in todo[a] /\ cur[a] \in Ids /\ Whole(staging[cur[a]])
  BY <1>0 DEF IInv, OrphanIsWhole, TypeOK
<1>2. CASE Goto(a, "orphan", "orphanRename") /\ UNCHANGED <<todo, tally, report>>
  <2>1. "orphanRename" \notin WritingPcs BY DEF WritingPcs
  <2> QED BY <1>0, <1>1, <1>2, <2>1, AdvanceStep DEF Goto
<1>3. CASE /\ Goto(a, "orphan", "classify")
           /\ Classify(a, cur[a], "target_conflict")
           /\ UNCHANGED report
  <2>1. "target_conflict" \in Classes /\ IsTree(staging[cur[a]])
    BY <1>1 DEF Classes, Whole, IsTree
  <2> QED BY <1>0, <1>1, <1>3, <2>1, ClassifyStep DEF Goto
<1>4. CASE Report(a, "orphan", RootLost) /\ UNCHANGED <<todo, tally>>
  BY <1>0, <1>4, EarlyReport
<1> QED BY <1>2, <1>3, <1>4 DEF OrphanCheckpoint

\* A renamed orphan is recovered.
LEMMA OrphanDoneStep ==
  ASSUME IInv, NEW a \in Asks, OrphanDone(a)
  PROVE  IInv'
<1> USE ScanPositions
<1>0. /\ pc[a] = "orphanDone" /\ "orphanDone" \in ScanPcs
      /\ UNCHANGED <<disk, cur, err, mine>>
  BY DEF OrphanDone, Report, Goto, ScanPcs
<1>1. cur[a] \in todo[a] /\ Whole(target[cur[a]]) /\ staging[cur[a]] = None
  BY <1>0 DEF IInv, OrphanIsWhole
<1>2. CASE /\ Goto(a, "orphanDone", "classify")
           /\ Classify(a, cur[a], "recovered")
           /\ UNCHANGED report
  <2>1. "recovered" \in Classes BY DEF Classes
  <2> QED BY <1>0, <1>1, <1>2, <2>1, ClassifyStep DEF Goto
<1>3. CASE Report(a, "orphanDone", RootLost) /\ UNCHANGED <<todo, tally>>
  BY <1>0, <1>3, EarlyReport
<1> QED BY <1>2, <1>3 DEF OrphanDone

\* After a failed rename of an orphan the entry is settled as it is found.
LEMMA OrphanStateStep ==
  ASSUME IInv, NEW a \in Asks, OrphanState(a)
  PROVE  IInv'
<1> USE ScanPositions
<1>0. /\ pc[a] = "orphanState" /\ "orphanState" \in ScanPcs
      /\ UNCHANGED <<disk, cur, err, mine>>
  BY DEF OrphanState, ScanPcs
<1>1. cur[a] \in todo[a] /\ cur[a] \in Ids BY <1>0 DEF IInv, OrphanIsWhole, TypeOK
<1>2. ASSUME NEW class \in {"target_conflict", "recovery_failed"},
             staging[cur[a]] # None, Goto(a, "orphanState", "classify"),
             Classify(a, cur[a], class), UNCHANGED report
      PROVE  IInv'
  <2>1. IsTree(staging[cur[a]]) BY <1>1, <1>2, Markers DEF IInv, TypeOK, IsTree
  <2>2. class \in Classes /\ class # "recovered" BY DEF Classes
  <2> QED BY <1>0, <1>1, <1>2, <2>1, <2>2, ClassifyStep DEF Goto
<1>3. ASSUME NEW r \in {"raised", RootLost}, Report(a, "orphanState", r),
             UNCHANGED <<todo, tally>>
      PROVE  IInv'
  BY <1>0, <1>3, EarlyReport
<1> QED BY <1>2, <1>3 DEF OrphanState

\* The rename of an orphan, and of the current Answer.
LEMMA RenameStep ==
  ASSUME IInv, NEW a \in Asks, OrphanRename(a) \/ Publish(a)
  PROVE  IInv'
<1> DEFINE Moved(id, from, done, failed) ==
      /\ target[id] = None
      /\ target' = [target EXCEPT ![id] = staging[id]]
      /\ staging' = [staging EXCEPT ![id] = None]
      /\ \/ Goto(a, from, done) /\ UNCHANGED err
         \/ Goto(a, from, failed) /\ err' = [err EXCEPT ![a] = "other"]
    Kept(id, from, failed) ==
      /\ UNCHANGED <<staging, target>>
      /\ Goto(a, from, failed)
      /\ \/ target[id] # None /\ err' = [err EXCEPT ![a] = "exists"]
         \/ err' = [err EXCEPT ![a] = "other"]
<1>0. err' \in [Asks -> {None, "exists", "other"}]
      /\ UNCHANGED <<owner, todo, cur, tally, mine, report>>
  BY DEF OrphanRename, Publish, Rename, IInv, TypeOK
<1>1. CASE OrphanRename(a)
  <2>1. pc[a] = "orphanRename" BY <1>1 DEF OrphanRename, Rename
  <2>2. cur[a] \in todo[a] /\ cur[a] \in Ids /\ Whole(staging[cur[a]])
    BY <2>1 DEF IInv, OrphanIsWhole, TypeOK
  <2>3. CASE Moved(cur[a], "orphanRename", "orphanDone", "orphanState")
    BY <1>0, <2>1, <2>2, <2>3, MoveStep DEF Goto
  <2>4. CASE Kept(cur[a], "orphanRename", "orphanState")
    <3>1. "orphanState" \notin WritingPcs BY DEF WritingPcs
    <3>2. cur' \in [Asks -> Ids \union {None}] /\ UNCHANGED disk
      BY <1>0, <2>4 DEF IInv, TypeOK, disk
    <3> QED BY <1>0, <2>1, <2>2, <2>4, <3>1, <3>2, AdvanceStep DEF Goto
  <2> QED BY <1>1, <2>3, <2>4 DEF OrphanRename, Rename
<1>2. CASE Publish(a)
  <2>1. pc[a] = "rename" BY <1>2 DEF Publish, Rename
  <2>2. mine[a] \in Ids /\ Whole(Tree(a))
    BY <2>1, TreeIsOwn DEF IInv, TreeGrows, WritingPcs, Grown
  <2>3. CASE Moved(mine[a], "rename", "commitDone", "commitState")
    BY <1>0, <2>1, <2>2, <2>3, MoveStep DEF Goto
  <2>4. CASE Kept(mine[a], "rename", "commitState")
    <3>1. /\ "commitState" \notin WritingPcs /\ "commitState" \in PublishPcs
          /\ "rename" \in PublishPcs
      BY DEF WritingPcs, PublishPcs
    <3>2. cur' \in [Asks -> Ids \union {None}] /\ UNCHANGED disk
      BY <1>0, <2>4 DEF IInv, TypeOK, disk
    <3> QED BY <1>0, <2>1, <2>2, <2>4, <3>1, <3>2, AdvanceStep DEF Goto
  <2> QED BY <1>2, <2>3, <2>4 DEF Publish, Rename
<1> QED BY <1>1, <1>2

\* The cutover forms an ID that no tree has.
LEMMA CutOverStep ==
  ASSUME IInv, NEW a \in Asks, CutOver(a)
  PROVE  IInv'
<1> USE Markers
<1>0. /\ pc[a] = "cutover" /\ pc[a] \in HeldPcs \ {"commitState", "commitDone", "release"}
      /\ UNCHANGED <<disk, todo, cur, err, tally>>
      /\ pc \in [Asks -> Pcs] /\ mine \in [Asks -> Ids \union {None}]
  BY ScanPositions DEF CutOver, Report, Goto, IInv, TypeOK
<1>1. CASE \E r \in {"user_interrupted", RootLost, "raised"} : Report(a, "cutover", r) /\ UNCHANGED mine
  BY <1>0, <1>1, ScanPositions, EarlyReport
<1>2. CASE /\ Goto(a, "cutover", "publish")
           /\ \E id \in Ids \ {mine[b] : b \in Asks} : mine' = [mine EXCEPT ![a] = id]
           /\ UNCHANGED report
  <2>1. PICK id \in Ids : (\A b \in Asks : mine[b] # id) /\ mine' = [mine EXCEPT ![a] = id]
    BY <1>2
  <2>2. /\ pc' \in [Asks -> Pcs] /\ pc'[a] = "publish"
        /\ \A b \in Asks \ {a} : pc'[b] = pc[b]
        /\ "publish" \in HeldPcs /\ "publish" \in PublishPcs /\ "publish" \notin ScanPcs
    BY <1>0, <1>2 DEF Goto, Pcs, HeldPcs, PublishPcs, ScanPcs
  <2>3. /\ mine' \in [Asks -> Ids \union {None}] /\ mine'[a] = id /\ mine[a] = None
        /\ \A b \in Asks \ {a} : mine'[b] = mine[b]
    BY <1>0, <2>1 DEF IInv, IdsAreOwn
  <2>4. \A e \in Ids : /\ IsTree(staging[e]) => staging[e].by \in Asks \ {a} /\ e # id
                       /\ IsTree(target[e]) => target[e].by \in Asks \ {a} /\ e # id
    <3>1. ASSUME NEW e \in Ids, NEW t \in Trees, mine[t.by] = e PROVE t.by \in Asks \ {a} /\ e # id
      BY <2>1, <2>3, <3>1 DEF Trees
    <3> QED BY <3>1 DEF IInv, TypeOK, IdsAreOwn, IsTree
  <2>5. \A b \in Asks : Committed(b)' <=> Committed(b)
    <3>1. ~Committed(a) /\ ~Committed(a)' BY <1>0, <2>1, <2>3, <2>4 DEF Committed, disk
    <3>2. \A b \in Asks \ {a} : Committed(b)' <=> Committed(b) BY <1>0, <2>3 DEF Committed, disk
    <3> QED BY <3>1, <3>2
  <2>6. \A b \in Asks \ {a} : pc'[b] \notin HeldPcs
    BY <1>0, <2>2 DEF IInv, HolderIsOwner
  <2>7. TypeOK' BY <1>0, <1>2, <2>2, <2>3 DEF IInv, TypeOK, disk
  <2>8. HolderIsOwner' BY <1>0, <2>2 DEF IInv, HolderIsOwner, disk
  <2>9. IdsAreOwn'
    <3>1. \A b, c \in Asks : mine'[b] # None /\ mine'[b] = mine'[c] => b = c
      BY <2>1, <2>3 DEF IInv, IdsAreOwn
    <3>2. \A e \in Ids : IsTree(staging[e]) => mine'[staging[e].by] = e
      BY <2>3, <2>4 DEF IInv, IdsAreOwn
    <3>3. \A e \in Ids : IsTree(target[e]) => mine'[target[e].by] = e
      BY <2>3, <2>4 DEF IInv, IdsAreOwn
    <3> QED BY <1>0, <2>2, <2>3, <3>1, <3>2, <3>3 DEF IInv, IdsAreOwn, disk
  <2>10. TreesMoveWhole' BY <1>0 DEF IInv, TreesMoveWhole, FormalAnswersAreWhole, disk
  <2>11. TreeGrows' BY <2>2, <2>6 DEF TreeGrows, WritingPcs, HeldPcs, PublishPcs
  <2>12. CommitIsKnown'
    <3>1. \A b \in Asks : pc'[b] \notin {"release", "commitDone"}
      BY <2>2, <2>6 DEF HeldPcs, PublishPcs
    <3> QED BY <1>0, <1>2, <2>2, <2>5, <3>1 DEF IInv, CommitIsKnown
  <2>13. OrphanIsWhole' BY <2>2, <2>6 DEF OrphanIsWhole, HeldPcs, ScanPcs
  <2>14. BooksBalance'
    <3>1. Books(a)' BY <2>2 DEF Books, ScanPcs
    <3>2. \A b \in Asks \ {a} : pc[b] \notin HeldPcs BY <1>0 DEF IInv, HolderIsOwner
    <3> QED BY <1>0, <2>2, <3>1, <3>2, OtherBooks DEF IInv, BooksBalance
  <2> QED BY <2>7, <2>8, <2>9, <2>10, <2>11, <2>12, <2>13, <2>14 DEF IInv
<1> QED BY <1>1, <1>2 DEF CutOver

\* Positions and reports of the publication.
LEMMA PublishPositions ==
  /\ WritingPcs \union {"publish", "mkdir"} \subseteq
       PublishPcs \intersect (HeldPcs \ {"commitState", "commitDone", "release"})
  /\ PublishPcs \subseteq HeldPcs
  /\ {"answer_staging_failed", "answer_manifest_failed", "answer_target_conflict", RootLost, "raised"}
       \subseteq (NoCommit \ {"answer_commit_failed"}) \union {RootLost, "raised"}
  /\ {"answer_staging_failed", "answer_commit_failed", "answer_target_conflict", RootLost,
      "raised", "committed"} \subseteq Reports
  /\ {RootLost, "raised", "committed"} \intersect NoCommit = {}
BY DEF WritingPcs, PublishPcs, ScanPcs, HeldPcs, NoCommit, RootLost, Reports

\* The steps of the publication that leave the files alone.
LEMMA CheckStep ==
  ASSUME IInv, NEW a \in Asks, Begin(a) \/ Readback(a) \/ FinalCheck(a)
  PROVE  IInv'
<1> USE PublishPositions
<1>0. /\ UNCHANGED <<disk, todo, cur, err, tally, mine>>
      /\ cur' \in [Asks -> Ids \union {None}]
      /\ err' \in [Asks -> {None, "exists", "other"}]
      /\ pc[a] \in {"publish", "readback", "finalCheck"}
  BY DEF Begin, Readback, FinalCheck, Report, Goto, IInv, TypeOK
<1>1. {"publish", "mkdir", "readback", "finalCheck", "rename"} \subseteq PublishPcs
      /\ "mkdir" \notin WritingPcs
      /\ "readback" \in WritingPcs /\ "finalCheck" \in WritingPcs
  BY DEF PublishPcs, WritingPcs
<1>2. CASE \E r \in {RootLost, "raised", "answer_manifest_failed", "answer_target_conflict"} :
             Report(a, pc[a], r)
  BY <1>0, <1>1, <1>2, EarlyReport
<1>3. CASE Goto(a, "publish", "mkdir") /\ UNCHANGED report
  BY <1>0, <1>1, <1>3, AdvanceStep DEF Goto
<1>4. CASE Goto(a, "readback", "finalCheck") /\ UNCHANGED report /\ Whole(Tree(a))
  <2>1. IsTree(Tree(a)) /\ Grown("finalCheck", Tree(a)) BY <1>4 DEF IsTree, Whole, Grown
  <2> QED BY <1>0, <1>1, <1>4, <2>1, AdvanceStep DEF Goto
<1>5. CASE Goto(a, "finalCheck", "rename") /\ UNCHANGED report
  <2>1. IsTree(Tree(a)) /\ Grown("rename", Tree(a))
    BY <1>1, <1>5 DEF IInv, TreeGrows, Goto, Grown
  <2> QED BY <1>0, <1>1, <1>5, <2>1, AdvanceStep DEF Goto
<1>6. Report(a, "publish", RootLost) \/ Report(a, "publish", "raised")
      \/ Report(a, "readback", "answer_manifest_failed") \/ Report(a, "readback", RootLost)
      \/ Report(a, "finalCheck", "answer_target_conflict") \/ Report(a, "finalCheck", RootLost)
      => \E r \in {RootLost, "raised", "answer_manifest_failed", "answer_target_conflict"} :
             Report(a, pc[a], r)
  BY DEF Report, Goto
<1> QED BY <1>2, <1>3, <1>4, <1>5, <1>6 DEF Begin, Readback, FinalCheck

\* The staging entry is made.
LEMMA MkdirStep ==
  ASSUME IInv, NEW a \in Asks, Mkdir(a)
  PROVE  IInv'
<1> USE PublishPositions, Markers
<1> DEFINE t == [by |-> a, assets |-> 0, torn |-> FALSE, manifest |-> "none"]
<1>0. /\ pc[a] = "mkdir" /\ UNCHANGED <<owner, target, todo, cur, err, tally, mine>>
      /\ report \in [Asks -> Reports]
  BY DEF Mkdir, IInv, TypeOK
<1>1. t \in Trees /\ t.by = a /\ Grown("asset", t) /\ "asset" \in WritingPcs
  BY DEF Trees, Grown, WritingPcs
<1>2. CASE WriteTree(a, t) /\ Goto(a, "mkdir", "asset") /\ UNCHANGED report
  BY <1>0, <1>1, <1>2, WriteStep DEF Goto
<1>3. CASE WriteTree(a, t) /\ Report(a, "mkdir", "answer_staging_failed")
  <2>1. /\ pc' = [pc EXCEPT ![a] = "release"] /\ report'[a] = "answer_staging_failed"
        /\ report' \in [Asks -> Reports]
        /\ \A b \in Asks \ {a} : report'[b] = report[b]
        /\ "release" \notin WritingPcs
    BY <1>0, <1>3 DEF Report, Goto, WritingPcs
  <2> QED BY <1>0, <1>1, <1>3, <2>1, WriteStep
<1>4. CASE /\ UNCHANGED staging
           /\ \E r \in {"answer_staging_failed", RootLost, "raised", "answer_target_conflict"} :
                Report(a, "mkdir", r)
  <2>1. UNCHANGED disk BY <1>0, <1>4 DEF disk
  <2> QED BY <1>0, <1>4, <2>1, EarlyReport
<1> QED BY <1>2, <1>3, <1>4 DEF Mkdir

\* Creating and writing an asset or the manifest.
LEMMA FileStep ==
  ASSUME IInv, NEW a \in Asks,
         CreateAsset(a) \/ WriteAsset(a) \/ CreateManifest(a) \/ WriteManifest(a)
  PROVE  IInv'
<1> USE PublishPositions, Markers
<1>0. /\ pc[a] \in {"asset", "assetWrite", "manifest", "manifestWrite"}
      /\ UNCHANGED <<owner, target, todo, cur, err, tally, mine>>
      /\ report \in [Asks -> Reports] /\ cur \in [Asks -> Ids \union {None}]
      /\ err \in [Asks -> {None, "exists", "other"}]
  BY DEF CreateAsset, WriteAsset, CreateManifest, WriteManifest, Report, Goto, IInv, TypeOK
<1>1. pc[a] \in WritingPcs /\ {"asset", "assetWrite", "manifest", "manifestWrite", "readback"}
        \subseteq WritingPcs
  BY <1>0 DEF WritingPcs
<1>2. Tree(a) \in Trees /\ Tree(a).by = a /\ Grown(pc[a], Tree(a)) /\ IsTree(Tree(a))
  BY <1>1, TreeIsOwn DEF IInv, TreeGrows
<1>a. /\ Tree(a).assets \in 0..NAssets /\ Tree(a).torn \in BOOLEAN
      /\ Tree(a) = [by |-> a, assets |-> Tree(a).assets, torn |-> Tree(a).torn,
                    manifest |-> Tree(a).manifest]
      /\ Tree(a).manifest \in {"none", "torn", "whole"}
  BY <1>2 DEF Trees
<1>3. ASSUME UNCHANGED staging,
             NEW r \in {"answer_staging_failed", "answer_manifest_failed", RootLost},
             Report(a, pc[a], r)
      PROVE  IInv'
  BY <1>0, <1>1, <1>3, EarlyReport DEF disk
<1>4. ASSUME NEW t \in Trees, NEW to \in WritingPcs, t.by = a, WriteTree(a, t), Grown(to, t),
             pc' = [pc EXCEPT ![a] = to], UNCHANGED report
      PROVE  IInv'
  BY <1>0, <1>1, <1>4, WriteStep
<1>5. CASE CreateAsset(a)
  <2>1. CASE Tree(a).assets < NAssets /\ Goto(a, "asset", "assetWrite")
             /\ WriteTree(a, [Tree(a) EXCEPT !.torn = TRUE]) /\ UNCHANGED report
    <3>1. /\ [Tree(a) EXCEPT !.torn = TRUE] \in Trees
          /\ [Tree(a) EXCEPT !.torn = TRUE].by = a
          /\ [Tree(a) EXCEPT !.torn = TRUE].assets = Tree(a).assets
      BY <1>2 DEF Trees
    <3>2. Grown("assetWrite", [Tree(a) EXCEPT !.torn = TRUE]) BY <2>1, <3>1 DEF Grown
    <3> QED BY <1>1, <1>4, <2>1, <3>1, <3>2 DEF Goto
  <2>2. CASE Tree(a).assets = NAssets /\ Goto(a, "asset", "manifest")
             /\ UNCHANGED <<staging, report>>
    <3>1. Grown("manifest", Tree(a)) BY <1>2, <2>2 DEF Grown, Goto
    <3>2. UNCHANGED disk BY <1>0, <2>2 DEF disk
    <3> QED BY <1>0, <1>1, <1>2, <2>2, <3>1, <3>2, AdvanceStep DEF Goto
  <2>3. CASE (Report(a, "asset", "answer_staging_failed") \/ Report(a, "asset", RootLost))
             /\ UNCHANGED staging
    BY <1>3, <2>3 DEF Report, Goto
  <2> QED BY <1>5, <2>1, <2>2, <2>3 DEF CreateAsset
<1>6. CASE WriteAsset(a)
  <2>1. CASE /\ Goto(a, "assetWrite", "asset")
             /\ WriteTree(a, [by |-> a, assets |-> Tree(a).assets + 1, torn |-> FALSE, manifest |-> "none"])
             /\ UNCHANGED report
    <3>1. Tree(a).assets < NAssets BY <1>2, <2>1 DEF Grown, Goto
    <3>2. Tree(a).assets + 1 \in 0..NAssets BY <1>a, <3>1
    <3>3. /\ [by |-> a, assets |-> Tree(a).assets + 1, torn |-> FALSE, manifest |-> "none"] \in Trees
          /\ [by |-> a, assets |-> Tree(a).assets + 1, torn |-> FALSE, manifest |-> "none"].by = a
          /\ Grown("asset", [by |-> a, assets |-> Tree(a).assets + 1, torn |-> FALSE, manifest |-> "none"])
      BY <3>2 DEF Trees, Grown
    <3> QED BY <1>1, <1>4, <2>1, <3>3 DEF Goto
  <2>2. CASE (Report(a, "assetWrite", "answer_staging_failed") \/ Report(a, "assetWrite", RootLost))
             /\ UNCHANGED staging
    BY <1>3, <2>2 DEF Report, Goto
  <2> QED BY <1>6, <2>1, <2>2 DEF WriteAsset
<1>7. ASSUME NEW m \in {"torn", "whole"}, NEW to \in {"manifestWrite", "readback"},
             m = "torn" => to = "manifestWrite",
             pc[a] \in {"manifest", "manifestWrite"},
             pc' = [pc EXCEPT ![a] = to], UNCHANGED report,
             WriteTree(a, [Tree(a) EXCEPT !.manifest = m])
      PROVE  IInv'
  <2>1. Tree(a).assets = NAssets /\ ~Tree(a).torn BY <1>2, <1>7 DEF Grown
  <2>2. \A t, n, o : t = [by |-> a, assets |-> n, torn |-> o, manifest |-> t.manifest] =>
          [t EXCEPT !.manifest = m] = [by |-> a, assets |-> n, torn |-> o, manifest |-> m]
    OBVIOUS
  <2>a. [Tree(a) EXCEPT !.manifest = m] =
          [by |-> a, assets |-> Tree(a).assets, torn |-> Tree(a).torn, manifest |-> m]
    BY <1>a, <2>2
  <2>3. /\ [Tree(a) EXCEPT !.manifest = m] \in Trees
        /\ [Tree(a) EXCEPT !.manifest = m].by = a
    BY <1>a, <2>a DEF Trees
  <2>4. Grown(to, [Tree(a) EXCEPT !.manifest = m])
    BY <1>7, <2>1, <2>a, <2>3 DEF Grown, Whole
  <2> QED BY <1>1, <1>4, <1>7, <2>3, <2>4
<1>8. CASE CreateManifest(a)
  <2>1. CASE (Report(a, "manifest", "answer_manifest_failed") \/ Report(a, "manifest", RootLost))
             /\ UNCHANGED staging
    BY <1>3, <2>1 DEF Report, Goto
  <2> QED BY <1>7, <1>8, <2>1 DEF CreateManifest, Goto
<1>9. CASE WriteManifest(a)
  <2>1. CASE (Report(a, "manifestWrite", "answer_manifest_failed")
              \/ Report(a, "manifestWrite", RootLost)) /\ UNCHANGED staging
    BY <1>3, <2>1 DEF Report, Goto
  <2> QED BY <1>7, <1>9, <2>1 DEF WriteManifest, Goto
<1> QED BY <1>5, <1>6, <1>8, <1>9

\* What ask() reports after its rename fits what the rename did.
LEMMA CommitStep ==
  ASSUME IInv, NEW a \in Asks, CommitState(a) \/ CommitDone(a)
  PROVE  IInv'
<1> USE PublishPositions
<1>0. /\ pc[a] \in {"commitState", "commitDone"} /\ pc[a] \in HeldPcs /\ mine[a] \in Ids
      /\ UNCHANGED <<disk, todo, cur, err, tally, mine>>
  <2>1. pc[a] \in {"commitState", "commitDone"} BY DEF CommitState, CommitDone, Report, Goto
  <2>2. pc[a] \in PublishPcs BY <2>1 DEF PublishPcs
  <2> QED BY <2>1, <2>2 DEF IInv, TypeOK, IdsAreOwn, CommitState, CommitDone
<1>1. PICK r \in Reports : Report(a, pc[a], r)
                           /\ (r = "committed" => CommitDone(a))
                           /\ (r \in NoCommit => pc[a] = "commitState" /\ staging[mine[a]] # None)
  <2>1. CASE CommitDone(a) BY <2>1, <1>0 DEF CommitDone, Report, Goto
  <2>2. CASE CommitState(a)
    <3>1. pc[a] = "commitState" BY <2>2 DEF CommitState
    <3>2. CASE Report(a, "commitState", "raised") \/ Report(a, "commitState", RootLost)
      <4>1. "raised" # "committed" /\ RootLost # "committed" BY DEF RootLost
      <4> QED BY <3>1, <3>2, <4>1
    <3>3. CASE /\ staging[mine[a]] # None
               /\ \/ Report(a, "commitState", "answer_target_conflict")
                  \/ Report(a, "commitState", "answer_commit_failed")
      <4>1. /\ {"answer_target_conflict", "answer_commit_failed"} \subseteq Reports
            /\ "answer_target_conflict" # "committed" /\ "answer_commit_failed" # "committed"
        OBVIOUS
      <4>2. PICK r \in {"answer_target_conflict", "answer_commit_failed"} :
              Report(a, "commitState", r)
        BY <3>3
      <4>3. Report(a, pc[a], r) /\ r # "committed" /\ r \in Reports /\ staging[mine[a]] # None
        BY <3>1, <3>3, <4>1, <4>2
      <4> QED BY <3>1, <4>3
    <3> QED BY <2>2, <3>2, <3>3 DEF CommitState
  <2> QED BY <2>1, <2>2
<1>2. CommitDone(a) => Committed(a)
  BY DEF CommitDone, Report, Goto, IInv, CommitIsKnown
<1>3. r \in NoCommit => Whole(Tree(a)) /\ ~Committed(a)
  <2>1. SUFFICES ASSUME r \in NoCommit PROVE Whole(Tree(a)) /\ ~Committed(a)
    OBVIOUS
  <2>2. IsTree(Tree(a)) BY <1>0, <1>1, <2>1, Markers DEF IInv, TypeOK, IsTree, Tree
  <2>3. ~Committed(a) BY <1>0, <2>2 DEF IInv, TreesMoveWhole, Committed, Tree
  <2> QED BY <1>1, <2>1, <2>3 DEF IInv, TreeGrows
<1>4. "answer_commit_failed" \in NoCommit BY DEF NoCommit
<1>5. mine[a] # None BY <1>0, Markers
<1> QED BY <1>0, <1>1, <1>2, <1>3, <1>4, <1>5, ReportStep DEF Report, Goto

-----------------------------------------------------------------------------
(* The invariant and the properties it implies.                            *)

LEMMA InitIInv == Init => IInv
<1> SUFFICES ASSUME Init PROVE IInv
  OBVIOUS
<1> USE Markers
<1>1. \A a \in Asks : /\ pc[a] = "start" /\ mine[a] = None /\ report[a] = None /\ todo[a] = {}
                      /\ \A c \in Classes : tally[a][c] = {}
  BY DEF Init
<1>2. "start" \in Pcs /\ "start" \notin HeldPcs /\ "start" \notin ScanPcs
      /\ "start" \notin PublishPcs /\ "start" \notin WritingPcs /\ "start" # "cutover"
  BY DEF Pcs, HeldPcs, ScanPcs, PublishPcs, WritingPcs
<1>3. TypeOK
  <2>1. [c \in Classes |-> {}] \in [Classes -> SUBSET Ids] OBVIOUS
  <2> QED BY <1>2, <2>1, ReportsKnown DEF Init, TypeOK
<1>4. \A id \in Ids : staging[id] = None /\ target[id] = None BY DEF Init
<1>5. HolderIsOwner BY <1>1, <1>2 DEF Init, HolderIsOwner
<1>6. IdsAreOwn BY <1>1, <1>2, <1>4 DEF IdsAreOwn, IsTree
<1>7. TreesMoveWhole BY <1>4 DEF TreesMoveWhole, FormalAnswersAreWhole, IsTree
<1>8. TreeGrows BY <1>1, <1>2 DEF TreeGrows
<1>9. CommitIsKnown
  <2>1. None # "committed" BY TerminalAssumption
  <2> QED BY <1>1, <2>1 DEF CommitIsKnown, Committed
<1>10. OrphanIsWhole BY <1>1 DEF OrphanIsWhole
<1>11. BooksBalance BY <1>1, <1>2, <1>4 DEF BooksBalance, Books, Counted, IsTree, Classes, ScanPcs
<1> QED BY <1>3, <1>5, <1>6, <1>7, <1>8, <1>9, <1>10, <1>11 DEF IInv

LEMMA NextIInv == IInv /\ [Next]_vars => IInv'
<1> SUFFICES ASSUME IInv, [Next]_vars PROVE IInv'
  OBVIOUS
<1>1. CASE UNCHANGED vars
  BY <1>1 DEF vars, disk, local, IInv, TypeOK, HolderIsOwner, IdsAreOwn, TreesMoveWhole,
     FormalAnswersAreWhole, TreeGrows, Tree, Grown, CommitIsKnown, Committed,
     OrphanIsWhole, BooksBalance, Books, Counted
<1>2. ASSUME NEW a \in Asks, Ask(a) \/ Crash(a) PROVE IInv'
  <2>1. CASE Acquire(a) BY <2>1, AcquireStep
  <2>2. CASE Release(a) \/ Crash(a) BY <2>2, LeaveStep
  <2>3. CASE CutOver(a) BY <2>3, CutOverStep
  <2>4. CASE Scan(a)
    BY <2>4, EnumerateStep, InspectStep, ScanReturnStep, OrphanCheckpointStep, RenameStep,
       OrphanStateStep, OrphanDoneStep DEF Scan
  <2>5. CASE PublishAnswer(a)
    BY <2>5, CheckStep, MkdirStep, FileStep, RenameStep, CommitStep DEF PublishAnswer
  <2> QED BY <1>2, <2>1, <2>2, <2>3, <2>4, <2>5 DEF Ask
<1> QED BY <1>1, <1>2, PlantStep DEF Next

\* The inductive invariant holds of any number of invocations.
THEOREM Invariant == Spec => []IInv
BY InitIInv, NextIInv, PTL DEF Spec

\* Every variable keeps its type, whatever the processes do.
THEOREM TypeCorrect == Spec => []TypeOK
BY Invariant, PTL DEF IInv

\* No crash, failure or interleaving leaves a part of an Answer at answers/<id>.
THEOREM FormalAnswers == Spec => []FormalAnswersAreWhole
<1>1. IInv => FormalAnswersAreWhole BY DEF IInv, TreesMoveWhole
<1> QED BY <1>1, Invariant, PTL

\* The recovery never touches the tree of a process that may still write it.
THEOREM OrphansStand == Spec => []InspectedOrphanStands
<1>1. IInv => InspectedOrphanStands
  <2> SUFFICES ASSUME IInv, NEW a \in Asks, pc[a] \in {"orphan", "orphanRename"}
               PROVE  Whole(staging[cur[a]]) /\ Ended(staging[cur[a]].by)
    BY DEF InspectedOrphanStands
  <2> DEFINE b == staging[cur[a]].by
  <2>1. Whole(staging[cur[a]]) /\ cur[a] \in Ids BY DEF IInv, OrphanIsWhole, TypeOK
  <2>2. staging[cur[a]] \in Trees /\ IsTree(staging[cur[a]])
    BY <2>1 DEF IInv, TypeOK, Whole, IsTree
  <2>3. b \in Asks /\ mine[b] = cur[a] BY <2>1, <2>2 DEF Trees, IInv, IdsAreOwn
  <2>4. pc[a] \in ScanPcs /\ pc[a] \in HeldPcs BY DEF ScanPcs, HeldPcs
  <2>5. mine[b] # None /\ b # a BY <2>1, <2>3, <2>4, Markers DEF IInv, IdsAreOwn
  <2>6. pc[b] \notin HeldPcs BY <2>3, <2>4, <2>5 DEF IInv, HolderIsOwner
  <2>7. pc[b] # "start" /\ pc[b] \in Pcs BY <2>3, <2>5 DEF IInv, IdsAreOwn, TypeOK
  <2> QED BY <2>1, <2>6, <2>7 DEF Ended, Pcs
<1> QED BY <1>1, Invariant, PTL

\* The counts of a scan that returned are those of the staging directory.
THEOREM ScansAreExact == Spec => []ScanIsExact
<1>1. IInv => ScanIsExact
  <2> SUFFICES ASSUME IInv, NEW a \in Asks, pc[a] = "cutover"
               PROVE  /\ {id \in Ids : staging[id] # None} = Counted(a)
                      /\ \A id \in tally[a]["recovered"] : Whole(target[id])
                      /\ \A c, d \in Classes : c # d => tally[a][c] \intersect tally[a][d] = {}
    BY DEF ScanIsExact
  <2>1. Books(a) /\ pc[a] \notin ScanPcs /\ tally[a] \in [Classes -> SUBSET Ids]
    BY ScanPositions DEF IInv, BooksBalance, TypeOK
  <2>2. \A id \in Ids : staging[id] # None <=> IsTree(staging[id])
    BY Markers DEF IInv, TypeOK, IsTree
  <2>3. \A id \in Ids : IsTree(staging[id]) <=> id \in Counted(a)
    BY <2>1 DEF Books
  <2>4. \A id \in Ids : id \in tally[a]["recovered"] => Whole(target[id])
    BY <2>1 DEF Books
  <2>5. \A c \in Classes : tally[a][c] \subseteq Ids BY <2>1
  <2>6. \A c, d \in Classes : c # d => tally[a][c] \intersect tally[a][d] = {}
    BY <2>1, <2>5 DEF Books
  <2>7. "recovered" \in Classes /\ Counted(a) \subseteq Ids BY DEF Classes, Counted
  <2> QED BY <2>2, <2>3, <2>4, <2>5, <2>6, <2>7
<1> QED BY <1>1, Invariant, PTL

\* A tree at a formal path is the committed Answer of its writer.
LEMMA FormalIsCommitted ==
  ASSUME IInv, NEW a \in Asks, NEW id \in Ids, IsTree(target[id])
  PROVE  target[id].by = a <=> mine[a] = id
<1>1. target[id] \in Trees /\ target[id].by \in Asks BY DEF IInv, TypeOK, IsTree, Trees
<1>2. mine[target[id].by] = id BY DEF IInv, IdsAreOwn
<1> QED BY <1>1, <1>2, Markers DEF IInv, IdsAreOwn

\* A receipt names an Answer that its invocation wrote, for ever.
THEOREM ReceiptsAreOwn == Spec => []ReceiptIsOwn
<1>1. IInv => ReceiptIsOwn
  <2> SUFFICES ASSUME IInv, NEW a \in Asks, report[a] = "committed"
               PROVE  mine[a] # None /\ target[mine[a]] # None /\ target[mine[a]] # Foreign
                      /\ target[mine[a]].by = a
    BY DEF ReceiptIsOwn
  <2>1. Committed(a) BY DEF IInv, CommitIsKnown
  <2>2. mine[a] \in Ids BY <2>1 DEF IInv, TypeOK, Committed
  <2> QED BY <2>1, <2>2, FormalIsCommitted DEF Committed, IsTree
<1> QED BY <1>1, Invariant, PTL

\* A report of no commit is presented only while the Answer is not formal.
THEOREM NoCommitIsTrue == Spec => []NoCommitMeansNone
<1>1. IInv => NoCommitMeansNone
  <2> SUFFICES ASSUME IInv, NEW a \in Asks, pc[a] = "release", report[a] \in NoCommit,
                      NEW id \in Ids, IsTree(target[id]), target[id].by = a
               PROVE  FALSE
    BY DEF NoCommitMeansNone, IsTree
  <2>1. mine[a] = id BY FormalIsCommitted
  <2>2. Committed(a) BY <2>1, Markers DEF Committed
  <2> QED BY <2>2 DEF IInv, CommitIsKnown
<1> QED BY <1>1, Invariant, PTL

\* answer_commit_failed leaves the own tree whole in the staging directory.
THEOREM CommitFailures == Spec => []CommitFailedIsRecoverable
<1>1. IInv => CommitFailedIsRecoverable
  <2> SUFFICES ASSUME IInv, NEW a \in Asks, pc[a] = "release",
                      report[a] = "answer_commit_failed"
               PROVE  Whole(staging[mine[a]]) /\ staging[mine[a]].by = a
    BY DEF CommitFailedIsRecoverable
  <2>1. mine[a] \in Ids /\ Whole(staging[mine[a]]) BY DEF IInv, CommitIsKnown, TypeOK
  <2>2. staging[mine[a]] \in Trees /\ IsTree(staging[mine[a]])
    BY <2>1 DEF IInv, TypeOK, Whole, IsTree
  <2>3. staging[mine[a]].by \in Asks /\ mine[staging[mine[a]].by] = mine[a]
    BY <2>1, <2>2 DEF Trees, IInv, IdsAreOwn
  <2> QED BY <2>1, <2>3, Markers DEF IInv, IdsAreOwn
<1> QED BY <1>1, Invariant, PTL

-----------------------------------------------------------------------------
(* What a step may do to the files, and the refinement of the store.       *)

Untouched == UNCHANGED <<staging, target>>
Planted == \E id \in Ids :
  target[id] = None /\ target' = [target EXCEPT ![id] = Foreign] /\ UNCHANGED staging
Written == \E a \in Asks : \E t \in Trees :
  mine[a] \in Ids /\ WriteTree(a, t) /\ UNCHANGED target
Moved == \E id \in Ids :
  /\ target[id] = None /\ Whole(staging[id])
  /\ target' = [target EXCEPT ![id] = staging[id]]
  /\ staging' = [staging EXCEPT ![id] = None]

\* Every step plants, writes into the own tree, moves a whole tree to a free
\* formal path, or leaves the files alone.
LEMMA FileSteps ==
  ASSUME IInv, [Next]_vars
  PROVE  Untouched \/ Planted \/ Written \/ Moved
<1>1. CASE UNCHANGED vars BY <1>1 DEF vars, disk, Untouched
<1>2. CASE \E id \in Ids : Plant(id) BY <1>2 DEF Plant, Planted
<1>3. ASSUME NEW a \in Asks, Ask(a) \/ Crash(a)
      PROVE  Untouched \/ Written \/ Moved
  <2>1. CASE Acquire(a) \/ Release(a) \/ Crash(a) \/ CutOver(a)
    BY <2>1 DEF Acquire, Release, Crash, CutOver, Untouched, disk
  <2>2. CASE Enumerate(a) \/ Inspect(a) \/ ScanReturn(a) \/ OrphanCheckpoint(a)
             \/ OrphanState(a) \/ OrphanDone(a)
    BY <2>2 DEF Enumerate, Inspect, ScanReturn, OrphanCheckpoint, OrphanState, OrphanDone,
       Untouched, disk
  <2>3. CASE Begin(a) \/ Readback(a) \/ FinalCheck(a) \/ CommitState(a) \/ CommitDone(a)
    BY <2>3 DEF Begin, Readback, FinalCheck, CommitState, CommitDone, Untouched, disk
  <2>4. CASE OrphanRename(a)
    <3>1. pc[a] = "orphanRename" BY <2>4 DEF OrphanRename, Rename
    <3>2. cur[a] \in Ids /\ Whole(staging[cur[a]]) BY <3>1 DEF IInv, OrphanIsWhole, TypeOK
    <3> QED BY <2>4, <3>2 DEF OrphanRename, Rename, Untouched, Moved
  <2>5. CASE Publish(a)
    <3>1. pc[a] = "rename" /\ pc[a] \in WritingPcs BY <2>5 DEF Publish, Rename, WritingPcs
    <3>2. mine[a] \in Ids /\ Whole(Tree(a))
      BY <3>1, TreeIsOwn DEF IInv, TreeGrows, Grown
    <3> QED BY <2>5, <3>2 DEF Publish, Rename, Untouched, Moved, Tree
  <2>6. CASE Mkdir(a)
    <3>1. mine[a] \in Ids BY <2>6, Markers DEF Mkdir, IInv, TypeOK, IdsAreOwn, PublishPcs
    <3>2. [by |-> a, assets |-> 0, torn |-> FALSE, manifest |-> "none"] \in Trees
      BY Markers DEF Trees
    <3> QED BY <2>6, <3>1, <3>2 DEF Mkdir, Written, Untouched
  <2>7. CASE CreateAsset(a) \/ WriteAsset(a) \/ CreateManifest(a) \/ WriteManifest(a)
    <3>1. pc[a] \in WritingPcs
      BY <2>7 DEF CreateAsset, WriteAsset, CreateManifest, WriteManifest, Report, Goto, WritingPcs
    <3>2. mine[a] \in Ids /\ Tree(a) \in Trees /\ Grown(pc[a], Tree(a))
      BY <3>1, TreeIsOwn DEF IInv, TreeGrows
    <3>3. [Tree(a) EXCEPT !.torn = TRUE] \in Trees BY <3>2 DEF Trees
    <3>4. ASSUME NEW m \in {"torn", "whole"} PROVE [Tree(a) EXCEPT !.manifest = m] \in Trees
      BY <3>2 DEF Trees
    <3>5. CASE WriteAsset(a)
      <4>1. CASE Goto(a, "assetWrite", "asset")
        <5>1. Tree(a).assets + 1 \in 0..NAssets
          BY <3>2, <4>1, Markers DEF Grown, Goto, Trees
        <5>2. [by |-> a, assets |-> Tree(a).assets + 1, torn |-> FALSE, manifest |-> "none"] \in Trees
          BY <5>1 DEF Trees
        <5> QED BY <3>2, <3>5, <5>2 DEF WriteAsset, Written, Untouched
      <4> QED BY <3>5, <4>1 DEF WriteAsset, Untouched
    <3>6. CASE CreateAsset(a) BY <3>2, <3>3, <3>6 DEF CreateAsset, Written, Untouched
    <3>7. CASE CreateManifest(a) BY <3>2, <3>4, <3>7 DEF CreateManifest, Written, Untouched
    <3>8. CASE WriteManifest(a) BY <3>2, <3>4, <3>8 DEF WriteManifest, Written, Untouched
    <3> QED BY <2>7, <3>5, <3>6, <3>7, <3>8
  <2> QED BY <1>3, <2>1, <2>2, <2>3, <2>4, <2>5, <2>6, <2>7 DEF Ask, Scan, PublishAnswer
<1> QED BY <1>1, <1>2, <1>3 DEF Next

\* A formal path is written once, by whomever.
THEOREM TargetsFinal == Spec => TargetsAreFinal
<1>1. IInv /\ [Next]_vars =>
        [\A id \in Ids : target[id] # None => target'[id] = target[id]]_vars
  <2> SUFFICES ASSUME IInv, [Next]_vars, NEW id \in Ids, target[id] # None
               PROVE  target'[id] = target[id]
    OBVIOUS
  <2>1. CASE Untouched \/ Written BY <2>1 DEF Untouched, Written
  <2>2. CASE Planted \/ Moved
    <3>1. PICK e \in Ids : target[e] = None /\ \E x : target' = [target EXCEPT ![e] = x]
      BY <2>2 DEF Planted, Moved
    <3>2. e # id BY <3>1
    <3> QED BY <3>1, <3>2 DEF IInv, TypeOK
  <2> QED BY <2>1, <2>2, FileSteps
<1> QED BY <1>1, Invariant, PTL DEF Spec, TargetsAreFinal

\* A staged tree leaves the staging directory only for its formal path.
THEOREM StagedWork == Spec => StagedWorkIsKept
<1>1. IInv /\ [Next]_vars =>
        [\A id \in Ids : staging[id] # None /\ staging'[id] = None =>
           target[id] = None /\ target'[id] = staging[id]]_vars
  <2> SUFFICES ASSUME IInv, [Next]_vars, NEW id \in Ids,
                      staging[id] # None, staging'[id] = None
               PROVE  target[id] = None /\ target'[id] = staging[id]
    OBVIOUS
  <2>0. staging \in [Ids -> Trees \union {None}]
        /\ target \in [Ids -> Trees \union {None, Foreign}]
    BY DEF IInv, TypeOK
  <2>1. ~(Untouched \/ Planted) BY DEF Untouched, Planted
  <2>2. ~Written
    <3> SUFFICES ASSUME NEW a \in Asks, NEW t \in Trees, mine[a] \in Ids, WriteTree(a, t)
                 PROVE  FALSE
      BY DEF Written
    <3> QED BY <2>0, Markers DEF WriteTree
  <2>3. PICK e \in Ids : /\ target[e] = None
                         /\ target' = [target EXCEPT ![e] = staging[e]]
                         /\ staging' = [staging EXCEPT ![e] = None]
    BY <2>1, <2>2, FileSteps DEF Moved
  <2>4. e = id BY <2>0, <2>3
  <2> QED BY <2>0, <2>3, <2>4
<1> QED BY <1>1, Invariant, PTL DEF Spec, StagedWorkIsKept

Receipt(a) == IF pc[a] = "end" /\ report[a] = "committed" THEN mine[a] ELSE None

\* Only the owner that closes presents a receipt.
LEMMA ReceiptSteps ==
  ASSUME IInv, [Next]_vars
  PROVE  \/ \A b \in Asks : Receipt(b)' = Receipt(b)
         \/ \E a \in Asks : Release(a) /\ report'[a] = report[a] /\ report[a] = "committed"
<1> USE DEF Receipt
<1>1. CASE UNCHANGED vars BY <1>1 DEF vars, local
<1>2. CASE \E id \in Ids : Plant(id) BY <1>2 DEF Plant, local
<1>3. ASSUME NEW a \in Asks, pc[a] # "end", pc'[a] # "end" \/ report'[a] # "committed",
             \A b \in Asks \ {a} : pc'[b] = pc[b] /\ report'[b] = report[b] /\ mine'[b] = mine[b]
      PROVE  \A b \in Asks : Receipt(b)' = Receipt(b)
  BY <1>3
<1>4. ASSUME NEW a \in Asks, Ask(a) \/ Crash(a)
      PROVE  \/ \A b \in Asks : Receipt(b)' = Receipt(b)
             \/ Release(a) /\ report'[a] = report[a] /\ report[a] = "committed"
  <2>0. pc \in [Asks -> Pcs] /\ report \in [Asks -> Reports] /\ mine \in [Asks -> Ids \union {None}]
    BY DEF IInv, TypeOK
  <2>1. CASE Acquire(a)
    BY <1>3, <2>0, <2>1 DEF Acquire, IInv, CommitIsKnown, Committed, IdsAreOwn
  <2>2. CASE Release(a)
    <3>1. CASE UNCHANGED report
      <4>1. CASE report[a] = "committed" BY <2>2, <3>1, <4>1
      <4>2. CASE report[a] # "committed" BY <1>3, <2>0, <2>2, <3>1, <4>2 DEF Release, Goto
      <4> QED BY <4>1, <4>2
    <3>2. CASE report' = [report EXCEPT ![a] = "raised"]
      BY <1>3, <2>0, <2>2, <3>2 DEF Release, Goto
    <3> QED BY <2>2, <3>1, <3>2 DEF Release
  <2>3. CASE Crash(a)
    BY <1>3, <2>0, <2>3 DEF Crash, HeldPcs, ScanPcs, PublishPcs
  <2>4. ASSUME NEW from, NEW to, NEW r, pc[a] = from, from # "end", to # "end",
               pc' = [pc EXCEPT ![a] = to],
               report' = report \/ report' = [report EXCEPT ![a] = r], mine' = mine
        PROVE  \A b \in Asks : Receipt(b)' = Receipt(b)
    BY <1>3, <2>0, <2>4
  <2>5. CASE Enumerate(a) \/ ScanReturn(a) \/ OrphanCheckpoint(a) \/ OrphanState(a) \/ OrphanDone(a)
    BY <2>4, <2>5 DEF Enumerate, ScanReturn, OrphanCheckpoint, OrphanState, OrphanDone,
       Report, Goto
  <2>6. CASE Inspect(a)
    <3>1. pc[a] = "classify" /\ mine' = mine BY <2>6 DEF Inspect, Report, Goto
    <3>2. CASE UNCHANGED <<pc, report>> BY <3>1, <3>2
    <3>3. CASE ~UNCHANGED <<pc, report>> BY <2>4, <2>6, <3>3 DEF Inspect, Report, Goto
    <3> QED BY <3>2, <3>3
  <2>7. CASE OrphanRename(a) \/ Publish(a)
    BY <2>4, <2>7 DEF OrphanRename, Publish, Rename, Goto
  <2>8. CASE CutOver(a)
    <3>1. CASE Goto(a, "cutover", "publish") /\ UNCHANGED report
      <4>1. \A b \in Asks \ {a} : mine'[b] = mine[b] BY <2>0, <2>8 DEF CutOver
      <4> QED BY <1>3, <2>0, <3>1, <4>1 DEF Goto
    <3>2. CASE ~(Goto(a, "cutover", "publish") /\ UNCHANGED report)
      BY <2>4, <2>8, <3>2 DEF CutOver, Report, Goto
    <3> QED BY <3>1, <3>2
  <2>9. CASE Begin(a) \/ Mkdir(a) \/ CreateAsset(a) \/ WriteAsset(a)
    BY <2>4, <2>9 DEF Begin, Mkdir, CreateAsset, WriteAsset, Report, Goto
  <2>10. CASE CreateManifest(a) \/ WriteManifest(a) \/ Readback(a) \/ FinalCheck(a)
    BY <2>4, <2>10 DEF CreateManifest, WriteManifest, Readback, FinalCheck, Report, Goto
  <2>11. CASE CommitState(a) \/ CommitDone(a)
    BY <2>4, <2>11 DEF CommitState, CommitDone, Report, Goto
  <2> QED BY <1>4, <2>1, <2>2, <2>3, <2>5, <2>6, <2>7, <2>8, <2>9, <2>10, <2>11
       DEF Ask, Scan, PublishAnswer
<1> QED BY <1>1, <1>2, <1>4 DEF Next

Answers == [id \in Ids |-> WriterOf(target[id])]
Receipts == [a \in Asks |-> IF pc[a] = "end" /\ report[a] = "committed" THEN mine[a] ELSE None]

\* The terminal implements the store: an Answer takes its ID in one step, by a
\* rename, and its receipt is presented when the owner closes.
THEOREM Refinement == Spec => ImplementsStore
<1>1. Init => Store!StoreInit
  <2> SUFFICES ASSUME Init PROVE Store!StoreInit
    OBVIOUS
  <2>1. \A id \in Ids : WriterOf(target[id]) = None BY DEF Init, WriterOf
  <2>2. \A a \in Asks : pc[a] # "end" BY DEF Init
  <2> QED BY <2>1, <2>2 DEF Store!StoreInit
<1>2. IInv /\ [Next]_vars => [Store!StoreNext]_Store!storeVars
  <2> SUFFICES ASSUME IInv, [Next]_vars
               PROVE  Store!StoreNext \/ (Answers' = Answers /\ Receipts' = Receipts)
    BY DEF Store!storeVars, Answers, Receipts
  <2>0. /\ staging \in [Ids -> Trees \union {None}]
        /\ target \in [Ids -> Trees \union {None, Foreign}]
    BY DEF IInv, TypeOK
  <2>1. \/ \A b \in Asks : Receipt(b)' = Receipt(b)
        \/ \E a \in Asks : Release(a) /\ report'[a] = report[a] /\ report[a] = "committed"
    BY ReceiptSteps
  <2>2. CASE \A b \in Asks : Receipt(b)' = Receipt(b)
    <3>1. Receipts' = Receipts BY <2>2 DEF Receipt, Receipts
    <3>2. CASE Untouched \/ Written
      <4>1. Answers' = Answers BY <3>2 DEF Untouched, Written, Answers
      <4> QED BY <3>1, <4>1
    <3>3. CASE Planted \/ Moved
      <4>1. PICK id \in Ids, t \in Trees \union {Foreign} :
              target[id] = None /\ target' = [target EXCEPT ![id] = t]
        BY <2>0, <3>3 DEF Planted, Moved, Whole
      <4>2. WriterOf(t) \in Asks \union {Foreign} BY Markers DEF WriterOf, Trees
      <4>3. Answers' = [Answers EXCEPT ![id] = WriterOf(t)]
        BY <2>0, <4>1 DEF Answers
      <4>4. Answers[id] = None BY <4>1 DEF Answers, WriterOf
      <4>5. Store!Store(id) BY <3>1, <4>2, <4>3, <4>4 DEF Store!Store, Answers, Receipts
      <4> QED BY <4>5 DEF Store!StoreNext
    <3> QED BY <3>2, <3>3, FileSteps
  <2>3. CASE \E a \in Asks : Release(a) /\ report'[a] = report[a] /\ report[a] = "committed"
    <3>1. PICK a \in Asks : Release(a) /\ report'[a] = report[a] /\ report[a] = "committed"
      BY <2>3
    <3>2. /\ pc[a] = "release" /\ pc' = [pc EXCEPT ![a] = "end"]
          /\ UNCHANGED <<staging, target, mine>>
          /\ \A b \in Asks \ {a} : report'[b] = report[b]
      BY <3>1 DEF Release, Goto, IInv, TypeOK
    <3>3. Committed(a) /\ mine[a] \in Ids
      BY <3>1 DEF IInv, CommitIsKnown, TypeOK, Committed
    <3>4. target[mine[a]].by = a BY <3>3, FormalIsCommitted DEF Committed
    <3>5. Answers[mine[a]] = a BY <3>3, <3>4 DEF Answers, WriterOf, Committed, IsTree
    <3>6. Answers' = Answers BY <3>2 DEF Answers
    <3>7. Receipts' = [Receipts EXCEPT ![a] = mine[a]]
      BY <3>1, <3>2 DEF Receipts, IInv, TypeOK
    <3>8. Receipts[a] = None BY <3>2 DEF Receipts
    <3>9. Store!Present(a)
      BY <3>3, <3>5, <3>6, <3>7, <3>8 DEF Store!Present, Answers, Receipts
    <3> QED BY <3>9 DEF Store!StoreNext
  <2> QED BY <2>1, <2>2, <2>3
<1> QED BY <1>1, <1>2, Invariant, PTL DEF Spec, ImplementsStore, Store!StoreSpec

=============================================================================
