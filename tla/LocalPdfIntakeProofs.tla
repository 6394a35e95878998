------------------------ MODULE LocalPdfIntakeProofs ------------------------
(***************************************************************************)
(* No PDF gets into two Works, for any number of processes, PDFs, names    *)
(* and Works.  Two processes may add the same PDF at the same time, and    *)
(* each decides on a Work from what it read some time ago.  While the PDF  *)
(* is in no Work its reservation makes them decide on the same Work, whose *)
(* mutex only one of them gets; who gets it later reads the Works again.   *)
(***************************************************************************)
EXTENDS LocalPdfIntake, FiniteSetTheorems, TLAPS

\* Where a process holds the mutex of its Work, is about to commit to it, and has.
CommittingPcs == {"staging", "recovering", "publishing", "adding"}
CommittedPcs  == {"naming", "switching", "unreserving"}
LockedPcs     == {"confirming", "projecting", "replacing", "done"}
                   \union CommittingPcs \union CommittedPcs
DecidedPcs    == {"reserved", "confirming"} \union CommittingPcs

\* Who is at work has a request, and a Work once it decided on one.
LocalInv ==
  \A p \in Adders :
    /\ pc[p] # "idle" => request[p] \in Requests
    /\ pc[p] \in {"reserved"} \union LockedPcs => target[p] \in WorkIds

WriterInv == \A p \in Adders : pc[p] \in LockedPcs => writer[target[p]] = p

\* A PDF that is in no Work is reserved to the Work that everybody decided on.
ReservedInv ==
  \A p \in Adders : pc[p] \in DecidedPcs /\ HoldersOf(works, Source(p)) = {} =>
    /\ reservations[Source(p)] \in Reservations
    /\ reservations[Source(p)].work = target[p]

\* The second reading of the Works does not miss a Work of the PDF.
SeenInv ==
  \A p \in Adders : pc[p] = "confirming" =>
    /\ HoldersOf(works, Source(p)) \subseteq HoldersOf(seen[p], Source(p))
    /\ Existing(seen[p]) \subseteq Existing(works)

StagedInv ==
  /\ \A w \in Existing(staged) : \E s \in Sources : staged[w].sources = {s}
  /\ \A p \in Adders :
       /\ pc[p] = "publishing" =>
            target[p] \in Existing(staged) /\ staged[target[p]].sources = {Source(p)}
       /\ pc[p] = "recovering" => target[p] \in Existing(staged)

CommitInv ==
  \A p \in Adders :
    /\ pc[p] \in CommittingPcs \union CommittedPcs =>
         HoldersOf(works, Source(p)) \subseteq {target[p]}
    /\ pc[p] \in CommittedPcs => target[p] \in HoldersOf(works, Source(p))
    /\ pc[p] = "adding" => target[p] \in Existing(works)

OneHolder == \A s \in Sources : \A w, x \in HoldersOf(works, s) : w = x

IInv == TypeOK /\ LocalInv /\ WriterInv /\ ReservedInv /\ SeenInv /\ StagedInv
        /\ CommitInv /\ OneHolder

-----------------------------------------------------------------------------
(* What a step of one process leaves alone.                                *)

\* Everything about the other processes.
OthersStand(p) ==
  \A q \in Adders \ {p} :
    /\ pc'[q] = pc[q] /\ request'[q] = request[q]
    /\ target'[q] = target[q] /\ seen'[q] = seen[q]
    /\ \A w \in WorkIds : writer[w] = q => writer'[w] = q

\* Which Work is whose: as before, or p has put its PDF into its Work.
SourcesStand ==
  /\ Existing(works') = Existing(works)
  /\ \A s \in Sources : HoldersOf(works', s) = HoldersOf(works, s)
SourceAdded(p) ==
  /\ pc[p] \in {"publishing", "adding"}
  /\ pc'[p] \in CommittedPcs
  /\ request'[p] = request[p] /\ target'[p] = target[p]
  /\ Existing(works') = Existing(works) \union {target[p]}
  /\ HoldersOf(works', Source(p)) = HoldersOf(works, Source(p)) \union {target[p]}
  /\ \A s \in Sources \ {Source(p)} : HoldersOf(works', s) = HoldersOf(works, s)

\* A reservation is only changed by who made it or once its PDF is in a Work.
ReservationsStand(p) ==
  \A s \in Sources :
    \/ reservations'[s] = reservations[s]
    \/ reservations[s] = None
    \/ HoldersOf(works, s) # {}

\* What AddAssumption says of the two markers.
LEMMA Markers ==
  /\ None # Torn
  /\ None \notin Adders /\ None \notin WorkIds /\ None \notin Requests
  /\ None \notin WorkStates /\ None \notin Reservations
  /\ Torn \notin WorkStates /\ Torn \notin Reservations
BY AddAssumption

LEMMA TypeFacts ==
  ASSUME TypeOK
  PROVE  /\ works \in Authorities /\ staged \in Authorities /\ catalog \in Authorities
         /\ reservations \in [Sources -> Reservations \union {None, Torn}]
         /\ identity \in Adders \union {None} /\ projector \in Adders \union {None}
         /\ writer \in [WorkIds -> Adders \union {None}]
         /\ DOMAIN pc = Adders
         /\ request \in [Adders -> Requests \union {None}]
         /\ target \in [Adders -> WorkIds \union {None}]
         /\ creates \in [Adders -> BOOLEAN]
         /\ seen \in [Adders -> Authorities]
BY DEF TypeOK

\* A step of p is a step of nobody else.
LEMMA Frame ==
  ASSUME TypeOK, NEW p \in Adders,
         \/ Begin(p) \/ Reserve(p) \/ Acquire(p) \/ Confirm(p)
         \/ Stage(p) \/ Recover(p) \/ Publish(p)
         \/ AddSource(p) \/ WriteIdentity(p) \/ SwitchActive(p)
         \/ Unreserve(p) \/ ReadForCatalog(p) \/ ReplaceCatalog(p)
         \/ Finish(p) \/ Stop(p) \/ Tear(p)
  PROVE  OthersStand(p)
<1> USE TypeFacts, Markers DEF OthersStand, Goto, local, disk, mutexes
<1>1. CASE Begin(p) BY <1>1 DEF Begin
<1>2. CASE Reserve(p) BY <1>2 DEF Reserve
<1>3. CASE Acquire(p) BY <1>3 DEF Acquire
<1>4. CASE Confirm(p) BY <1>4 DEF Confirm, Commit
<1>5. CASE Stage(p) \/ Recover(p) \/ Publish(p) BY <1>5 DEF Stage, Recover, Publish
<1>6. CASE AddSource(p) \/ WriteIdentity(p) \/ SwitchActive(p)
  BY <1>6 DEF AddSource, WriteIdentity, SwitchActive
<1>7. CASE Unreserve(p) BY <1>7 DEF Unreserve
<1>8. CASE ReadForCatalog(p) BY <1>8 DEF ReadForCatalog
<1>9. CASE ReplaceCatalog(p) BY <1>9 DEF ReplaceCatalog
<1>10. CASE Leave(p) BY <1>10 DEF Leave
<1> QED BY <1>1, <1>2, <1>3, <1>4, <1>5, <1>6, <1>7, <1>8, <1>9, <1>10 DEF Finish, Stop, Tear

LEMMA Holders ==
  ASSUME NEW A, NEW w
  PROVE  /\ w \in Existing(A) <=> w \in WorkIds /\ A[w] # None
         /\ \A s : w \in HoldersOf(A, s) <=> w \in WorkIds /\ A[w] # None /\ s \in A[w].sources
BY DEF HoldersOf, Existing

\* A Work that is rewritten with one Source that is perhaps new.
LEMMA WorkRewritten ==
  ASSUME NEW A \in Authorities, NEW B, NEW w \in WorkIds, NEW added \in Sources,
         B[w] \in WorkStates, \A x \in WorkIds : x # w => B[x] = A[x],
         \A s \in Sources : s \in B[w].sources <=> (w \in HoldersOf(A, s) \/ s = added)
  PROVE  /\ Existing(B) = Existing(A) \union {w}
         /\ HoldersOf(B, added) = HoldersOf(A, added) \union {w}
         /\ \A s \in Sources \ {added} : HoldersOf(B, s) = HoldersOf(A, s)
<1>1. B[w] # None BY Markers
<1>2. Existing(B) = Existing(A) \union {w}
  BY <1>1 DEF Existing
<1>3. ASSUME NEW s \in Sources
      PROVE  \A x : x \in HoldersOf(B, s) <=> x \in HoldersOf(A, s) \/ (x = w /\ s = added)
  <2>1. ASSUME NEW x, x # w PROVE x \in HoldersOf(B, s) <=> x \in HoldersOf(A, s)
    BY <2>1 DEF HoldersOf, Existing
  <2>2. w \in HoldersOf(B, s) <=> (w \in HoldersOf(A, s) \/ s = added)
    BY <1>1 DEF HoldersOf, Existing
  <2> QED BY <2>1, <2>2
<1> QED BY <1>2, <1>3

\* _write_source_bundle and the rename of a new Work add the PDF to one Work.
LEMMA SourceAddedStep ==
  ASSUME IInv, NEW p \in Adders, Publish(p) \/ AddSource(p)
  PROVE  SourceAdded(p)
<1> DEFINE w == target[p]
           s == request[p].source
<1>1. pc[p] \in {"publishing", "adding"} /\ request[p] \in Requests /\ w \in WorkIds
  BY DEF Publish, AddSource, IInv, LocalInv, LockedPcs, CommittingPcs
<1>2. s \in Sources BY <1>1 DEF Requests
<1>3. works \in Authorities /\ staged \in Authorities /\ DOMAIN pc = Adders
  BY TypeFacts DEF IInv
<1>4. pc'[p] \in CommittedPcs /\ request' = request /\ target' = target
  BY <1>3 DEF Publish, AddSource, Goto, CommittedPcs, local
<1>5. CASE Publish(p)
  <2>1. w \in Existing(staged) /\ staged[w].sources = {s}
    BY <1>5 DEF IInv, StagedInv, Publish, Source
  <2>2. staged[w] \in WorkStates BY <1>1, <1>3, <2>1, Holders DEF Authorities
  <2>3. works' = [works EXCEPT ![w] = staged[w]] /\ works[w] = None
    BY <1>5 DEF Publish, Work
  <2>4. \A x \in Sources : x \in staged[w].sources <=> (w \in HoldersOf(works, x) \/ x = s)
    BY <2>1, <2>3, Holders
  <2>5. works'[w] = staged[w] /\ \A x \in WorkIds : x # w => works'[x] = works[x]
    BY <1>1, <1>3, <2>3 DEF Authorities
  <2>6. /\ Existing(works') = Existing(works) \union {w}
        /\ HoldersOf(works', s) = HoldersOf(works, s) \union {w}
        /\ \A x \in Sources \ {s} : HoldersOf(works', x) = HoldersOf(works, x)
    BY <1>1, <1>2, <1>3, <2>2, <2>5, <2>4, WorkRewritten
  <2> QED BY <1>1, <1>4, <2>6 DEF SourceAdded, Source
<1>6. CASE AddSource(p)
  <2>1. works[w] \in WorkStates
    BY <1>1, <1>3, <1>6, Holders DEF IInv, CommitInv, AddSource, Authorities
  <2> DEFINE v == [works[w] EXCEPT !.sources = @ \union {s}]
  <2>2. v \in WorkStates /\ v.sources = works[w].sources \union {s}
    BY <1>2, <2>1 DEF WorkStates
  <2>3. works' = [works EXCEPT ![w] = v]
    BY <1>6 DEF AddSource, Work, Source
  <2>4. \A x \in Sources : x \in v.sources <=> (w \in HoldersOf(works, x) \/ x = s)
    BY <1>1, <2>1, <2>2, Markers, Holders
  <2>5. works'[w] = v /\ \A x \in WorkIds : x # w => works'[x] = works[x]
    BY <1>1, <1>3, <2>3 DEF Authorities
  <2> HIDE DEF v
  <2>6. /\ Existing(works') = Existing(works) \union {w}
        /\ HoldersOf(works', s) = HoldersOf(works, s) \union {w}
        /\ \A x \in Sources \ {s} : HoldersOf(works', x) = HoldersOf(works, x)
    BY <1>1, <1>2, <1>3, <2>2, <2>5, <2>4, WorkRewritten
  <2> QED BY <1>1, <1>4, <2>6 DEF SourceAdded, Source
<1> QED BY <1>5, <1>6

\* The identity revision and the active pointer do not touch the Sources.
LEMMA SourcesStandStep ==
  ASSUME IInv, NEW p \in Adders, WriteIdentity(p) \/ SwitchActive(p)
  PROVE  SourcesStand /\ works' \in Authorities
<1> DEFINE w == target[p]
           s == request[p].source
<1>1. pc[p] \in CommittedPcs /\ w \in HoldersOf(works, s) /\ s \in Sources /\ request[p] \in Requests
  BY DEF WriteIdentity, SwitchActive, IInv, CommitInv, CommittedPcs, Source, LocalInv, Requests
<1>2. works \in Authorities /\ w \in WorkIds /\ works[w] \in WorkStates
  BY <1>1, TypeFacts, Holders DEF IInv, Authorities
<1>3. request[p].names \subseteq Names BY <1>1, AddAssumption DEF Requests
<1>4. PICK v \in WorkStates : /\ works' = [works EXCEPT ![w] = v]
                              /\ v.sources = works[w].sources
  <2>1. CASE WriteIdentity(p)
    <3> DEFINE v == [works[w] EXCEPT !.names = @ \union request[p].names]
    <3>1. v \in WorkStates /\ v.sources = works[w].sources
      BY <1>2, <1>3 DEF WorkStates
    <3>2. works' = [works EXCEPT ![w] = v] BY <2>1 DEF WriteIdentity, Work
    <3> QED BY <3>1, <3>2
  <2>2. CASE SwitchActive(p)
    <3> DEFINE v == [works[w] EXCEPT !.active = s]
    <3>1. v \in WorkStates /\ v.sources = works[w].sources
      BY <1>1, <1>2 DEF WorkStates
    <3>2. works' = [works EXCEPT ![w] = v] BY <2>2 DEF SwitchActive, Work, Source
    <3> QED BY <3>1, <3>2
  <2> QED BY <2>1, <2>2
<1>5. \A x \in Sources : x \in v.sources <=> (w \in HoldersOf(works, x) \/ x = s)
  BY <1>1, <1>2, <1>4, Markers, Holders
<1>6. works' \in Authorities /\ works'[w] = v /\ \A x \in WorkIds : x # w => works'[x] = works[x]
  BY <1>2, <1>4 DEF Authorities
<1>7. /\ Existing(works') = Existing(works) \union {w}
      /\ HoldersOf(works', s) = HoldersOf(works, s) \union {w}
      /\ \A x \in Sources \ {s} : HoldersOf(works', x) = HoldersOf(works, x)
  BY <1>1, <1>2, <1>5, <1>6, WorkRewritten
<1>8. w \in Existing(works) BY <1>1, Holders
<1> QED BY <1>1, <1>6, <1>7, <1>8 DEF SourcesStand

\* A reservation goes only after its PDF got into a Work.
LEMMA ReservationsStep ==
  ASSUME IInv, NEW p \in Adders, Reserve(p) \/ Unreserve(p) \/ Tear(p)
  PROVE  ReservationsStand(p)
<1>1. reservations \in [Sources -> Reservations \union {None, Torn}]
  BY TypeFacts DEF IInv
<1>2. CASE Reserve(p) BY <1>1, <1>2 DEF Reserve, ReservationsStand, Reserved
<1>3. CASE Unreserve(p)
  <2>1. HoldersOf(works, Source(p)) # {}
    BY <1>3 DEF Unreserve, IInv, CommitInv, CommittedPcs
  <2> QED BY <1>1, <1>3, <2>1 DEF Unreserve, ReservationsStand
<1>4. CASE Tear(p) BY <1>1, <1>4 DEF Tear, ReservationsStand, Reserved
<1> QED BY <1>2, <1>3, <1>4

-----------------------------------------------------------------------------
(* The processes that do not take the step.                                *)

LEMMA SourceType ==
  ASSUME IInv, NEW p \in Adders, pc[p] # "idle"
  PROVE  Source(p) \in Sources
BY DEF IInv, LocalInv, Requests, Source

\* When two processes are about to add one PDF, it already is in the Work of the
\* first: otherwise both had decided on the reserved Work, and hold its mutex.
LEMMA NoSecondWork ==
  ASSUME IInv, NEW p \in Adders, NEW q \in Adders, p # q, Source(p) = Source(q),
         pc[p] \in {"publishing", "adding"},
         pc[q] \in {"confirming"} \union CommittingPcs \union CommittedPcs
  PROVE  target[p] \in HoldersOf(works, Source(p))
<1>1. HoldersOf(works, Source(p)) \subseteq {target[p]}
  BY DEF IInv, CommitInv, CommittingPcs
<1>2. SUFFICES ASSUME HoldersOf(works, Source(p)) = {} PROVE FALSE
  BY <1>1
<1>3. pc[q] \notin CommittedPcs BY <1>2 DEF IInv, CommitInv
<1>4. pc[p] \in DecidedPcs /\ pc[q] \in DecidedPcs /\ pc[p] \in LockedPcs /\ pc[q] \in LockedPcs
  BY <1>3 DEF DecidedPcs, LockedPcs, CommittingPcs
<1>5. target[p] = target[q] BY <1>2, <1>4 DEF IInv, ReservedInv
<1> QED BY <1>4, <1>5 DEF IInv, WriterInv

\* What a step of p must do to the disk for the others.
DiskStands(p) == (SourcesStand \/ SourceAdded(p)) /\ ReservationsStand(p)

LEMMA OthersKeepLocal ==
  ASSUME IInv, NEW p \in Adders, NEW q \in Adders, q # p, OthersStand(p)
  PROVE  /\ pc'[q] # "idle" => request'[q] \in Requests
         /\ pc'[q] \in {"reserved"} \union LockedPcs => target'[q] \in WorkIds
         /\ pc'[q] \in LockedPcs => writer'[target'[q]] = q
BY DEF IInv, LocalInv, WriterInv, OthersStand

LEMMA OthersKeepReserved ==
  ASSUME IInv, NEW p \in Adders, NEW q \in Adders, q # p, OthersStand(p), DiskStands(p),
         pc'[q] \in DecidedPcs, HoldersOf(works', Source(q)') = {}
  PROVE  /\ reservations'[Source(q)'] \in Reservations
         /\ reservations'[Source(q)'].work = target'[q]
<1>1. pc[q] \in DecidedPcs /\ Source(q)' = Source(q) /\ target'[q] = target[q]
  BY DEF OthersStand, Source
<1>2. Source(q) \in Sources
  BY <1>1, SourceType DEF DecidedPcs, CommittingPcs
<1>3. HoldersOf(works, Source(q)) = {}
  BY <1>1, <1>2 DEF DiskStands, SourcesStand, SourceAdded
<1>4. reservations[Source(q)] \in Reservations /\ reservations[Source(q)].work = target[q]
  BY <1>1, <1>3 DEF IInv, ReservedInv
<1>5. reservations'[Source(q)] = reservations[Source(q)]
  BY <1>2, <1>3, <1>4, Markers DEF DiskStands, ReservationsStand
<1> QED BY <1>1, <1>4, <1>5

LEMMA OthersKeepHolders ==
  ASSUME IInv, NEW p \in Adders, NEW q \in Adders, q # p, OthersStand(p), DiskStands(p),
         pc[q] \in {"confirming"} \union CommittingPcs \union CommittedPcs
  PROVE  HoldersOf(works', Source(q)') = HoldersOf(works, Source(q))
<1>1. Source(q)' = Source(q) BY DEF OthersStand, Source
<1>2. Source(q) \in Sources
  BY SourceType DEF CommittingPcs, CommittedPcs
<1>3. CASE SourcesStand BY <1>1, <1>2, <1>3 DEF SourcesStand
<1>4. CASE SourceAdded(p) /\ Source(p) = Source(q)
  BY <1>1, <1>4, NoSecondWork DEF SourceAdded
<1>5. CASE SourceAdded(p) /\ Source(p) # Source(q)
  BY <1>1, <1>2, <1>5 DEF SourceAdded
<1> QED BY <1>3, <1>4, <1>5 DEF DiskStands

LEMMA OthersKeepSeen ==
  ASSUME IInv, NEW p \in Adders, NEW q \in Adders, q # p, OthersStand(p), DiskStands(p),
         pc'[q] = "confirming"
  PROVE  /\ HoldersOf(works', Source(q)') \subseteq HoldersOf(seen'[q], Source(q)')
         /\ Existing(seen'[q]) \subseteq Existing(works')
<1>1. pc[q] = "confirming" /\ seen'[q] = seen[q] /\ Source(q)' = Source(q)
  BY DEF OthersStand, Source
<1>2. HoldersOf(works', Source(q)') = HoldersOf(works, Source(q))
  BY <1>1, OthersKeepHolders
<1>3. Existing(works) \subseteq Existing(works')
  BY DEF DiskStands, SourcesStand, SourceAdded
<1> QED BY <1>1, <1>2, <1>3 DEF IInv, SeenInv

LEMMA OthersKeepCommit ==
  ASSUME IInv, NEW p \in Adders, NEW q \in Adders, q # p, OthersStand(p), DiskStands(p)
  PROVE  /\ pc'[q] \in CommittingPcs \union CommittedPcs =>
              HoldersOf(works', Source(q)') \subseteq {target'[q]}
         /\ pc'[q] \in CommittedPcs => target'[q] \in HoldersOf(works', Source(q)')
         /\ pc'[q] = "adding" => target'[q] \in Existing(works')
<1>1. pc'[q] = pc[q] /\ target'[q] = target[q]
  BY DEF OthersStand
<1>2. Existing(works) \subseteq Existing(works')
  BY DEF DiskStands, SourcesStand, SourceAdded
<1>3. SUFFICES ASSUME pc[q] \in CommittingPcs \union CommittedPcs
               PROVE  /\ HoldersOf(works', Source(q)') \subseteq {target'[q]}
                      /\ pc'[q] \in CommittedPcs => target'[q] \in HoldersOf(works', Source(q)')
                      /\ pc'[q] = "adding" => target'[q] \in Existing(works')
  BY <1>1 DEF CommittingPcs
<1>4. HoldersOf(works', Source(q)') = HoldersOf(works, Source(q))
  BY <1>3, OthersKeepHolders
<1> QED BY <1>1, <1>2, <1>3, <1>4 DEF IInv, CommitInv

\* A PDF that p adds to its Work is in no other.
LEMMA OneHolderKept ==
  ASSUME IInv, NEW p \in Adders, SourcesStand \/ SourceAdded(p)
  PROVE  OneHolder'
<1>1. SUFFICES ASSUME NEW s \in Sources
               PROVE  \A w, x \in HoldersOf(works', s) : w = x
  BY DEF OneHolder
<1>2. CASE HoldersOf(works', s) = HoldersOf(works, s)
  BY <1>2 DEF IInv, OneHolder
<1>3. CASE SourceAdded(p) /\ s = Source(p)
  <2>1. HoldersOf(works, s) \subseteq {target[p]}
    BY <1>3 DEF IInv, CommitInv, CommittingPcs, SourceAdded
  <2> QED BY <1>3, <2>1 DEF SourceAdded
<1> QED BY <1>2, <1>3 DEF SourcesStand, SourceAdded

\* Only who holds the mutex of a Work stages it.
LEMMA StagedElsewhere ==
  ASSUME IInv, NEW p \in Adders, pc[p] \in CommittingPcs, OthersStand(p),
         staged' \in Authorities,
         \A w \in WorkIds : w # target[p] => staged'[w] = staged[w],
         target[p] \in Existing(staged') =>
           \E s \in Sources : staged'[target[p]].sources = {s},
         pc'[p] = "publishing" =>
           /\ target'[p] \in Existing(staged')
           /\ staged'[target'[p]].sources = {Source(p)'},
         pc'[p] # "recovering"
  PROVE  StagedInv'
<1>1. ASSUME NEW w \in Existing(staged')
      PROVE  \E s \in Sources : staged'[w].sources = {s}
  <2>1. CASE w = target[p] BY <1>1, <2>1
  <2>2. CASE w # target[p]
    <3>1. w \in Existing(staged) /\ staged'[w] = staged[w]
      BY <1>1, <2>2, Holders
    <3> QED BY <3>1 DEF IInv, StagedInv
  <2> QED BY <2>1, <2>2
<1>2. ASSUME NEW q \in Adders, q # p, pc[q] \in {"publishing", "recovering"}
      PROVE  /\ staged'[target[q]] = staged[target[q]]
             /\ target[q] \in Existing(staged) => target[q] \in Existing(staged')
  <2>1. target[q] \in WorkIds /\ target[q] # target[p]
    BY <1>2 DEF IInv, WriterInv, LocalInv, LockedPcs, CommittingPcs
  <2> QED BY <2>1, Holders
<1>3. ASSUME NEW q \in Adders, q # p
      PROVE  /\ pc'[q] = "publishing" =>
                  /\ target'[q] \in Existing(staged')
                  /\ staged'[target'[q]].sources = {Source(q)'}
             /\ pc'[q] = "recovering" => target'[q] \in Existing(staged')
  <2>1. pc'[q] = pc[q] /\ target'[q] = target[q] /\ Source(q)' = Source(q)
    BY <1>3 DEF OthersStand, Source
  <2> QED BY <1>2, <1>3, <2>1 DEF IInv, StagedInv
<1> QED BY <1>1, <1>3 DEF StagedInv

-----------------------------------------------------------------------------
(* The process that takes the step.                                        *)

\* What the invariant says of one process, but for what is staged.
Own(p) ==
  /\ pc[p] # "idle" => request[p] \in Requests
  /\ pc[p] \in {"reserved"} \union LockedPcs => target[p] \in WorkIds
  /\ pc[p] \in LockedPcs => writer[target[p]] = p
  /\ pc[p] \in DecidedPcs /\ HoldersOf(works, Source(p)) = {} =>
       /\ reservations[Source(p)] \in Reservations
       /\ reservations[Source(p)].work = target[p]
  /\ pc[p] = "confirming" =>
       /\ HoldersOf(works, Source(p)) \subseteq HoldersOf(seen[p], Source(p))
       /\ Existing(seen[p]) \subseteq Existing(works)
  /\ pc[p] \in CommittingPcs \union CommittedPcs =>
       HoldersOf(works, Source(p)) \subseteq {target[p]}
  /\ pc[p] \in CommittedPcs => target[p] \in HoldersOf(works, Source(p))
  /\ pc[p] = "adding" => target[p] \in Existing(works)

LEMMA OwnHolds == ASSUME IInv, NEW p \in Adders PROVE Own(p)
BY DEF IInv, LocalInv, WriterInv, ReservedInv, SeenInv, CommitInv, Own

LEMMA Assemble ==
  ASSUME IInv, NEW p \in Adders, OthersStand(p), DiskStands(p),
         TypeOK', StagedInv', Own(p)'
  PROVE  IInv'
<1>1. \A q \in Adders : q # p => Own(q)'
  BY OthersKeepLocal, OthersKeepReserved, OthersKeepSeen, OthersKeepCommit DEF Own
<1>2. \A q \in Adders : Own(q)' BY <1>1
<1>3. OneHolder' BY OneHolderKept DEF DiskStands
<1> QED
  BY <1>2, <1>3 DEF IInv, LocalInv, WriterInv, ReservedInv, SeenInv, CommitInv, Own

LEMMA PlaceTypes ==
  ASSUME TypeOK, NEW p \in Adders
  PROVE  \A to \in {"idle", "reserving", "reserved", "confirming", "staging",
                    "recovering", "publishing", "adding", "naming", "switching",
                    "unreserving", "projecting", "replacing", "done"} :
           Goto(p, to) =>
             /\ pc'[p] = to
             /\ pc' \in [Adders -> {"idle", "reserving", "reserved", "confirming", "staging",
                        "recovering", "publishing", "adding", "naming", "switching",
                        "unreserving", "projecting", "replacing", "done"}]
BY DEF TypeOK, Goto

LEMMA EmptyType == Empty \in Authorities
BY DEF Empty, Authorities

\* What a step that only moves p does to the disk, and to what is staged.
LEMMA DiskUntouched ==
  ASSUME IInv, NEW p \in Adders, OthersStand(p), UNCHANGED <<works, staged, reservations>>,
         pc'[p] # "publishing",
         pc'[p] = "recovering" => target'[p] \in Existing(staged)
  PROVE  DiskStands(p) /\ StagedInv'
<1>1. DiskStands(p) BY DEF DiskStands, SourcesStand, ReservationsStand
<1>2. ASSUME NEW q \in Adders, q # p
      PROVE pc'[q] = pc[q] /\ target'[q] = target[q] /\ Source(q)' = Source(q)
  BY <1>2 DEF OthersStand, Source
<1>3. \A w \in Existing(staged') : \E s \in Sources : staged'[w].sources = {s}
  BY DEF IInv, StagedInv
<1>4. ASSUME NEW q \in Adders
      PROVE  /\ pc'[q] = "publishing" =>
                  /\ target'[q] \in Existing(staged')
                  /\ staged'[target'[q]].sources = {Source(q)'}
             /\ pc'[q] = "recovering" => target'[q] \in Existing(staged')
  BY <1>2 DEF IInv, StagedInv
<1> QED BY <1>1, <1>3, <1>4 DEF StagedInv

LEMMA BeginStep == ASSUME IInv, NEW p \in Adders, Begin(p) PROVE IInv'
<1>1. OthersStand(p) BY Frame DEF IInv
<1>2. TypeOK /\ pc'[p] = "reserving" BY PlaceTypes DEF IInv, Begin
<1>3. TypeOK' BY <1>2, PlaceTypes DEF Begin, TypeOK, disk
<1>4. Own(p)'
  BY <1>2, TypeFacts DEF Begin, Own, LockedPcs, DecidedPcs, CommittingPcs, CommittedPcs
<1>5. DiskStands(p) /\ StagedInv' BY <1>1, <1>2, DiskUntouched DEF Begin, disk
<1> QED BY <1>1, <1>3, <1>4, <1>5, Assemble

\* A Work that a request may go to.
LEMMA EligibleWork ==
  ASSUME TypeOK, ReservationsReadable, NEW req \in Requests, NEW A,
         NEW proposed \in SUBSET WorkIds, NEW w \in Eligible(req, A, proposed)
  PROVE  /\ w \in WorkIds
         /\ HoldersOf(A, req.source) \subseteq {w}
         /\ ReservedTo(req.source) \subseteq {w}
<1>1. StrongOwners(req, A) \subseteq {w} BY DEF Eligible
<1>2. HoldersOf(A, req.source) \subseteq {w} /\ ReservedTo(req.source) \subseteq {w}
  BY <1>1 DEF StrongOwners
<1>3. \A s \in Reserved : reservations[s] \in Reservations
  BY TypeFacts DEF Reserved, ReservationsReadable
<1>4. StrongOwners(req, A) \subseteq WorkIds
  <2>1. ReservedTo(req.source) \subseteq WorkIds BY <1>3 DEF ReservedTo, Reservations
  <2>2. \A n : ReservedFor(n) \subseteq WorkIds BY <1>3 DEF ReservedFor, Reservations, Reserved
  <2>3. \A n : OwnersOf(A, n) \subseteq WorkIds BY DEF OwnersOf, Existing
  <2>4. HoldersOf(A, req.source) \subseteq WorkIds BY DEF HoldersOf, Existing
  <2> QED BY <2>1, <2>2, <2>3, <2>4 DEF StrongOwners
<1>5. Existing(A) \subseteq WorkIds BY DEF Existing
<1>6. w \in WorkIds
  <2> DEFINE strong == StrongOwners(req, A)
             choice == IF req.work # None THEN {req.work} \intersect Existing(A)
                       ELSE IF strong # {} THEN strong
                       ELSE IF WeakOwners(req, A) = {} THEN proposed ELSE {}
  <2>1. w \in choice BY DEF Eligible
  <2> HIDE DEF strong
  <2>2. choice \subseteq WorkIds
    BY <1>4, <1>5 DEF strong
  <2> QED BY <2>1, <2>2
<1> QED BY <1>2, <1>6

LEMMA ReserveStep == ASSUME IInv, NEW p \in Adders, Reserve(p) PROVE IInv'
<1> DEFINE s == Source(p)
<1>1. OthersStand(p) BY Frame DEF IInv
<1>2. TypeOK /\ pc'[p] = "reserved" BY PlaceTypes DEF IInv, Reserve
<1>3. pc[p] = "reserving" /\ request[p] \in Requests /\ s \in Sources
  BY SourceType DEF Reserve, IInv, LocalInv
<1>4. PICK w \in Eligible(request[p], seen[p], {x \in WorkIds : Unused(x)}) :
        /\ target' = [target EXCEPT ![p] = w]
        /\ creates' = [creates EXCEPT ![p] = seen[p][w] = None]
        /\ reservations' = IF s \in Reserved THEN reservations
                           ELSE [reservations EXCEPT ![s] =
                                   [work |-> w, names |-> request[p].names]]
  BY DEF Reserve
<1>5. w \in WorkIds /\ ReservedTo(s) \subseteq {w}
  BY <1>2, <1>3, <1>4, EligibleWork DEF Reserve, Source
<1>6. [work |-> w, names |-> request[p].names] \in Reservations
  BY <1>3, <1>5, AddAssumption DEF Requests, Reservations
<1>7. /\ reservations' \in [Sources -> Reservations \union {None, Torn}]
      /\ reservations'[s] \in Reservations /\ reservations'[s].work = w
  <2>1. reservations \in [Sources -> Reservations \union {None, Torn}]
    BY <1>2, TypeFacts
  <2>2. CASE s \in Reserved
    <3>1. reservations[s] \in Reservations
      BY <1>3, <2>1, <2>2 DEF Reserve, Reserved, ReservationsReadable
    <3>2. reservations[s].work \in ReservedTo(s) BY <2>2 DEF ReservedTo
    <3> QED BY <1>4, <1>5, <2>1, <2>2, <3>1, <3>2
  <2>3. CASE s \notin Reserved
    BY <1>3, <1>4, <1>6, <2>1, <2>3
  <2> QED BY <2>2, <2>3
<1>8. TypeOK'
  <2>1. target' \in [Adders -> WorkIds \union {None}] /\ creates' \in [Adders -> BOOLEAN]
    BY <1>2, <1>4, <1>5, TypeFacts
  <2>2. seen' \in [Adders -> Authorities]
    BY <1>2, TypeFacts, EmptyType DEF Reserve
  <2> QED BY <1>2, <1>7, <2>1, <2>2, PlaceTypes DEF Reserve, TypeOK
<1>9. target'[p] = w /\ Source(p)' = s
  BY <1>2, <1>4, TypeFacts DEF Reserve, Source
<1>10. Own(p)'
  BY <1>2, <1>3, <1>5, <1>7, <1>9
  DEF Reserve, Own, LockedPcs, DecidedPcs, CommittingPcs, CommittedPcs
<1>11. DiskStands(p)
  BY ReservationsStep DEF DiskStands, SourcesStand, Reserve
<1>12. StagedInv'
  <2>1. UNCHANGED staged BY DEF Reserve
  <2> QED BY <1>1, <1>2, <2>1 DEF IInv, StagedInv, OthersStand, Source
<1> QED BY <1>1, <1>8, <1>10, <1>11, <1>12, Assemble

LEMMA AcquireStep == ASSUME IInv, NEW p \in Adders, Acquire(p) PROVE IInv'
<1>1. OthersStand(p) BY Frame DEF IInv
<1>2. TypeOK /\ pc'[p] = "confirming" BY PlaceTypes DEF IInv, Acquire
<1>3. pc[p] = "reserved" /\ target[p] \in WorkIds /\ Own(p)
  BY OwnHolds DEF Acquire, IInv, LocalInv
<1>4. TypeOK' BY <1>2, <1>3, PlaceTypes DEF Acquire, TypeOK, disk, Work
<1>5. /\ seen'[p] = works /\ writer'[target[p]] = p /\ Source(p)' = Source(p)
      /\ UNCHANGED <<works, reservations, request, target>>
  BY <1>2, <1>3, TypeFacts DEF Acquire, Work, disk, Source
<1>6. Own(p)'
  BY <1>2, <1>3, <1>5 DEF Own, LockedPcs, DecidedPcs, CommittingPcs, CommittedPcs
<1>7. DiskStands(p) /\ StagedInv' BY <1>1, <1>2, DiskUntouched DEF Acquire, disk
<1> QED BY <1>1, <1>4, <1>6, <1>7, Assemble

LEMMA ConfirmStep == ASSUME IInv, NEW p \in Adders, Confirm(p) PROVE IInv'
<1> DEFINE w == target[p]
           s == Source(p)
<1>1. OthersStand(p) BY Frame DEF IInv
<1>2. TypeOK /\ pc[p] = "confirming" /\ request[p] \in Requests /\ w \in WorkIds /\ Own(p)
  BY OwnHolds DEF IInv, Confirm, LocalInv, LockedPcs
<1>3. HoldersOf(works, s) \subseteq {w}
  <2>1. w \in Eligible(request[p], seen[p], IF creates[p] THEN {w} ELSE {})
    BY DEF Confirm, Work
  <2>2. (IF creates[p] THEN {w} ELSE {}) \in SUBSET WorkIds BY <1>2
  <2>3. HoldersOf(seen[p], s) \subseteq {w}
    BY <1>2, <2>1, <2>2, EligibleWork DEF Confirm, Source
  <2> QED BY <1>2, <2>3 DEF Own
<1>4. ~creates[p] => w \in Existing(works)
  BY <1>2, Holders DEF Own, Confirm, Work
<1>5. \/ Goto(p, "naming") /\ w \in HoldersOf(works, s)
      \/ Goto(p, "adding") /\ w \in Existing(works)
      \/ Goto(p, "staging")
      \/ Goto(p, "recovering") /\ w \in Existing(staged)
  <2>1. CASE ~creates[p] /\ s \in works[w].sources
    <3>1. Goto(p, "naming") BY <2>1 DEF Confirm, Commit, Work, Source
    <3> QED BY <1>4, <2>1, <3>1, Holders
  <2>2. CASE ~creates[p] /\ s \notin works[w].sources
    <3>1. Goto(p, "adding") BY <2>2 DEF Confirm, Commit, Work, Source
    <3> QED BY <1>4, <2>2, <3>1
  <2>3. CASE creates[p] /\ staged[w] = None
    BY <2>3 DEF Confirm, Commit, Work
  <2>4. CASE creates[p] /\ staged[w] # None
    <3>1. Goto(p, "recovering") BY <2>4 DEF Confirm, Commit, Work
    <3> QED BY <1>2, <2>4, <3>1, Holders
  <2> QED BY <1>2, <2>1, <2>2, <2>3, <2>4, TypeFacts
<1>6. /\ pc'[p] \in {"naming", "adding", "staging", "recovering"}
      /\ pc'[p] = "naming" => w \in HoldersOf(works, s)
      /\ pc'[p] = "adding" => w \in Existing(works)
      /\ pc'[p] = "recovering" => w \in Existing(staged)
  BY <1>2, <1>5, PlaceTypes
<1>7. TypeOK'
  <2>1. seen' \in [Adders -> Authorities]
    BY <1>2, TypeFacts, EmptyType DEF Confirm
  <2> QED BY <1>2, <1>5, <2>1, PlaceTypes DEF Confirm, TypeOK, disk, mutexes
<1>8. /\ Source(p)' = s
      /\ UNCHANGED <<works, staged, reservations, writer, request, target>>
  BY DEF Confirm, disk, mutexes, Source
<1>9. Own(p)'
  BY <1>2, <1>3, <1>6, <1>8 DEF Own, LockedPcs, DecidedPcs, CommittingPcs, CommittedPcs
<1>10. DiskStands(p) /\ StagedInv' BY <1>1, <1>6, <1>8, DiskUntouched
<1> QED BY <1>1, <1>7, <1>9, <1>10, Assemble

LEMMA StageStep == ASSUME IInv, NEW p \in Adders, Stage(p) \/ Recover(p) PROVE IInv'
<1> DEFINE w == target[p]
           s == Source(p)
<1>1. OthersStand(p) BY Frame DEF IInv
<1>2. /\ TypeOK /\ pc[p] \in {"staging", "recovering"} /\ pc'[p] = "publishing"
      /\ request[p] \in Requests /\ w \in WorkIds /\ s \in Sources /\ Own(p)
  BY OwnHolds, PlaceTypes, SourceType
  DEF IInv, Stage, Recover, LocalInv, LockedPcs, CommittingPcs
<1>3. request[p].names \subseteq Names /\ staged \in Authorities
  BY <1>2, AddAssumption, TypeFacts DEF Requests
<1>4. PICK v \in WorkStates : v.sources = {s} /\ staged' = [staged EXCEPT ![w] = v]
  <2>1. CASE Stage(p)
    <3>1. [sources |-> {s}, names |-> request[p].names, active |-> s] \in WorkStates
      BY <1>2, <1>3 DEF WorkStates
    <3> QED BY <2>1, <3>1 DEF Stage, Work
  <2>2. CASE Recover(p)
    <3>1. w \in Existing(staged) /\ s \in staged[w].sources
      BY <2>2 DEF Recover, Work, IInv, StagedInv
    <3>2. staged[w] \in WorkStates /\ staged[w].sources = {s}
      BY <1>2, <1>3, <3>1, Holders DEF IInv, StagedInv, Authorities
    <3> DEFINE v == [staged[w] EXCEPT !.names = @ \union request[p].names]
    <3>3. v \in WorkStates /\ v.sources = {s} BY <1>3, <3>2 DEF WorkStates
    <3>4. staged' = [staged EXCEPT ![w] = v] BY <2>2 DEF Recover, Work
    <3> QED BY <3>3, <3>4
  <2> QED BY <2>1, <2>2
<1>5. /\ staged' \in Authorities /\ staged'[w] = v
      /\ \A x \in WorkIds : x # w => staged'[x] = staged[x]
  BY <1>2, <1>3, <1>4 DEF Authorities
<1>6. UNCHANGED <<works, reservations, catalog, mutexes, local>>
  BY DEF Stage, Recover
<1>7. TypeOK'
  BY <1>2, <1>5, <1>6, PlaceTypes DEF Stage, Recover, TypeOK, mutexes, local
<1>8. Own(p)'
  BY <1>2, <1>6
  DEF Own, Source, mutexes, local, LockedPcs, DecidedPcs, CommittingPcs, CommittedPcs
<1>9. DiskStands(p) BY <1>6 DEF DiskStands, SourcesStand, ReservationsStand
<1>10. StagedInv'
  <2>1. target'[p] = w /\ Source(p)' = s BY <1>6 DEF local, Source
  <2>2. w \in Existing(staged') BY <1>2, <1>5, Markers DEF Existing
  <2> QED BY <1>1, <1>2, <1>4, <1>5, <2>1, <2>2, StagedElsewhere DEF CommittingPcs
<1> QED BY <1>1, <1>7, <1>8, <1>9, <1>10, Assemble

\* p puts its PDF into its Work, or rewrites the Work it has put it into.
LEMMA CommitOwn ==
  ASSUME IInv, NEW p \in Adders, SourcesStand \/ SourceAdded(p),
         pc[p] \in {"publishing", "adding"} \union CommittedPcs, pc'[p] \in CommittedPcs,
         SourceAdded(p) \/ pc[p] \in CommittedPcs,
         UNCHANGED <<request, target, writer>>
  PROVE  Own(p)'
<1>1. /\ pc[p] \in CommittingPcs \union CommittedPcs /\ pc[p] \in LockedPcs
      /\ pc'[p] \in LockedPcs /\ pc'[p] # "idle" /\ pc[p] # "idle"
      /\ pc'[p] \notin DecidedPcs /\ pc'[p] \notin {"confirming", "adding"}
  BY DEF CommittingPcs, CommittedPcs, LockedPcs, DecidedPcs
<1>2. Own(p) /\ Source(p)' = Source(p) /\ Source(p) \in Sources
  BY <1>1, OwnHolds, SourceType DEF Source
<1>3. /\ HoldersOf(works', Source(p)) \subseteq {target[p]}
      /\ target[p] \in HoldersOf(works', Source(p))
  BY <1>1, <1>2 DEF Own, SourcesStand, SourceAdded
<1> QED BY <1>1, <1>2, <1>3 DEF Own

LEMMA PublishStep == ASSUME IInv, NEW p \in Adders, Publish(p) PROVE IInv'
<1> DEFINE w == target[p]
<1>1. OthersStand(p) /\ SourceAdded(p) BY Frame, SourceAddedStep DEF IInv
<1>2. TypeOK /\ pc[p] = "publishing" /\ pc'[p] = "unreserving" /\ w \in WorkIds
  BY PlaceTypes DEF IInv, Publish, LocalInv, LockedPcs, CommittingPcs
<1>3. works \in Authorities /\ staged \in Authorities BY <1>2, TypeFacts
<1>4. works' \in Authorities /\ staged' \in Authorities /\ staged'[w] = None
      /\ \A x \in WorkIds : x # w => staged'[x] = staged[x]
  BY <1>2, <1>3 DEF Publish, Work, Authorities
<1>5. UNCHANGED <<reservations, catalog, mutexes, local>> BY DEF Publish
<1>6. TypeOK' BY <1>2, <1>4, <1>5, PlaceTypes DEF Publish, TypeOK, mutexes, local
<1>7. Own(p)'
  BY <1>1, <1>2, <1>5, CommitOwn DEF CommittedPcs, mutexes, local
<1>8. DiskStands(p) BY <1>1, <1>5 DEF DiskStands, ReservationsStand
<1>9. StagedInv'
  BY <1>1, <1>2, <1>4, Holders, StagedElsewhere DEF CommittingPcs
<1> QED BY <1>1, <1>6, <1>7, <1>8, <1>9, Assemble

LEMMA RewriteStep ==
  ASSUME IInv, NEW p \in Adders, AddSource(p) \/ WriteIdentity(p) \/ SwitchActive(p)
  PROVE  IInv'
<1>1. OthersStand(p) BY Frame DEF IInv
<1>2. /\ TypeOK /\ pc[p] \in {"adding", "naming", "switching"}
      /\ pc'[p] \in {"naming", "switching", "unreserving"}
      /\ pc[p] \in CommittedPcs \/ AddSource(p)
  BY PlaceTypes DEF IInv, AddSource, WriteIdentity, SwitchActive, CommittedPcs
<1>3. (SourcesStand /\ pc[p] \in CommittedPcs) \/ SourceAdded(p)
  BY <1>2, SourceAddedStep, SourcesStandStep
<1>4. works' \in Authorities
  <2>1. CASE AddSource(p)
    <3> DEFINE w == target[p]
               v == [works[w] EXCEPT !.sources = @ \union {Source(p)}]
    <3>1. works \in Authorities /\ w \in Existing(works) /\ Source(p) \in Sources
      BY <1>2, <2>1, SourceType, TypeFacts DEF AddSource, IInv, CommitInv
    <3>2. w \in WorkIds /\ works[w] \in WorkStates BY <3>1, Holders DEF Authorities
    <3>3. v \in WorkStates BY <3>1, <3>2 DEF WorkStates
    <3>4. works' = [works EXCEPT ![w] = v] BY <2>1 DEF AddSource, Work
    <3> HIDE DEF v
    <3> QED BY <3>1, <3>2, <3>3, <3>4 DEF Authorities
  <2> QED BY <2>1, SourcesStandStep
<1>5. UNCHANGED <<staged, reservations, catalog, mutexes, local>>
  BY DEF AddSource, WriteIdentity, SwitchActive
<1>6. TypeOK'
  BY <1>2, <1>4, <1>5, PlaceTypes
  DEF AddSource, WriteIdentity, SwitchActive, TypeOK, mutexes, local
<1>7. Own(p)'
  BY <1>2, <1>3, <1>5, CommitOwn DEF CommittedPcs, mutexes, local
<1>8. DiskStands(p) BY <1>3, <1>5 DEF DiskStands, ReservationsStand
<1>9. StagedInv'
  BY <1>1, <1>2, <1>5 DEF IInv, StagedInv, OthersStand, Source, local
<1> QED BY <1>1, <1>6, <1>7, <1>8, <1>9, Assemble

\* Once the PDF is in its Work, all that p still needs is the mutex of the Work.
LEMMA LastOwn ==
  ASSUME IInv, NEW p \in Adders, pc[p] \in LockedPcs,
         pc'[p] \in {"projecting", "replacing", "done"},
         UNCHANGED <<request, target, writer>>
  PROVE  Own(p)'
<1>1. /\ pc[p] # "idle"
      /\ pc'[p] \notin {"reserved", "confirming", "adding"}
      /\ pc'[p] \notin DecidedPcs \union CommittingPcs \union CommittedPcs
  BY DEF LockedPcs, DecidedPcs, CommittingPcs, CommittedPcs
<1> QED BY <1>1, OwnHolds DEF Own

LEMMA UnreserveStep == ASSUME IInv, NEW p \in Adders, Unreserve(p) PROVE IInv'
<1>1. OthersStand(p) /\ ReservationsStand(p) BY Frame, ReservationsStep DEF IInv
<1>2. TypeOK /\ pc[p] = "unreserving" /\ pc'[p] = "projecting" /\ pc[p] \in LockedPcs
  BY PlaceTypes DEF IInv, Unreserve, LockedPcs, CommittedPcs
<1>3. UNCHANGED <<works, staged, catalog, mutexes, local>> BY DEF Unreserve
<1>4. reservations' \in [Sources -> Reservations \union {None, Torn}]
  BY <1>2, TypeFacts DEF Unreserve
<1>5. TypeOK' BY <1>2, <1>3, <1>4, PlaceTypes DEF Unreserve, TypeOK, mutexes, local
<1>6. Own(p)' BY <1>2, <1>3, LastOwn DEF mutexes, local
<1>7. DiskStands(p) BY <1>1, <1>3 DEF DiskStands, SourcesStand
<1>8. StagedInv'
  BY <1>1, <1>2, <1>3 DEF IInv, StagedInv, OthersStand, Source, local
<1> QED BY <1>1, <1>5, <1>6, <1>7, <1>8, Assemble

LEMMA CatalogStep ==
  ASSUME IInv, NEW p \in Adders, ReadForCatalog(p) \/ ReplaceCatalog(p)
  PROVE  IInv'
<1>1. OthersStand(p) BY Frame DEF IInv
<1>2. TypeOK /\ pc[p] \in LockedPcs /\ pc'[p] \in {"replacing", "done"}
  BY PlaceTypes DEF IInv, ReadForCatalog, ReplaceCatalog, LockedPcs
<1>3. UNCHANGED <<works, staged, reservations, identity, writer, request, target, creates>>
  BY DEF ReadForCatalog, ReplaceCatalog, disk
<1>4. /\ catalog' \in Authorities /\ seen' \in [Adders -> Authorities]
      /\ projector' \in Adders \union {None}
  BY <1>2, TypeFacts, EmptyType DEF ReadForCatalog, ReplaceCatalog, disk
<1>5. TypeOK'
  BY <1>2, <1>3, <1>4, PlaceTypes DEF ReadForCatalog, ReplaceCatalog, TypeOK
<1>6. Own(p)' BY <1>2, <1>3, LastOwn
<1>7. DiskStands(p) /\ StagedInv' BY <1>1, <1>2, <1>3, DiskUntouched
<1> QED BY <1>1, <1>5, <1>6, <1>7, Assemble

LEMMA LeaveStep ==
  ASSUME IInv, NEW p \in Adders, Finish(p) \/ Stop(p) \/ Tear(p)
  PROVE  IInv'
<1>1. OthersStand(p) /\ Leave(p) BY Frame DEF IInv, Finish, Stop, Tear
<1>2. TypeOK /\ pc'[p] = "idle" BY <1>1, PlaceTypes DEF IInv, Leave
<1>3. UNCHANGED <<works, staged, catalog>> BY DEF Finish, Stop, Tear, disk
<1>4. reservations' \in [Sources -> Reservations \union {None, Torn}]
  BY <1>2, TypeFacts DEF Finish, Stop, Tear, disk
<1>5. TypeOK'
  <2>1. /\ identity' \in Adders \union {None} /\ projector' \in Adders \union {None}
        /\ writer' \in [WorkIds -> Adders \union {None}]
        /\ request' \in [Adders -> Requests \union {None}]
        /\ target' \in [Adders -> WorkIds \union {None}]
        /\ creates' \in [Adders -> BOOLEAN] /\ seen' \in [Adders -> Authorities]
    BY <1>1, <1>2, TypeFacts, EmptyType DEF Leave
  <2> QED BY <1>1, <1>2, <1>3, <1>4, <2>1, PlaceTypes DEF Leave, TypeOK
<1>6. Own(p)'
  BY <1>2 DEF Own, LockedPcs, DecidedPcs, CommittingPcs, CommittedPcs
<1>7. ReservationsStand(p)
  BY ReservationsStep DEF Finish, Stop, disk, ReservationsStand
<1>8. DiskStands(p) BY <1>3, <1>7 DEF DiskStands, SourcesStand
<1>9. StagedInv'
  BY <1>1, <1>2, <1>3 DEF IInv, StagedInv, OthersStand, Source
<1> QED BY <1>1, <1>5, <1>6, <1>8, <1>9, Assemble

-----------------------------------------------------------------------------
(* The theorems.                                                           *)

LEMMA InitIInv == Init => IInv
<1> SUFFICES ASSUME Init PROVE IInv OBVIOUS
<1>1. TypeOK BY EmptyType DEF Init, TypeOK
<1>2. works = Empty /\ staged = Empty /\ \A p \in Adders : pc[p] = "idle"
  BY DEF Init
<1>3. \A s : HoldersOf(works, s) = {} BY <1>2 DEF HoldersOf, Existing, Empty
<1>4. Existing(staged) = {} BY <1>2 DEF Existing, Empty
<1>5. OneHolder BY <1>3 DEF OneHolder
<1>6. LocalInv /\ WriterInv /\ ReservedInv /\ SeenInv /\ CommitInv
  BY <1>2
  DEF LocalInv, WriterInv, ReservedInv, SeenInv, CommitInv, LockedPcs, DecidedPcs,
      CommittingPcs, CommittedPcs
<1>7. StagedInv BY <1>2, <1>4 DEF StagedInv
<1> QED BY <1>1, <1>5, <1>6, <1>7 DEF IInv

LEMMA StutterStep == ASSUME IInv, UNCHANGED vars PROVE IInv'
BY DEF IInv, TypeOK, LocalInv, WriterInv, ReservedInv, SeenInv, StagedInv, CommitInv,
       OneHolder, Source, vars, disk, mutexes, local, HoldersOf, Existing

LEMMA NextIInv == IInv /\ [Next]_vars => IInv'
<1> SUFFICES ASSUME IInv, [Next]_vars PROVE IInv' OBVIOUS
<1>1. CASE UNCHANGED vars BY <1>1, StutterStep
<1>2. ASSUME NEW p \in Adders,
             \/ Begin(p) \/ Reserve(p) \/ Acquire(p) \/ Confirm(p)
             \/ Stage(p) \/ Recover(p) \/ Publish(p)
             \/ AddSource(p) \/ WriteIdentity(p) \/ SwitchActive(p)
             \/ Unreserve(p) \/ ReadForCatalog(p) \/ ReplaceCatalog(p)
             \/ Finish(p) \/ Stop(p) \/ Tear(p)
      PROVE  IInv'
  BY <1>2, BeginStep, ReserveStep, AcquireStep, ConfirmStep, StageStep, PublishStep,
     RewriteStep, UnreserveStep, CatalogStep, LeaveStep
<1> QED BY <1>1, <1>2 DEF Next

\* The inductive invariant, of which everything below is a part.
THEOREM Invariant == Spec => []IInv
BY InitIInv, NextIInv, PTL DEF Spec

\* The type invariant, for any number of processes, PDFs, names and Works.
THEOREM TypeCorrect == Spec => []TypeOK
<1>1. IInv => TypeOK BY DEF IInv
<1> QED BY <1>1, Invariant, PTL

\* add_local_pdf never makes one PDF the Source of two Works: the second
\* resolution under the Work writer mutex and the reservation are enough, however
\* many processes add it and wherever they stop.
THEOREM OneWork == Spec => []OneWorkPerSource
<1>1. ASSUME IInv, NEW s \in Sources PROVE Cardinality(HoldersOf(works, s)) <= 1
  <2>1. CASE HoldersOf(works, s) = {}
    BY <2>1, FS_EmptySet
  <2>2. CASE HoldersOf(works, s) # {}
    <3>1. PICK w : HoldersOf(works, s) = {w}
      BY <1>1, <2>2 DEF IInv, OneHolder
    <3>2. Cardinality({w}) = 1 BY FS_Singleton
    <3> QED BY <3>1, <3>2
  <2> QED BY <2>1, <2>2
<1>2. IInv => OneWorkPerSource BY <1>1 DEF OneWorkPerSource
<1> QED BY <1>2, Invariant, PTL

\* A Work that keeps all it had.
Kept(w) ==
  /\ works'[w] # None
  /\ works[w].sources \subseteq works'[w].sources
  /\ works[w].names \subseteq works'[w].names

LEMMA RewriteKeeps ==
  ASSUME IInv, NEW p \in Adders, AddSource(p) \/ WriteIdentity(p) \/ SwitchActive(p)
  PROVE  /\ target[p] \in WorkIds /\ works \in Authorities
         /\ \E v \in WorkStates :
              /\ works' = [works EXCEPT ![target[p]] = v]
              /\ works[target[p]].sources \subseteq v.sources
              /\ works[target[p]].names \subseteq v.names
<1> DEFINE w == target[p]
           old == works[w]
<1>1. /\ works \in Authorities /\ request[p] \in Requests /\ Source(p) \in Sources
      /\ w \in Existing(works)
  BY TypeFacts, SourceType, Holders
  DEF IInv, LocalInv, CommitInv, CommittedPcs, AddSource, WriteIdentity, SwitchActive
<1>2. w \in WorkIds /\ old \in WorkStates BY <1>1, Holders DEF Authorities
<1>3. request[p].names \subseteq Names BY <1>1, AddAssumption DEF Requests
<1>4. CASE AddSource(p)
  <2> DEFINE v == [old EXCEPT !.sources = @ \union {Source(p)}]
  <2>1. v \in WorkStates /\ old.sources \subseteq v.sources /\ old.names \subseteq v.names
    BY <1>1, <1>2 DEF WorkStates
  <2>2. works' = [works EXCEPT ![w] = v] BY <1>4 DEF AddSource, Work
  <2> QED BY <1>1, <1>2, <2>1, <2>2
<1>5. CASE WriteIdentity(p)
  <2> DEFINE v == [old EXCEPT !.names = @ \union request[p].names]
  <2>1. v \in WorkStates /\ old.sources \subseteq v.sources /\ old.names \subseteq v.names
    BY <1>2, <1>3 DEF WorkStates
  <2>2. works' = [works EXCEPT ![w] = v] BY <1>5 DEF WriteIdentity, Work
  <2> QED BY <1>1, <1>2, <2>1, <2>2
<1>6. CASE SwitchActive(p)
  <2> DEFINE v == [old EXCEPT !.active = Source(p)]
  <2>1. v \in WorkStates /\ old.sources \subseteq v.sources /\ old.names \subseteq v.names
    BY <1>1, <1>2 DEF WorkStates
  <2>2. works' = [works EXCEPT ![w] = v] BY <1>6 DEF SwitchActive, Work
  <2> QED BY <1>1, <1>2, <2>1, <2>2
<1> QED BY <1>4, <1>5, <1>6

LEMMA StepKeeps ==
  ASSUME IInv, Next, NEW x \in Existing(works), works' # works
  PROVE  Kept(x)
<1>1. PICK p \in Adders :
        Publish(p) \/ AddSource(p) \/ WriteIdentity(p) \/ SwitchActive(p)
  BY DEF Next, Begin, Reserve, Acquire, Confirm, Stage, Recover, Unreserve,
         ReadForCatalog, ReplaceCatalog, Finish, Stop, Tear, disk
<1>2. CASE Publish(p)
  <2>1. works \in Authorities /\ works[target[p]] = None
    BY <1>2, TypeFacts DEF IInv, Publish, Work
  <2>2. x \in WorkIds /\ x # target[p] /\ works[x] # None BY <2>1, Holders
  <2>3. works'[x] = works[x] BY <1>2, <2>1, <2>2 DEF Publish, Work, Authorities
  <2> QED BY <2>2, <2>3 DEF Kept
<1>3. CASE AddSource(p) \/ WriteIdentity(p) \/ SwitchActive(p)
  <2>1. target[p] \in WorkIds /\ works \in Authorities BY <1>3, RewriteKeeps
  <2>2. PICK v \in WorkStates :
          /\ works' = [works EXCEPT ![target[p]] = v]
          /\ works[target[p]].sources \subseteq v.sources
          /\ works[target[p]].names \subseteq v.names
    BY <1>3, RewriteKeeps
  <2>3. x \in WorkIds /\ works[x] # None /\ v # None BY <2>2, Holders, Markers
  <2>4. works'[x] = IF x = target[p] THEN v ELSE works[x]
    BY <2>1, <2>2, <2>3 DEF Authorities
  <2> QED BY <2>2, <2>3, <2>4 DEF Kept
<1> QED BY <1>1, <1>2, <1>3

\* A Work never loses a Source or a name: the three renames that change it only add.
THEOREM WorksGrow == Spec => WorksOnlyGrow
<1>1. IInv /\ [Next]_vars =>
        [\A w \in Existing(works) :
           /\ works'[w] # None
           /\ works[w].sources \subseteq works'[w].sources
           /\ works[w].names \subseteq works'[w].names]_works
  <2> SUFFICES ASSUME IInv, [Next]_vars, works' # works
               PROVE  \A w \in Existing(works) : Kept(w)
    BY DEF Kept
  <2>1. Next BY DEF vars, disk
  <2> QED BY <2>1, StepKeeps
<1> QED BY <1>1, Invariant, PTL DEF Spec, WorksOnlyGrow

-----------------------------------------------------------------------------
(* What the catalog shows.                                                 *)

\* Where p has committed all of its request, up to where it reports it.
SettledPcs == {"unreserving", "projecting", "replacing", "done"}

\* What a reader of A finds of p's Work is what p was asked for.
Named(A, p) ==
  /\ target[p] \in Existing(A)
  /\ request[p].names \subseteq A[target[p]].names
Shows(A, p) == Named(A, p) /\ A[target[p]].active = Source(p)

\* A staged Work has one PDF, so its active Source is that one.
WholeInv ==
  /\ WorksAreWhole
  /\ \A w \in Existing(staged) : staged[w].active \in staged[w].sources

\* What p has committed stays as it is, because p holds the mutex of its Work.
OwnShown(p) ==
  /\ pc[p] = "publishing" => Shows(staged, p)
  /\ pc[p] = "switching" => Named(works, p)
  /\ pc[p] \in SettledPcs => Shows(works, p)
  /\ pc[p] = "replacing" => Shows(seen[p], p)

\* Whoever rebuilds the catalog after p read the Works after p, too.
DoneInv ==
  \A p \in Adders : pc[p] = "done" =>
    /\ Shows(catalog, p)
    /\ \A q \in Adders : pc[q] = "replacing" => Shows(seen[q], p)

\* A has nothing that B lost.
Within(A, B) ==
  \A w \in Existing(A) :
    /\ B[w] # None
    /\ A[w].sources \subseteq B[w].sources
    /\ A[w].names \subseteq B[w].names

\* One process rebuilds the catalog at a time, from Works that are not older than it.
CatalogInv ==
  /\ Within(catalog, works)
  /\ \A p \in Adders : pc[p] = "replacing" =>
       /\ projector = p
       /\ Within(catalog, seen[p])
       /\ Within(seen[p], works)

CInv == IInv /\ WholeInv /\ (\A p \in Adders : OwnShown(p)) /\ DoneInv /\ CatalogInv

LEMMA WithinWithin ==
  ASSUME NEW A, NEW B, NEW C, Within(A, B), Within(B, C)
  PROVE  Within(A, C)
<1>1. \A w \in Existing(A) : w \in Existing(B) BY DEF Within, Existing
<1> QED BY <1>1 DEF Within

LEMMA WorkTyped ==
  ASSUME NEW A \in Authorities, NEW w \in Existing(A)
  PROVE  w \in WorkIds /\ A[w] \in WorkStates /\ A[w] # None
BY DEF Existing, Authorities

\* Works grow, so what was read from them is never ahead of them.
LEMMA WorksWithin ==
  ASSUME IInv, [Next]_vars
  PROVE  Within(works, works')
<1>1. CASE works' = works BY <1>1 DEF Within, Existing
<1>2. CASE works' # works
  <2>1. Next BY <1>2 DEF vars, disk
  <2> QED BY <1>2, <2>1, StepKeeps DEF Kept, Within
<1> QED BY <1>1, <1>2

\* Two processes that hold the mutex of their Work have two Works.
LEMMA Apart ==
  ASSUME IInv, NEW p \in Adders, NEW q \in Adders, p # q, pc[p] \in LockedPcs, pc[q] \in LockedPcs
  PROVE  target[p] # target[q]
BY DEF IInv, WriterInv

\* The steps that write a Work or what is staged of it.
WritesWork(p) ==
  \/ Stage(p) \/ Recover(p) \/ Publish(p)
  \/ AddSource(p) \/ WriteIdentity(p) \/ SwitchActive(p)

\* What p writes is its own Work.
LEMMA OwnWork ==
  ASSUME IInv, NEW p \in Adders, WritesWork(p)
  PROVE  /\ pc[p] \in LockedPcs /\ target[p] \in WorkIds /\ request[p] \in Requests
         /\ Source(p) \in Sources /\ request[p].names \subseteq Names
         /\ \A w \in WorkIds : w # target[p] => works'[w] = works[w] /\ staged'[w] = staged[w]
         /\ UNCHANGED <<catalog, projector, request, target, seen>>
         /\ pc'[p] \in {"publishing", "naming", "switching", "unreserving"}
<1>1. pc[p] \in LockedPcs /\ pc[p] # "idle"
  BY DEF WritesWork, Stage, Recover, Publish, AddSource, WriteIdentity, SwitchActive,
         LockedPcs, CommittingPcs, CommittedPcs
<1>2. target[p] \in WorkIds /\ request[p] \in Requests
  BY <1>1 DEF IInv, LocalInv
<1>3. Source(p) \in Sources /\ request[p].names \subseteq Names
  BY <1>2, AddAssumption DEF Requests, Source
<1>4. works \in Authorities /\ staged \in Authorities /\ DOMAIN pc = Adders
  BY TypeFacts DEF IInv
<1>5. \A w \in WorkIds : w # target[p] => works'[w] = works[w] /\ staged'[w] = staged[w]
  BY <1>2, <1>4
  DEF WritesWork, Stage, Recover, Publish, AddSource, WriteIdentity, SwitchActive, Work,
      Authorities
<1>6. /\ UNCHANGED <<catalog, projector, request, target, seen>>
      /\ pc'[p] \in {"publishing", "naming", "switching", "unreserving"}
  BY <1>4
  DEF WritesWork, Stage, Recover, Publish, AddSource, WriteIdentity, SwitchActive, Goto,
      mutexes, local
<1> QED BY <1>1, <1>2, <1>3, <1>5, <1>6

\* A new Work is whole when it is renamed, and a staged one that is completed has the
\* PDF of the request for its only Source.
LEMMA StagedShown ==
  ASSUME CInv, NEW p \in Adders, Stage(p) \/ Recover(p)
  PROVE  /\ pc'[p] = "publishing" /\ works' = works
         /\ Shows(staged, p)'
         /\ staged'[target[p]].active \in staged'[target[p]].sources
<1> DEFINE w == target[p]
<1>1. /\ w \in WorkIds /\ Source(p) \in Sources /\ request[p].names \subseteq Names
      /\ UNCHANGED <<request, target>>
  BY OwnWork DEF CInv, WritesWork
<1>2. staged \in Authorities /\ DOMAIN pc = Adders BY TypeFacts DEF CInv, IInv
<1>3. pc'[p] = "publishing" /\ works' = works BY <1>2 DEF Stage, Recover, Goto
<1>4. Source(p)' = Source(p) BY <1>1 DEF Source
<1>5. CASE Stage(p)
  <2> DEFINE v == [sources |-> {Source(p)}, names |-> request[p].names, active |-> Source(p)]
  <2>1. v \in WorkStates BY <1>1 DEF WorkStates
  <2>2. staged'[w] = v BY <1>1, <1>2, <1>5 DEF Stage, Work, Authorities
  <2>3. v # None BY <2>1, Markers
  <2> QED BY <1>1, <1>3, <1>4, <2>2, <2>3 DEF Shows, Named, Existing
<1>6. CASE Recover(p)
  <2>1. w \in Existing(staged) BY <1>6 DEF CInv, IInv, StagedInv, Recover
  <2>2. staged[w] \in WorkStates BY <1>2, <2>1, WorkTyped
  <2> DEFINE v == [staged[w] EXCEPT !.names = @ \union request[p].names]
  <2>3. /\ v \in WorkStates /\ v.sources = staged[w].sources
        /\ v.active = staged[w].active /\ request[p].names \subseteq v.names
    BY <1>1, <2>2 DEF WorkStates
  <2>4. staged'[w] = v BY <1>1, <1>2, <1>6 DEF Recover, Work, Authorities
  <2>5. v # None BY <2>3, Markers
  <2>6. v.active \in v.sources BY <2>1, <2>3 DEF CInv, WholeInv
  <2>7. v.active = Source(p)
    <3>1. Source(p) \in staged[w].sources BY <1>6 DEF Recover, Work
    <3>2. PICK s \in Sources : staged[w].sources = {s}
      BY <2>1 DEF CInv, IInv, StagedInv
    <3> QED BY <2>3, <2>6, <3>1, <3>2
  <2> HIDE DEF v
  <2> QED BY <1>1, <1>3, <1>4, <2>3, <2>4, <2>5, <2>6, <2>7 DEF Shows, Named, Existing
<1> QED BY <1>5, <1>6

\* The rename of a new Work shows all of it at once.
LEMMA PublishedShown ==
  ASSUME CInv, NEW p \in Adders, Publish(p)
  PROVE  /\ pc'[p] = "unreserving"
         /\ Shows(works, p)'
         /\ works'[target[p]].active \in works'[target[p]].sources
         /\ staged'[target[p]] = None
<1> DEFINE w == target[p]
<1>1. w \in WorkIds /\ UNCHANGED <<request, target>> BY OwnWork DEF CInv, WritesWork
<1>2. works \in Authorities /\ staged \in Authorities /\ DOMAIN pc = Adders
  BY TypeFacts DEF CInv, IInv
<1>3. pc[p] = "publishing" /\ pc'[p] = "unreserving" BY <1>2 DEF Publish, Goto
<1>4. works'[w] = staged[w] /\ staged'[w] = None
  BY <1>1, <1>2 DEF Publish, Work, Authorities
<1>5. Shows(staged, p) BY <1>3 DEF CInv, OwnShown
<1>6. w \in Existing(staged) BY <1>5 DEF Shows, Named
<1>7. staged[w].active \in staged[w].sources BY <1>6 DEF CInv, WholeInv
<1> QED BY <1>1, <1>3, <1>4, <1>5, <1>7 DEF Shows, Named, Existing, Source

\* The steps that rewrite a Work keep it whole, and add what they are for.
LEMMA RewrittenShown ==
  ASSUME CInv, NEW p \in Adders, AddSource(p) \/ WriteIdentity(p) \/ SwitchActive(p)
  PROVE  /\ staged' = staged
         /\ works'[target[p]] # None
         /\ works'[target[p]].active \in works'[target[p]].sources
         /\ pc'[p] \in {"naming", "switching", "unreserving"}
         /\ pc'[p] = "switching" => Named(works, p)'
         /\ pc'[p] = "unreserving" => Shows(works, p)'
<1> DEFINE w == target[p]
           old == works[w]
<1>1. /\ w \in WorkIds /\ Source(p) \in Sources /\ request[p].names \subseteq Names
      /\ UNCHANGED <<request, target>>
  BY OwnWork DEF CInv, WritesWork
<1>2. works \in Authorities /\ DOMAIN pc = Adders BY TypeFacts DEF CInv, IInv
<1>3. w \in Existing(works) /\ (pc[p] \in CommittedPcs => Source(p) \in old.sources)
  BY Holders DEF CInv, IInv, CommitInv, AddSource, WriteIdentity, SwitchActive, CommittedPcs
<1>4. old \in WorkStates /\ old # None BY <1>2, <1>3, WorkTyped
<1>5. old.active \in old.sources BY <1>3 DEF CInv, WholeInv, WorksAreWhole
<1>6. Source(p)' = Source(p) BY <1>1 DEF Source
<1>7. CASE AddSource(p)
  <2> DEFINE v == [old EXCEPT !.sources = @ \union {Source(p)}]
  <2>1. v \in WorkStates /\ v.active \in v.sources BY <1>1, <1>4, <1>5 DEF WorkStates
  <2>2. works'[w] = v BY <1>1, <1>2, <1>7 DEF AddSource, Work, Authorities
  <2>3. pc'[p] = "naming" /\ staged' = staged BY <1>2, <1>7 DEF AddSource, Goto
  <2> QED BY <2>1, <2>2, <2>3, Markers
<1>8. CASE WriteIdentity(p)
  <2> DEFINE v == [old EXCEPT !.names = @ \union request[p].names]
  <2>1. v \in WorkStates /\ v.active \in v.sources /\ request[p].names \subseteq v.names
    BY <1>1, <1>4, <1>5 DEF WorkStates
  <2>2. works'[w] = v BY <1>1, <1>2, <1>8 DEF WriteIdentity, Work, Authorities
  <2>3. pc'[p] = "switching" /\ staged' = staged BY <1>2, <1>8 DEF WriteIdentity, Goto
  <2>4. v # None BY <2>1, Markers
  <2> HIDE DEF v
  <2> QED BY <1>1, <2>1, <2>2, <2>3, <2>4 DEF Named, Existing
<1>9. CASE SwitchActive(p)
  <2> DEFINE v == [old EXCEPT !.active = Source(p)]
  <2>1. pc[p] = "switching" BY <1>9 DEF SwitchActive
  <2>2. Source(p) \in old.sources /\ request[p].names \subseteq old.names
    BY <1>3, <2>1 DEF CommittedPcs, CInv, OwnShown, Named
  <2>3. /\ v \in WorkStates /\ v.active = Source(p) /\ v.active \in v.sources
        /\ request[p].names \subseteq v.names
    BY <1>1, <1>4, <2>2 DEF WorkStates
  <2>4. works'[w] = v BY <1>1, <1>2, <1>9 DEF SwitchActive, Work, Authorities
  <2>5. pc'[p] = "unreserving" /\ staged' = staged BY <1>2, <1>9 DEF SwitchActive, Goto
  <2>6. v # None BY <2>3, Markers
  <2> HIDE DEF v
  <2> QED BY <1>1, <1>6, <2>3, <2>4, <2>5, <2>6 DEF Shows, Named, Existing
<1> QED BY <1>7, <1>8, <1>9

\* Every Work stays whole.
LEMMA WholeStep ==
  ASSUME CInv, NEW p \in Adders, WritesWork(p)
  PROVE  WholeInv'
<1>1. /\ target[p] \in WorkIds
      /\ \A w \in WorkIds : w # target[p] => works'[w] = works[w] /\ staged'[w] = staged[w]
  BY OwnWork DEF CInv
<1>2. /\ target[p] \in Existing(works') =>
           works'[target[p]].active \in works'[target[p]].sources
      /\ target[p] \in Existing(staged') =>
           staged'[target[p]].active \in staged'[target[p]].sources
  BY StagedShown, PublishedShown, RewrittenShown
  DEF WritesWork, CInv, WholeInv, WorksAreWhole, Existing
<1>3. ASSUME NEW w \in WorkIds, w # target[p]
      PROVE  /\ w \in Existing(works') => works'[w].active \in works'[w].sources
             /\ w \in Existing(staged') => staged'[w].active \in staged'[w].sources
  BY <1>1, <1>3 DEF CInv, WholeInv, WorksAreWhole, Existing
<1>4. \A w \in WorkIds :
        /\ w \in Existing(works') => works'[w].active \in works'[w].sources
        /\ w \in Existing(staged') => staged'[w].active \in staged'[w].sources
  BY <1>2, <1>3
<1> QED BY <1>4, Holders DEF WholeInv, WorksAreWhole

\* What p has written is what it was asked for.
LEMMA OwnShownStep ==
  ASSUME CInv, NEW p \in Adders, WritesWork(p)
  PROVE  OwnShown(p)'
BY StagedShown, PublishedShown, RewrittenShown DEF WritesWork, OwnShown, SettledPcs

\* What q has written stays, because p writes another Work.
LEMMA OthersShown ==
  ASSUME CInv, NEW p \in Adders, NEW q \in Adders, q # p, OthersStand(p),
         WritesWork(p) \/ UNCHANGED <<works, staged>>
  PROVE  OwnShown(q)'
<1>1. /\ pc'[q] = pc[q] /\ target'[q] = target[q] /\ seen'[q] = seen[q]
      /\ request'[q] = request[q] /\ Source(q)' = Source(q)
  BY DEF OthersStand, Source
<1>2. SUFFICES ASSUME pc[q] \in {"publishing", "switching"} \union SettledPcs
               PROVE  OwnShown(q)'
  BY <1>1 DEF OwnShown, SettledPcs
<1>3. pc[q] \in LockedPcs
  BY <1>2 DEF LockedPcs, CommittingPcs, CommittedPcs, SettledPcs
<1>4. works'[target[q]] = works[target[q]] /\ staged'[target[q]] = staged[target[q]]
  <2>1. target[q] \in WorkIds BY <1>3 DEF CInv, IInv, LocalInv
  <2>2. CASE WritesWork(p)
    <3>1. target[p] # target[q] BY <1>3, <2>2, OwnWork, Apart DEF CInv
    <3> QED BY <2>1, <2>2, <3>1, OwnWork DEF CInv
  <2> QED BY <2>2
<1>5. OwnShown(q) BY DEF CInv
<1> QED BY <1>1, <1>4, <1>5 DEF OwnShown, Shows, Named, Existing

\* A step that neither reads for the catalog nor replaces it.
LEMMA DoneStays ==
  ASSUME CInv, NEW p \in Adders, OthersStand(p), catalog' = catalog,
         pc'[p] \notin {"replacing", "done"}
  PROVE  DoneInv'
<1>1. SUFFICES ASSUME NEW q \in Adders, pc'[q] = "done"
               PROVE  /\ Shows(catalog, q)'
                      /\ \A r \in Adders : pc'[r] = "replacing" => Shows(seen[r], q)'
  BY DEF DoneInv, Shows, Named, Source
<1>2. /\ pc[q] = "done" /\ q # p /\ target'[q] = target[q]
      /\ request'[q] = request[q] /\ Source(q)' = Source(q)
  BY <1>1 DEF OthersStand, Source
<1>3. Shows(catalog, q)'
  BY <1>2 DEF CInv, DoneInv, Shows, Named
<1>4. ASSUME NEW r \in Adders, pc'[r] = "replacing" PROVE Shows(seen[r], q)'
  <2>1. pc[r] = "replacing" /\ seen'[r] = seen[r] BY <1>4 DEF OthersStand
  <2>2. Shows(seen[r], q) BY <1>2, <2>1 DEF CInv, DoneInv
  <2> QED BY <1>2, <2>1, <2>2 DEF Shows, Named
<1> QED BY <1>3, <1>4

LEMMA CatalogStays ==
  ASSUME CInv, [Next]_vars, NEW p \in Adders, OthersStand(p),
         UNCHANGED catalog, projector' = projector \/ projector = p,
         pc'[p] # "replacing"
  PROVE  CatalogInv'
<1>1. Within(works, works') BY WorksWithin DEF CInv
<1>2. Within(catalog', works')
  BY <1>1, WithinWithin DEF CInv, CatalogInv
<1>3. ASSUME NEW q \in Adders, pc'[q] = "replacing"
      PROVE  projector' = q /\ Within(catalog', seen'[q]) /\ Within(seen'[q], works')
  <2>1. q # p /\ pc[q] = "replacing" /\ seen'[q] = seen[q] BY <1>3 DEF OthersStand
  <2>2. projector = q /\ Within(catalog, seen[q]) /\ Within(seen[q], works)
    BY <2>1 DEF CInv, CatalogInv
  <2> QED BY <1>1, <2>1, <2>2, WithinWithin
<1> QED BY <1>2, <1>3 DEF CatalogInv

\* The Works as they are show what every finished process reported.
LEMMA ReadShown ==
  ASSUME CInv, [Next]_vars, NEW p \in Adders, ReadForCatalog(p)
  PROVE  OwnShown(p)' /\ DoneInv' /\ CatalogInv'
<1>1. /\ pc[p] = "projecting" /\ pc'[p] = "replacing" /\ seen'[p] = works
      /\ projector = None /\ projector' = p
      /\ UNCHANGED <<works, staged, catalog, request, target>>
  BY TypeFacts DEF CInv, IInv, ReadForCatalog, Goto, disk
<1>2. OthersStand(p) BY Frame DEF CInv, IInv
<1>3. \A q \in Adders : pc[q] # "replacing"
  BY <1>1, Markers DEF CInv, CatalogInv
<1>4. \A q \in Adders : pc'[q] = "replacing" => q = p BY <1>2, <1>3 DEF OthersStand
<1>5. Shows(works, p) BY <1>1 DEF CInv, OwnShown, SettledPcs
<1>6. OwnShown(p)'
  BY <1>1, <1>5 DEF OwnShown, SettledPcs, Shows, Named, Source
<1>7. DoneInv'
  <2>1. SUFFICES ASSUME NEW q \in Adders, pc'[q] = "done"
                 PROVE  Shows(catalog, q)' /\ Shows(seen[p], q)'
    BY <1>4 DEF DoneInv, Shows, Named, Source
  <2>2. pc[q] = "done" BY <1>1, <1>2, <2>1 DEF OthersStand
  <2>3. Shows(catalog, q) /\ Shows(works, q)
    BY <2>2 DEF CInv, DoneInv, OwnShown, SettledPcs
  <2> QED BY <1>1, <2>3 DEF Shows, Named, Source
<1>8. Within(works, works) BY DEF Within, Existing
<1>9. CatalogInv' BY <1>1, <1>4, <1>8 DEF CInv, CatalogInv
<1> QED BY <1>6, <1>7, <1>9

\* The new catalog shows what p did, and what was already reported.
LEMMA ReplacedShown ==
  ASSUME CInv, [Next]_vars, NEW p \in Adders, ReplaceCatalog(p)
  PROVE  OwnShown(p)' /\ DoneInv' /\ CatalogInv'
<1>1. /\ pc[p] = "replacing" /\ pc'[p] = "done" /\ catalog' = seen[p]
      /\ UNCHANGED <<works, staged, request, target>>
  BY TypeFacts DEF CInv, IInv, ReplaceCatalog, Goto
<1>2. OthersStand(p) BY Frame DEF CInv, IInv
<1>3. \A q \in Adders : pc'[q] # "replacing"
  BY <1>1, <1>2 DEF CInv, CatalogInv, OthersStand
<1>4. Shows(works, p) /\ Shows(seen[p], p) BY <1>1 DEF CInv, OwnShown, SettledPcs
<1>5. OwnShown(p)'
  BY <1>1, <1>4 DEF OwnShown, Shows, Named, Source
<1>6. DoneInv'
  <2>1. SUFFICES ASSUME NEW q \in Adders, pc'[q] = "done" PROVE Shows(catalog, q)'
    BY <1>3 DEF DoneInv, Shows, Named, Source
  <2>2. q = p \/ pc[q] = "done" BY <1>2, <2>1 DEF OthersStand
  <2>3. Shows(seen[p], q) BY <1>1, <1>4, <2>2 DEF CInv, DoneInv
  <2> QED BY <1>1, <2>3 DEF Shows, Named, Source
<1>7. CatalogInv' BY <1>1, <1>3 DEF CInv, CatalogInv
<1> QED BY <1>5, <1>6, <1>7

\* A step that leaves the Works and the catalog alone and shows nothing new.
LEMMA NothingShown ==
  ASSUME CInv, NEW p \in Adders, Begin(p) \/ Reserve(p) \/ Acquire(p) \/ Confirm(p)
                                   \/ Unreserve(p) \/ Finish(p) \/ Stop(p) \/ Tear(p)
  PROVE  /\ UNCHANGED <<works, staged, catalog>>
         /\ projector' = projector \/ projector = p
         /\ pc'[p] \notin {"replacing", "done"}
         /\ OwnShown(p)'
<1>1. DOMAIN pc = Adders BY TypeFacts DEF CInv, IInv
<1>2. CASE Unreserve(p)
  <2>1. /\ pc[p] = "unreserving" /\ pc'[p] = "projecting"
        /\ UNCHANGED <<works, staged, catalog, projector, request, target>>
    BY <1>1, <1>2 DEF Unreserve, Goto, mutexes, local
  <2>2. Shows(works, p) BY <2>1 DEF CInv, OwnShown, SettledPcs
  <2> QED BY <2>1, <2>2 DEF OwnShown, Shows, Named, Source
<1>3. CASE Confirm(p)
  BY <1>1, <1>3 DEF Confirm, Commit, Goto, disk, mutexes, OwnShown, SettledPcs
<1>4. CASE Begin(p) \/ Reserve(p) \/ Acquire(p)
  BY <1>1, <1>4 DEF Begin, Reserve, Acquire, Goto, disk, OwnShown, SettledPcs
<1>5. CASE Finish(p) \/ Stop(p) \/ Tear(p)
  BY <1>1, <1>5 DEF Finish, Stop, Tear, Leave, Goto, disk, OwnShown, SettledPcs
<1> QED BY <1>2, <1>3, <1>4, <1>5

LEMMA NextCInv == CInv /\ [Next]_vars => CInv'
<1> SUFFICES ASSUME CInv, [Next]_vars PROVE CInv' OBVIOUS
<1>1. IInv' BY NextIInv DEF CInv
<1>2. CASE UNCHANGED vars
  <2>1. WholeInv' BY <1>2 DEF CInv, WholeInv, WorksAreWhole, Existing, vars, disk
  <2>2. \A p \in Adders : OwnShown(p)'
    BY <1>2 DEF CInv, OwnShown, Shows, Named, Source, vars, disk, local
  <2>3. DoneInv' BY <1>2 DEF CInv, DoneInv, Shows, Named, Source, vars, disk, local
  <2>4. CatalogInv' BY <1>2 DEF CInv, CatalogInv, vars, disk, mutexes, local
  <2> QED BY <1>1, <2>1, <2>2, <2>3, <2>4 DEF CInv
<1>3. ASSUME NEW p \in Adders, WritesWork(p) PROVE CInv'
  <2>1. OthersStand(p) BY <1>3, Frame DEF CInv, IInv, WritesWork
  <2>2. /\ UNCHANGED <<catalog, projector>>
        /\ pc'[p] \notin {"replacing", "done"}
    BY <1>3, OwnWork DEF CInv
  <2>3. WholeInv' BY <1>3, WholeStep
  <2>4. \A q \in Adders : OwnShown(q)' BY <1>3, <2>1, OwnShownStep, OthersShown
  <2>5. DoneInv' /\ CatalogInv' BY <2>1, <2>2, DoneStays, CatalogStays
  <2> QED BY <1>1, <2>3, <2>4, <2>5 DEF CInv
<1>4. ASSUME NEW p \in Adders, ReadForCatalog(p) \/ ReplaceCatalog(p) PROVE CInv'
  <2>1. OthersStand(p) BY <1>4, Frame DEF CInv, IInv
  <2>2. UNCHANGED <<works, staged>> BY <1>4 DEF ReadForCatalog, ReplaceCatalog, disk
  <2>3. WholeInv' BY <2>2 DEF CInv, WholeInv, WorksAreWhole, Existing
  <2>4. OwnShown(p)' /\ DoneInv' /\ CatalogInv' BY <1>4, ReadShown, ReplacedShown
  <2>5. \A q \in Adders : OwnShown(q)' BY <2>1, <2>2, <2>4, OthersShown
  <2> QED BY <1>1, <2>3, <2>4, <2>5 DEF CInv
<1>5. ASSUME NEW p \in Adders, Begin(p) \/ Reserve(p) \/ Acquire(p) \/ Confirm(p)
                                 \/ Unreserve(p) \/ Finish(p) \/ Stop(p) \/ Tear(p)
      PROVE  CInv'
  <2>1. OthersStand(p) BY <1>5, Frame DEF CInv, IInv
  <2>2. /\ UNCHANGED <<works, staged, catalog>>
        /\ projector' = projector \/ projector = p
        /\ pc'[p] \notin {"replacing", "done"}
        /\ OwnShown(p)'
    BY <1>5, NothingShown
  <2>3. WholeInv' BY <2>2 DEF CInv, WholeInv, WorksAreWhole, Existing
  <2>4. \A q \in Adders : OwnShown(q)' BY <2>1, <2>2, OthersShown
  <2>5. DoneInv' /\ CatalogInv' BY <2>1, <2>2, DoneStays, CatalogStays
  <2> QED BY <1>1, <2>3, <2>4, <2>5 DEF CInv
<1> QED BY <1>2, <1>3, <1>4, <1>5 DEF Next, WritesWork

LEMMA InitCInv == Init => CInv
<1> SUFFICES ASSUME Init PROVE CInv OBVIOUS
<1>1. IInv BY InitIInv
<1>2. /\ works = Empty /\ staged = Empty /\ catalog = Empty
      /\ \A p \in Adders : pc[p] = "idle"
  BY DEF Init
<1>3. Existing(works) = {} /\ Existing(staged) = {} /\ Existing(catalog) = {}
  BY <1>2 DEF Existing, Empty
<1> QED BY <1>1, <1>2, <1>3
  DEF CInv, WholeInv, WorksAreWhole, OwnShown, SettledPcs, DoneInv, CatalogInv, Within

LEMMA CatalogInvariant == Spec => []CInv
BY InitCInv, NextCInv, PTL DEF Spec

\* Wherever a writer died, a Work that can be read has an active Source that is one of
\* its Sources: the pointer is replaced after the bundle it names was written.
THEOREM WholeWorks == Spec => []WorksAreWhole
<1>1. CInv => WorksAreWhole BY DEF CInv, WholeInv
<1> QED BY <1>1, CatalogInvariant, PTL

\* A success is visible in the catalog until it is reported, whoever rebuilds the
\* catalog meanwhile, because the Work's mutex is held until the rebuild is over and
\* rebuilds are serial.
THEOREM SuccessShown == Spec => []SuccessIsProjected
<1>1. CInv => SuccessIsProjected
  BY DEF CInv, DoneInv, Shows, Named, SuccessIsProjected, Work
<1> QED BY <1>1, CatalogInvariant, PTL

\* A rebuilt catalog has all that the one it replaces had.
THEOREM CatalogGrows == Spec => CatalogNeverGoesBack
<1>1. CInv /\ [Next]_vars =>
        [\A w \in Existing(catalog) :
           /\ catalog'[w] # None
           /\ catalog[w].sources \subseteq catalog'[w].sources
           /\ catalog[w].names \subseteq catalog'[w].names]_catalog
  <2> SUFFICES ASSUME CInv, [Next]_vars, catalog' # catalog
               PROVE  Within(catalog, catalog')
    BY DEF Within
  <2>1. PICK p \in Adders : ReplaceCatalog(p)
    BY DEF Next, Begin, Reserve, Acquire, Confirm, Stage, Recover, Publish, AddSource,
           WriteIdentity, SwitchActive, Unreserve, ReadForCatalog, Finish, Stop, Tear,
           vars, disk
  <2>2. pc[p] = "replacing" /\ catalog' = seen[p] BY <2>1 DEF ReplaceCatalog
  <2> QED BY <2>2 DEF CInv, CatalogInv
<1> QED BY <1>1, CatalogInvariant, PTL DEF Spec, CatalogNeverGoesBack

=============================================================================
