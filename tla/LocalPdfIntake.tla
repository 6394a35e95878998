--------------------------- MODULE LocalPdfIntake ---------------------------
(***************************************************************************)
(* _literature_intake.py: "literature add" makes a PDF a Source of a Work. *)
(* Processes add in parallel.  Each decides which Work the PDF belongs to  *)
(* under the identity-intake mutex and leaves a reservation behind, takes  *)
(* the Work writer mutex, decides again, commits, drops the reservation    *)
(* and rebuilds the catalog from all Works under the catalog mutex.  No    *)
(* mutex is waited for: a process that finds one taken stops.              *)
(*                                                                         *)
(* A Source stands for the bytes of a PDF.  Reading all Works is one step, *)
(* as is writing a file aside and renaming it.  A reservation is written   *)
(* in place.  Private intake-* directories are read by nobody else and are *)
(* no state here.                                                          *)
(***************************************************************************)
EXTENDS Naturals, FiniteSets

CONSTANTS
  Adders,     \* processes, each runs one "literature add" after the other
  Sources,    \* the PDFs
  Strong,     \* DOIs and arXiv IDs
  Weak,       \* normalized citations
  NameSets,   \* what requests bring: up to a DOI, an arXiv ID and a citation
  WorkIds,    \* bounds how many Works are ever created
  None,       \* no process, no Work
  Torn        \* a reservation whose writer died while writing it

Names == Strong \union Weak

Requests == [source : Sources, names : NameSets, work : WorkIds \union {None}]
WorkStates   == [sources : SUBSET Sources, names : SUBSET Names, active : Sources]
Authorities  == [WorkIds -> WorkStates \union {None}]
Reservations == [work : WorkIds, names : SUBSET Names]

ASSUME AddAssumption ==
  /\ NameSets \subseteq SUBSET Names
  /\ None # Torn
  /\ {None, Torn} \intersect
       (Adders \union WorkIds \union Requests \union WorkStates \union Reservations) = {}

VARIABLES
  works,         \* works/<work>, None when there is none
  staged,        \* works/.staging/<work>, whole but not yet published
  reservations,  \* works/.staging/reservations/<source>.json
  catalog,       \* catalog.sqlite3
  identity,      \* the holder of the identity-intake mutex
  writer,        \* the holder of each Work writer mutex
  projector,     \* the holder of the catalog-projection mutex
  pc,            \* where each process is
  request,       \* what it was asked to add
  target,        \* the Work it decided on
  creates,       \* whether that Work is new
  seen           \* the Works as it last read them

disk    == <<works, staged, reservations, catalog>>
mutexes == <<identity, writer, projector>>
local   == <<request, target, creates, seen>>
vars    == <<disk, mutexes, pc, local>>

Empty == [w \in WorkIds |-> None]

Init ==
  /\ works = Empty /\ staged = Empty /\ catalog = Empty
  /\ reservations = [s \in Sources |-> None]
  /\ identity = None /\ projector = None
  /\ writer = [w \in WorkIds |-> None]
  /\ pc = [p \in Adders |-> "idle"]
  /\ request = [p \in Adders |-> None]
  /\ target = [p \in Adders |-> None]
  /\ creates = [p \in Adders |-> FALSE]
  /\ seen = [p \in Adders |-> Empty]

-----------------------------------------------------------------------------
(* Which Work a PDF belongs to.                                            *)

Existing(authority) == {w \in WorkIds : authority[w] # None}
HoldersOf(authority, s) == {w \in Existing(authority) : s \in authority[w].sources}
OwnersOf(authority, n)  == {w \in Existing(authority) : n \in authority[w].names}

Reserved       == {s \in Sources : reservations[s] # None}
ReservedFor(n) == {reservations[s].work : s \in {x \in Reserved : n \in reservations[x].names}}
ReservedTo(s)  == {reservations[x].work : x \in Reserved \intersect {s}}

StrongOwners(req, authority) ==
  HoldersOf(authority, req.source) \union ReservedTo(req.source)
    \union UNION {OwnersOf(authority, n) \union ReservedFor(n) : n \in req.names \intersect Strong}

WeakOwners(req, authority) ==
  UNION {OwnersOf(authority, n) \union ReservedFor(n) : n \in req.names \intersect Weak}

\* _resolve_work: the Works the request may go to, one unless it is new.  Citations
\* never choose a Work, they only forbid one.
Eligible(req, authority, proposed) ==
  LET strong == StrongOwners(req, authority)
      choice == IF req.work # None THEN {req.work} \intersect Existing(authority)
                ELSE IF strong # {} THEN strong
                ELSE IF WeakOwners(req, authority) = {} THEN proposed ELSE {}
  IN {w \in choice :
        /\ strong \subseteq {w}
        /\ WeakOwners(req, authority) \subseteq {w}}

\* No reservation can be loaded while one is torn.
ReservationsReadable == \A s \in Sources : reservations[s] # Torn
Unused(w) ==
  /\ works[w] = None /\ staged[w] = None
  /\ \A s \in Reserved : reservations[s].work # w
  /\ \A p \in Adders : target[p] # w

-----------------------------------------------------------------------------
(* Steps of a process.                                                     *)

Goto(p, to) == pc' = [pc EXCEPT ![p] = to]
Work(p)     == target[p]
Source(p)   == request[p].source

\* The PDF was copied, then all Works are read under the identity mutex.
Begin(p) ==
  /\ pc[p] = "idle" /\ identity = None
  /\ \E req \in Requests : request' = [request EXCEPT ![p] = req]
  /\ identity' = p
  /\ seen' = [seen EXCEPT ![p] = works]
  /\ Goto(p, "reserving")
  /\ UNCHANGED <<disk, writer, projector, target, creates>>

\* The reservations are read after the Works.  One of the same PDF is kept as it
\* is, also when it lacks the names of this request.
Reserve(p) ==
  /\ pc[p] = "reserving" /\ ReservationsReadable
  /\ \E w \in Eligible(request[p], seen[p], {x \in WorkIds : Unused(x)}) :
       /\ target' = [target EXCEPT ![p] = w]
       /\ creates' = [creates EXCEPT ![p] = seen[p][w] = None]
       /\ reservations' = IF Source(p) \in Reserved THEN reservations
                          ELSE [reservations EXCEPT ![Source(p)] =
                                  [work |-> w, names |-> request[p].names]]
  /\ identity' = None
  /\ seen' = [seen EXCEPT ![p] = Empty]
  /\ Goto(p, "reserved")
  /\ UNCHANGED <<works, staged, catalog, writer, projector, request>>

\* The Work writer mutex is taken, then all Works are read again.
Acquire(p) ==
  /\ pc[p] = "reserved" /\ writer[Work(p)] = None
  /\ writer' = [writer EXCEPT ![Work(p)] = p]
  /\ seen' = [seen EXCEPT ![p] = works]
  /\ Goto(p, "confirming")
  /\ UNCHANGED <<disk, identity, projector, request, target, creates>>

Commit(p) ==
  Goto(p, IF ~creates[p]
            THEN IF Source(p) \in works[Work(p)].sources THEN "naming" ELSE "adding"
            ELSE IF staged[Work(p)] = None THEN "staging" ELSE "recovering")

\* Mutant: the first decision is final.
ConfirmTrusts(p) ==
  /\ pc[p] = "confirming"
  /\ creates[p] = (works[Work(p)] = None)
  /\ Commit(p)
  /\ seen' = [seen EXCEPT ![p] = Empty]
  /\ UNCHANGED <<disk, mutexes, request, target, creates>>

\* The decision is made again and must be the same.
Confirm(p) ==
  /\ pc[p] = "confirming" /\ ReservationsReadable
  /\ Eligible(request[p], seen[p], IF creates[p] THEN {Work(p)} ELSE {}) = {Work(p)}
  /\ creates[p] = (seen[p][Work(p)] = None)
  /\ Commit(p)
  /\ seen' = [seen EXCEPT ![p] = Empty]
  /\ UNCHANGED <<disk, mutexes, request, target, creates>>

\* Mutant: the Work is renamed before its Active Source is chosen.
StageEarly(p) ==
  /\ pc[p] = "staging" /\ staged[Work(p)] = None
  /\ staged' = [staged EXCEPT ![Work(p)] =
       [sources |-> {Source(p)}, names |-> request[p].names, active |-> None]]
  /\ Goto(p, "publishing")
  /\ UNCHANGED <<works, reservations, catalog, mutexes, local>>

\* A new Work is built in private and renamed to .staging/<work> when it is whole.
Stage(p) ==
  /\ pc[p] = "staging" /\ staged[Work(p)] = None
  /\ staged' = [staged EXCEPT ![Work(p)] =
       [sources |-> {Source(p)}, names |-> request[p].names, active |-> Source(p)]]
  /\ Goto(p, "publishing")
  /\ UNCHANGED <<works, reservations, catalog, mutexes, local>>

\* A staged Work of the same PDF is completed, one of another PDF stops the command.
Recover(p) ==
  /\ pc[p] = "recovering"
  /\ Source(p) \in staged[Work(p)].sources
  /\ staged' = [staged EXCEPT ![Work(p)].names = @ \union request[p].names]
  /\ Goto(p, "publishing")
  /\ UNCHANGED <<works, reservations, catalog, mutexes, local>>

Publish(p) ==
  /\ pc[p] = "publishing" /\ works[Work(p)] = None
  /\ works' = [works EXCEPT ![Work(p)] = staged[Work(p)]]
  /\ staged' = [staged EXCEPT ![Work(p)] = None]
  /\ Goto(p, "unreserving")
  /\ UNCHANGED <<reservations, catalog, mutexes, local>>

\* Mutant: the Source bundle is written after the pointer to it.
AddSourceLate(p) ==
  /\ pc[p] = "adding"
  /\ Goto(p, "naming")
  /\ UNCHANGED <<disk, mutexes, local>>

AddSource(p) ==
  /\ pc[p] = "adding"
  /\ works' = [works EXCEPT ![Work(p)].sources = @ \union {Source(p)}]
  /\ Goto(p, "naming")
  /\ UNCHANGED <<staged, reservations, catalog, mutexes, local>>

\* Mutant: the identity revision holds only the names of this request.
WriteIdentityAlone(p) ==
  /\ pc[p] = "naming"
  /\ works' = [works EXCEPT ![Work(p)].names = request[p].names]
  /\ Goto(p, "switching")
  /\ UNCHANGED <<staged, reservations, catalog, mutexes, local>>

\* A new identity revision with all names, and the pointer to it.
WriteIdentity(p) ==
  /\ pc[p] = "naming"
  /\ works' = [works EXCEPT ![Work(p)].names = @ \union request[p].names]
  /\ Goto(p, "switching")
  /\ UNCHANGED <<staged, reservations, catalog, mutexes, local>>

SwitchActive(p) ==
  /\ pc[p] = "switching"
  /\ works' = [works EXCEPT ![Work(p)].active = Source(p)]
  /\ Goto(p, "unreserving")
  /\ UNCHANGED <<staged, reservations, catalog, mutexes, local>>

\* A reservation that cannot be unlinked is left behind.
Unreserve(p) ==
  /\ pc[p] = "unreserving"
  /\ \/ reservations' = [reservations EXCEPT ![Source(p)] = None]
     \/ UNCHANGED reservations
  /\ Goto(p, "projecting")
  /\ UNCHANGED <<works, staged, catalog, mutexes, local>>

\* Mutant: the catalog is rebuilt without its mutex.
ReadForCatalogUnlocked(p) ==
  /\ pc[p] = "projecting"
  /\ seen' = [seen EXCEPT ![p] = works]
  /\ Goto(p, "replacing")
  /\ UNCHANGED <<disk, mutexes, request, target, creates>>

\* Mutant: the Work writer mutex is released before the catalog is rebuilt.
ReadForCatalogReleased(p) ==
  /\ pc[p] = "projecting" /\ projector = None
  /\ projector' = p
  /\ writer' = [writer EXCEPT ![Work(p)] = None]
  /\ seen' = [seen EXCEPT ![p] = works]
  /\ Goto(p, "replacing")
  /\ UNCHANGED <<disk, identity, request, target, creates>>

\* The unique index of the catalog admits no strong name of two Works.
ReadForCatalog(p) ==
  /\ pc[p] = "projecting" /\ projector = None
  /\ \A n \in Strong : Cardinality(OwnersOf(works, n)) <= 1
  /\ projector' = p
  /\ seen' = [seen EXCEPT ![p] = works]
  /\ Goto(p, "replacing")
  /\ UNCHANGED <<disk, identity, writer, request, target, creates>>

ReplaceCatalog(p) ==
  /\ pc[p] = "replacing"
  /\ catalog' = seen[p]
  /\ projector' = IF projector = p THEN None ELSE projector
  /\ seen' = [seen EXCEPT ![p] = Empty]
  /\ Goto(p, "done")
  /\ UNCHANGED <<works, staged, reservations, identity, writer, request, target, creates>>

\* The process lets go of every mutex and forgets what it was doing.
Leave(p) ==
  /\ Goto(p, "idle")
  /\ identity' = IF identity = p THEN None ELSE identity
  /\ writer' = [w \in WorkIds |-> IF writer[w] = p THEN None ELSE writer[w]]
  /\ projector' = IF projector = p THEN None ELSE projector
  /\ request' = [request EXCEPT ![p] = None]
  /\ target' = [target EXCEPT ![p] = None]
  /\ creates' = [creates EXCEPT ![p] = FALSE]
  /\ seen' = [seen EXCEPT ![p] = Empty]

\* The result is reported: Work(p) now owns Source(p).
Finish(p) == pc[p] = "done" /\ Leave(p) /\ UNCHANGED disk

\* A check fails, a mutex is taken, a write fails or the process dies.
Stop(p) == pc[p] \notin {"idle", "done"} /\ Leave(p) /\ UNCHANGED disk

\* The process dies while it writes its reservation.
Tear(p) ==
  /\ pc[p] = "reserving" /\ ReservationsReadable /\ Source(p) \notin Reserved
  /\ Eligible(request[p], seen[p], {x \in WorkIds : Unused(x)}) # {}
  /\ reservations' = [reservations EXCEPT ![Source(p)] = Torn]
  /\ Leave(p)
  /\ UNCHANGED <<works, staged, catalog>>

Next ==
  \E p \in Adders :
    \/ Begin(p) \/ Reserve(p) \/ Acquire(p) \/ Confirm(p)
    \/ Stage(p) \/ Recover(p) \/ Publish(p)
    \/ AddSource(p) \/ WriteIdentity(p) \/ SwitchActive(p)
    \/ Unreserve(p) \/ ReadForCatalog(p) \/ ReplaceCatalog(p)
    \/ Finish(p) \/ Stop(p) \/ Tear(p)

Spec == Init /\ [][Next]_vars

-----------------------------------------------------------------------------

TypeOK ==
  /\ {works, staged, catalog} \subseteq Authorities
  /\ reservations \in [Sources -> Reservations \union {None, Torn}]
  /\ {identity, projector} \subseteq Adders \union {None}
  /\ writer \in [WorkIds -> Adders \union {None}]
  /\ pc \in [Adders -> {"idle", "reserving", "reserved", "confirming", "staging",
                        "recovering", "publishing", "adding", "naming", "switching",
                        "unreserving", "projecting", "replacing", "done"}]
  /\ request \in [Adders -> Requests \union {None}]
  /\ target \in [Adders -> WorkIds \union {None}]
  /\ creates \in [Adders -> BOOLEAN]
  /\ seen \in [Adders -> Authorities]

\* The same PDF never becomes the Source of two Works, whatever two processes read
\* before the other committed, and whichever Work the user named.
OneWorkPerSource == \A s \in Sources : Cardinality(HoldersOf(works, s)) <= 1

\* Every Work that can be read is whole wherever its writer died: it has an active
\* Source, which is one of its Sources.
WorksAreWhole ==
  \A w \in Existing(works) : works[w].active \in works[w].sources

\* A Work never loses a Source or a name that two adds gave it.
WorksOnlyGrow ==
  [][\A w \in Existing(works) :
       /\ works'[w] # None
       /\ works[w].sources \subseteq works'[w].sources
       /\ works[w].names \subseteq works'[w].names]_works

\* When an add reports success the catalog shows the PDF as the active Source of
\* its Work under all names of the request, whoever rebuilt it last.
SuccessIsProjected ==
  \A p \in Adders : pc[p] = "done" =>
    /\ Work(p) \in Existing(catalog)
    /\ catalog[Work(p)].active = Source(p)
    /\ request[p].names \subseteq catalog[Work(p)].names

\* No rebuilt catalog is older than the one it replaces.
CatalogNeverGoesBack ==
  [][\A w \in Existing(catalog) :
       /\ catalog'[w] # None
       /\ catalog[w].sources \subseteq catalog'[w].sources
       /\ catalog[w].names \subseteq catalog'[w].names]_catalog

\* A DOI or arXiv ID belongs to one Work.
OneWorkPerStrongName == \A n \in Strong : Cardinality(OwnersOf(works, n)) <= 1

\* When no process runs, a reservation left behind names the Work that the PDF is
\* in, if it is in one, so that the next add of the PDF finds that Work.
ReservationsAgree ==
  (\A p \in Adders : pc[p] = "idle") =>
    \A s \in Reserved : reservations[s] # Torn =>
      HoldersOf(works, s) \subseteq {reservations[s].work}

=============================================================================
