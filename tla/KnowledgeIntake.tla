-------------------------- MODULE KnowledgeIntake --------------------------
(***************************************************************************)
(* KnowledgeIntake.apply of _knowledge_intake.py: how Knowledge takes a    *)
(* Reviewed Handoff.  Every element of Callers is a process that calls     *)
(* apply, again and again, with any Handoff.  They share one Knowledge     *)
(* Data Root: the evidence directories imports/.staging/<handoff_id> and   *)
(* imports/<handoff_id>, registry.sqlite3, and the Registry writer mutex.  *)
(*                                                                         *)
(* A transaction of SQLite is one step: it commits, it is rolled back, or  *)
(* its commit is unclear.  A caller may crash between any two steps and    *)
(* any look at the disk may fail.  A Handoff ID stands for the candidate,  *)
(* the revision and the action; two Handoffs of one ID differ in content.  *)
(* The withdraw's payload identity is determined by the Candidate ID.      *)
(***************************************************************************)
EXTENDS Naturals, FiniteSets

CONSTANTS
  Candidates,
  Revisions,   \* review revisions, up to 2^63 - 1 in the code
  Contents,    \* what an accept says of its Candidate, canonical bytes
  Callers,
  None

VARIABLES
  owner,       \* who owns the Global\Gezhi.KnowledgeRegistryWriter mutex
  evidence,    \* the two files of each Handoff ID, and where they are
  schema,      \* registry.sqlite3: none, empty, the four base tables, with search
  generation,  \* registry_meta.generation
  bound,       \* registry_search_meta.registry_generation, None without search
  rows,        \* handoff_revisions
  content,     \* candidate_content, without its provenance
  source,      \* candidate_content.content_handoff_id, as the Handoff
  current,     \* candidate_current.status_handoff_id, as the Handoff
  searchable,  \* the Candidates in the search projection
  pc,          \* where each caller's apply is
  handoff,     \* the Handoff it applies
  verdict      \* what its last apply returned

registry == <<schema, generation, bound, rows, content, source, current, searchable>>
local    == <<pc, handoff, verdict>>
vars     == <<owner, evidence, registry, local>>

Accepts   == [candidate : Candidates, revision : Revisions,
              action : {"accept"}, content : Contents]
Withdraws == [candidate : Candidates, revision : Revisions,
              action : {"withdraw"}, content : {None}]
Handoffs  == Accepts \union Withdraws
Ids       == [candidate : Candidates, revision : Revisions,
              action : {"accept", "withdraw"}]
HandoffId(h) == [candidate |-> h.candidate, revision |-> h.revision, action |-> h.action]

Missing  == [place |-> "missing", bytes |-> None]
Partial  == [place |-> "partial", bytes |-> None]
Evidence == {Missing, Partial} \union [place : {"staged", "formal"}, bytes : Handoffs]
At(place, h) == [place |-> place, bytes |-> h]

Blocked  == {"data_root_blocked", "registry_busy", "registry_unavailable"}
Failed   == {"import_failed", "revision_conflict", "registry_conflict",
             "commit_failed", "data_root_integrity_lost"}
Applied  == {"applied", "unchanged"}
Verdicts == Blocked \union Failed \union Applied \union {"raised"}

ASSUME IntakeAssumption ==
  /\ Revisions \subseteq Nat \ {0}
  /\ None \notin Contents \union Callers \union Verdicts \union Handoffs

HeldPcs == {"evidence", "mkdir", "fill", "promote", "open", "bootstrap", "transact",
            "applied", "unchanged", "close"}
Pcs     == HeldPcs \union {"idle"}

History(c) == {h \in rows : h.candidate = c}
\* The Handoff of the greatest revision.
Latest(S) == CHOOSE h \in S : \A g \in S : g.revision <= h.revision
AcceptsOf(S) == {h \in S : h.action = "accept"}

\* What the release before the search projection left behind: accepts of one Candidate,
\* all with the same content, which may still be bound to any of them.
Earlier == {H \in SUBSET Accepts : IsFiniteSet(H) /\ \E last \in H :
  /\ \A g \in H : g.candidate = last.candidate /\ g.content = last.content
                  /\ g.revision <= last.revision
  /\ \A g, h \in H : g.revision = h.revision => g = h}
Legacy(H) ==
  /\ schema = "base" /\ rows = H /\ generation = Cardinality(H) /\ bound = None
  /\ evidence = [i \in Ids |-> IF \E h \in H : HandoffId(h) = i
                    THEN At("formal", CHOOSE h \in H : HandoffId(h) = i) ELSE Missing]
  /\ content = [c \in Candidates |-> IF History(c) = {} THEN None ELSE Latest(History(c)).content]
  /\ \E first \in H : source = [c \in Candidates |-> IF History(c) = {} THEN None ELSE first]
  /\ current = [c \in Candidates |-> IF History(c) = {} THEN None ELSE Latest(History(c))]

New ==
  /\ schema = "none" /\ rows = {} /\ generation = 0 /\ bound = None
  /\ evidence = [i \in Ids |-> Missing]
  /\ content = [c \in Candidates |-> None]
  /\ source = [c \in Candidates |-> None]
  /\ current = [c \in Candidates |-> None]

Init ==
  /\ New \/ \E H \in Earlier : Legacy(H)
  /\ searchable = {}
  /\ owner = None
  /\ pc = [p \in Callers |-> "idle"]
  /\ handoff = [p \in Callers |-> None]
  /\ verdict = [p \in Callers |-> None]

Goto(p, from, to) == pc[p] = from /\ pc' = [pc EXCEPT ![p] = to]
Decide(p, v) == verdict' = [verdict EXCEPT ![p] = v]
Evidenced(p) == evidence[HandoffId(handoff[p])]
SetEvidence(p, e) == evidence' = [evidence EXCEPT ![HandoffId(handoff[p])] = e]

\* apply ends with v; the mutex is still to be closed.
Stop(p, v) == pc' = [pc EXCEPT ![p] = "close"] /\ Decide(p, v)

-----------------------------------------------------------------------------
(* The mutex and the evidence.                                             *)

\* apply starts: the Handoff may be invalid, the Data Root closed, the
\* Registry owned by another writer.
Apply(p) ==
  /\ pc[p] = "idle"
  /\ \/ /\ owner = None /\ owner' = p
        /\ \E h \in Handoffs : handoff' = [handoff EXCEPT ![p] = h]
        /\ Goto(p, "idle", "evidence") /\ Decide(p, None)
     \/ /\ \/ owner # None /\ Decide(p, "registry_busy")
           \/ \E v \in {"import_failed", "data_root_blocked", "raised"} : Decide(p, v)
        /\ handoff' = [handoff EXCEPT ![p] = None]
        /\ UNCHANGED <<owner, pc>>
  /\ UNCHANGED <<evidence, registry>>

\* Mutants: staged evidence is used where it is; a formal conflict is rewritten.
InspectEvidenceInPlace(p) ==
  /\ pc[p] = "evidence"
  /\ LET e == Evidenced(p)  h == handoff[p] IN
       \/ e.bytes = h /\ Goto(p, "evidence", "open") /\ UNCHANGED verdict
       \/ e = Missing /\ Goto(p, "evidence", "mkdir") /\ UNCHANGED verdict
  /\ UNCHANGED <<owner, evidence, registry, handoff>>
InspectEvidenceRewrites(p) ==
  /\ pc[p] = "evidence"
  /\ LET e == Evidenced(p)  h == handoff[p] IN
       \/ e = At("formal", h) /\ Goto(p, "evidence", "open") /\ UNCHANGED verdict
       \/ e # At("formal", h) /\ Goto(p, "evidence", "mkdir") /\ UNCHANGED verdict
  /\ UNCHANGED <<owner, evidence, registry, handoff>>

\* _commit_or_reuse_evidence: what is formal is reused, what is staged whole is
\* published, what is staged in part is left alone.
InspectEvidence(p) ==
  /\ pc[p] = "evidence"
  /\ LET e == Evidenced(p)  h == handoff[p] IN
       \/ e = At("formal", h) /\ Goto(p, "evidence", "open") /\ UNCHANGED verdict
       \/ e.place = "formal" /\ e.bytes # h /\ Stop(p, "revision_conflict")
       \/ e = At("staged", h) /\ Goto(p, "evidence", "promote") /\ UNCHANGED verdict
       \/ e.place \in {"partial", "staged"} /\ e.bytes # h /\ Stop(p, "import_failed")
       \/ e = Missing /\ Goto(p, "evidence", "mkdir") /\ UNCHANGED verdict
       \/ \E v \in {"raised", "import_failed", "commit_failed",
                    "data_root_integrity_lost"} : Stop(p, v)
  /\ UNCHANGED <<owner, evidence, registry, handoff>>

MakeStage(p) ==
  /\ pc[p] = "mkdir"
  /\ \/ SetEvidence(p, Partial) /\ Goto(p, "mkdir", "fill") /\ UNCHANGED verdict
     \/ SetEvidence(p, Partial) /\ Stop(p, "import_failed")
     \/ UNCHANGED evidence /\ Stop(p, "import_failed")
  /\ UNCHANGED <<owner, registry, handoff>>

\* candidates.jsonl and manifest.json, each written aside and renamed.
FillStage(p) ==
  /\ pc[p] = "fill"
  /\ LET whole == At("staged", handoff[p]) IN
       \/ SetEvidence(p, whole) /\ Goto(p, "fill", "promote") /\ UNCHANGED verdict
       \/ UNCHANGED evidence /\ Stop(p, "commit_failed")
       \/ /\ \E v \in {"raised", "import_failed"} : Stop(p, v)
          /\ SetEvidence(p, whole) \/ UNCHANGED evidence
  /\ UNCHANGED <<owner, registry, handoff>>

\* The rename to the formal path.  It may take place and yet not be proven.
Promote(p) ==
  /\ pc[p] = "promote"
  /\ LET formal == At("formal", handoff[p]) IN
       \/ SetEvidence(p, formal) /\ Goto(p, "promote", "open") /\ UNCHANGED verdict
       \/ UNCHANGED evidence /\ Stop(p, "raised")
       \/ /\ SetEvidence(p, formal)
          /\ \E v \in {"raised", "import_failed", "data_root_integrity_lost"} : Stop(p, v)
  /\ UNCHANGED <<owner, registry, handoff>>

-----------------------------------------------------------------------------
(* The Registry.                                                           *)

\* Mutants: content is bound to the latest Handoff of any kind; a withdraw leaves
\* the Candidate in the search projection.
RebuildAnySource(c, H) ==
  /\ current' = [current EXCEPT ![c] = Latest(H)]
  /\ source' = [source EXCEPT ![c] = Latest(H)]
  /\ searchable' = IF Latest(H).action = "accept" THEN searchable \union {c}
                                                  ELSE searchable \ {c}
RebuildKeepsSearch(c, H) ==
  /\ current' = [current EXCEPT ![c] = Latest(H)]
  /\ source' = [source EXCEPT ![c] = Latest(AcceptsOf(H))]
  /\ searchable' = IF Latest(H).action = "accept" THEN searchable \union {c} ELSE searchable

\* _rebuild_current_projection, _rebuild_content_import_projection and the
\* search membership of one Candidate, all from its history H.
Rebuild(c, H) ==
  /\ current' = [current EXCEPT ![c] = Latest(H)]
  /\ source' = [source EXCEPT ![c] = Latest(AcceptsOf(H))]
  /\ searchable' = IF Latest(H).action = "accept" THEN searchable \union {c}
                                                  ELSE searchable \ {c}

\* A commit succeeds, or SQLite does not say whether it did: closing the
\* connection then rolls back what was not committed.
Commit(p, to, change) ==
  \/ change /\ pc' = [pc EXCEPT ![p] = to] /\ UNCHANGED verdict
  \/ change /\ Stop(p, "raised")
  \/ UNCHANGED registry /\ Stop(p, "raised")

\* _verify_candidate_import_history: every row has its exact evidence, the accepts agree
\* and come first, and what is stored is bound to the latest of them; in a Registry that
\* is about to be upgraded (historical) to any of them.
HistoryVerified(c, historical) ==
  LET H == History(c) IN
    /\ \A h \in H : evidence[HandoffId(h)] = At("formal", h)
    /\ \A g, h \in AcceptsOf(H) : g.content = h.content
    /\ \A h \in H : h.action = "withdraw" => \E g \in AcceptsOf(H) : g.revision < h.revision
    /\ content[c] # None =>
         \E g \in AcceptsOf(H) : /\ content[c] = g.content /\ source[c] = g
                                 /\ historical \/ g = Latest(AcceptsOf(H))
\* _validate_registry_schema_generation
GenerationMatches == generation = Cardinality(rows)

Create ==
  /\ schema' = "search" /\ generation' = 0 /\ bound' = 0
  /\ UNCHANGED <<rows, content, source, current, searchable>>

\* _rebuild_search_projection_v1, from what is current after the rebuild.
RebuildSearch == searchable' = {c \in Candidates :
  content[c] # None /\ current'[c] # None /\ current'[c].action = "accept"}

\* The search projection is added when a recorded Handoff is replayed.
Upgrade ==
  /\ schema' = "search" /\ bound' = generation
  /\ current' = [c \in Candidates |-> IF History(c) = {} THEN None ELSE Latest(History(c))]
  /\ source' = [c \in Candidates |->
       IF History(c) = {} THEN None ELSE Latest(AcceptsOf(History(c)))]
  /\ RebuildSearch
  /\ UNCHANGED <<generation, rows, content>>
\* _require_exact_projection_upgrade_replay_v1
Upgradable(h) ==
  /\ GenerationMatches
  /\ \A c \in Candidates : content[c] # None => HistoryVerified(c, TRUE)
  /\ h \in rows

\* _open_registry: a file that is not there is created empty, and stays when the
\* connection cannot be opened.
OpenRegistry(p) ==
  /\ pc[p] = "open"
  /\ \/ /\ schema' = IF schema = "none" THEN "empty" ELSE schema
        /\ \/ Goto(p, "open", "bootstrap") /\ UNCHANGED verdict
           \/ \E v \in {"registry_unavailable", "registry_busy", "registry_conflict"} : Stop(p, v)
     \/ UNCHANGED schema /\ Stop(p, "registry_unavailable")
  /\ UNCHANGED <<owner, evidence, generation, bound, rows, content, source, current,
                 searchable, handoff>>

\* _bootstrap_registry
Bootstrap(p) ==
  /\ pc[p] = "bootstrap"
  /\ \/ schema = "empty" /\ Commit(p, "transact", Create)
     \/ schema = "base" /\ Upgradable(handoff[p]) /\ Commit(p, "transact", Upgrade)
     \/ schema = "base" /\ ~Upgradable(handoff[p]) /\ Stop(p, "registry_conflict")
                        /\ UNCHANGED registry
     \/ schema = "search" /\ GenerationMatches /\ Goto(p, "bootstrap", "transact")
                          /\ UNCHANGED <<registry, verdict>>
     \/ schema = "search" /\ ~GenerationMatches /\ Stop(p, "registry_conflict")
                          /\ UNCHANGED registry
     \/ /\ \E v \in {"registry_busy", "registry_unavailable", "registry_conflict",
                     "commit_failed", "raised"} : Stop(p, v)
        /\ UNCHANGED registry
  /\ UNCHANGED <<owner, evidence, handoff>>

\* Mutant: a stale revision is not noticed.
ConflictIgnoresOrder(h) ==
  IF \E g \in rows : HandoffId(g) = HandoffId(h) /\ g # h THEN "revision_conflict"
  ELSE IF \E g \in History(h.candidate) : g.revision = h.revision THEN "revision_conflict"
  ELSE IF h.action = "withdraw"
    THEN IF content[h.candidate] = None THEN "revision_conflict" ELSE None
  ELSE IF content[h.candidate] \notin {None, h.content} THEN "registry_conflict"
  ELSE None

\* Why a Handoff that is not recorded yet cannot be.
Conflict(h) ==
  IF \E g \in rows : HandoffId(g) = HandoffId(h) /\ g # h THEN "revision_conflict"
  ELSE IF \E g \in History(h.candidate) : g.revision = h.revision THEN "revision_conflict"
  ELSE IF content[h.candidate] = None
    THEN IF h.action = "withdraw" THEN "revision_conflict" ELSE None
  ELSE IF h.action = "accept" /\ content[h.candidate] # h.content THEN "registry_conflict"
  ELSE IF h.revision <= Latest(History(h.candidate)).revision THEN "revision_conflict"
  ELSE None

\* A new row, with every projection that depends on it.
Insert(h) ==
  /\ rows' = rows \union {h}
  /\ generation' = generation + 1 /\ bound' = generation + 1
  /\ content' = IF h.action = "accept" THEN [content EXCEPT ![h.candidate] = h.content]
                                       ELSE content
  /\ Rebuild(h.candidate, History(h.candidate) \union {h})
  /\ UNCHANGED schema

\* An exact replay repairs the projections and records nothing.
Replay(h) ==
  /\ Rebuild(h.candidate, History(h.candidate)) /\ bound' = generation
  /\ UNCHANGED <<schema, generation, rows, content>>

\* _apply_accept_transaction and _apply_withdraw_transaction
Transact(p) ==
  /\ pc[p] = "transact"
  /\ LET h == handoff[p]
         readable == GenerationMatches /\ HistoryVerified(h.candidate, FALSE)
     IN
       \/ readable /\ h \in rows /\ Commit(p, "unchanged", Replay(h))
       \/ readable /\ h \notin rows /\ Conflict(h) # None /\ Stop(p, Conflict(h))
                   /\ UNCHANGED registry
       \/ readable /\ h \notin rows /\ Conflict(h) = None /\ Commit(p, "applied", Insert(h))
       \/ ~readable /\ Stop(p, "registry_conflict") /\ UNCHANGED registry
       \/ /\ \E v \in {"registry_busy", "registry_conflict", "commit_failed", "raised"} :
               Stop(p, v)
          /\ UNCHANGED registry
  /\ UNCHANGED <<owner, evidence, handoff>>

\* _verify_applied and the last look at the Data Root
Verify(p) ==
  /\ pc[p] \in Applied
  /\ \E v \in {pc[p], "raised", "data_root_integrity_lost"} : Stop(p, v)
  /\ UNCHANGED <<owner, evidence, registry, handoff>>

\* apply returns; closing the connection or the mutex may raise.  The caller
\* keeps the Handoff that an acknowledgement is about.
Return(p) ==
  /\ Goto(p, "close", "idle")
  /\ owner' = None
  /\ \/ verdict[p] \in Applied /\ UNCHANGED <<verdict, handoff>>
     \/ /\ \E v \in {verdict[p], "raised"} \ Applied : Decide(p, v)
        /\ handoff' = [handoff EXCEPT ![p] = None]
  /\ UNCHANGED <<evidence, registry>>

\* The process dies; SQLite rolls back, the kernel abandons the mutex.
Crash(p) ==
  /\ Goto(p, pc[p], "idle") /\ pc[p] \in HeldPcs
  /\ owner' = None
  /\ Decide(p, None)
  /\ handoff' = [handoff EXCEPT ![p] = None]
  /\ UNCHANGED <<evidence, registry>>

Next == \E p \in Callers :
  \/ Apply(p) \/ InspectEvidence(p) \/ MakeStage(p) \/ FillStage(p) \/ Promote(p)
  \/ OpenRegistry(p) \/ Bootstrap(p) \/ Transact(p) \/ Verify(p) \/ Return(p) \/ Crash(p)

Spec == Init /\ [][Next]_vars

-----------------------------------------------------------------------------

TypeOK ==
  /\ owner \in Callers \union {None}
  /\ evidence \in [Ids -> Evidence]
  /\ schema \in {"none", "empty", "base", "search"}
  /\ generation \in Nat /\ bound \in Nat \union {None}
  /\ rows \subseteq Handoffs
  /\ content \in [Candidates -> Contents \union {None}]
  /\ source \in [Candidates -> Accepts \union {None}]
  /\ current \in [Candidates -> Handoffs \union {None}]
  /\ searchable \subseteq Candidates
  /\ pc \in [Callers -> Pcs]
  /\ handoff \in [Callers -> Handoffs \union {None}]
  /\ verdict \in [Callers -> Verdicts \union {None}]

\* The Registry never locks itself out.  apply refuses, for good, a Registry whose
\* generation is not the number of its rows or a Candidate whose history does not verify
\* against the immutable evidence (ADR 0137).  Whatever crashes, unclear renames and
\* unclear commits happened on the way, no call leaves such a Registry behind, and what
\* retrieval looks for, a search projection bound to the present generation, is there.
RegistryStaysReadable ==
  /\ GenerationMatches
  /\ \A c \in Candidates : HistoryVerified(c, schema = "base")
  /\ bound = IF schema = "search" THEN generation ELSE None

\* Formal evidence is immutable: no retry, conflict or takeover after a crash
\* replaces or removes the files of a Handoff ID once they are published.
EvidenceIsImmutable ==
  [][\A i \in Ids : evidence[i].place = "formal" => evidence'[i] = evidence[i]]_vars

\* The inductive invariant: one caller is at work, it has a Handoff, and what it was
\* told is recorded.
MutexInv == \A p \in Callers : pc[p] # "idle" <=> owner = p
HandInv == \A p \in Callers :
  /\ pc[p] # "idle" => handoff[p] \in Handoffs
  /\ pc[p] \in HeldPcs \ {"close"} => verdict[p] \notin Applied
  /\ pc[p] \in Applied \/ verdict[p] \in Applied => handoff[p] \in rows
  /\ pc[p] = "bootstrap" => schema # "none"
  /\ pc[p] = "transact" => schema = "search"
\* Its evidence is where it left it, and that of every row is formal.
PlaceInv == \A p \in Callers :
  /\ pc[p] = "mkdir" => Evidenced(p) = Missing
  /\ pc[p] = "fill" => Evidenced(p) = Partial
  /\ pc[p] = "promote" => Evidenced(p) = At("staged", handoff[p])
  /\ pc[p] \in {"open", "bootstrap", "transact"} => Evidenced(p) = At("formal", handoff[p])
FormalInv == \A h \in rows : evidence[HandoffId(h)] = At("formal", h)
CountInv ==
  /\ IsFiniteSet(rows) /\ GenerationMatches
  /\ bound = IF schema = "search" THEN generation ELSE None
  /\ schema \in {"none", "empty"} => rows = {}
\* The history of a Candidate and what is stored of it; exact: content is bound to the
\* latest accept.
SoundHistory(H, stored, from, now, exact) ==
  /\ \A g, h \in H : g.revision = h.revision => g = h
  /\ H = {} <=> stored = None
  /\ H # {} =>
       /\ now \in H /\ \A g \in H : g.revision <= now.revision
       /\ from \in AcceptsOf(H)
       /\ \A g \in AcceptsOf(H) : g.content = stored
       /\ \A h \in H : h.action = "withdraw" => \E g \in AcceptsOf(H) : g.revision < h.revision
       /\ \E last \in AcceptsOf(H) :
            (\A g \in AcceptsOf(H) : g.revision <= last.revision) /\ (exact => from = last)
HistoryInv == \A c \in Candidates :
  SoundHistory(History(c), content[c], source[c], current[c], schema = "search")
IInv == TypeOK /\ MutexInv /\ HandInv /\ PlaceInv /\ FormalInv /\ CountInv /\ HistoryInv

\* apply with its evidence, crashes and unclear commits implements the Registry
\* that Literature relies on.
Registry == INSTANCE KnowledgeRegistry WITH
  recorded <- rows,
  answers <- [p \in Callers |-> IF verdict[p] \in Applied THEN handoff[p] ELSE None]
ImplementsRegistry == Registry!RegistrySpec

\* A call that ended leaves evidence that a replay of the same Handoff can use.
EvidenceIsReusable ==
  \A i \in Ids : (\A p \in Callers : pc[p] = "idle") => evidence[i] # Partial

=============================================================================
