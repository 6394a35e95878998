----------------------- MODULE KnowledgeIntakeProofs -----------------------
(***************************************************************************)
(* Proofs about KnowledgeIntake, and about the reads of KnowledgeRead, for *)
(* any Candidates, revisions, contents and callers.                        *)
(***************************************************************************)
EXTENDS KnowledgeRead, FiniteSetTheorems, TLAPS

(************************* histories as plain sets *************************)

\* A history with pairwise different revisions has one latest Handoff.
LEMMA LatestIs ==
  ASSUME NEW S, NEW last \in S, S \subseteq Handoffs,
         \A g, h \in S : g.revision = h.revision => g = h,
         \A g \in S : g.revision <= last.revision
  PROVE  Latest(S) = last
<1>1. \A g \in S : g.revision \in Nat
  BY IntakeAssumption DEF Handoffs, Accepts, Withdraws
<1>2. \E l \in S : \A g \in S : g.revision <= l.revision
  OBVIOUS
<1>3. Latest(S) \in S /\ \A g \in S : g.revision <= Latest(S).revision
  BY <1>2 DEF Latest
<1>4. Latest(S).revision <= last.revision /\ last.revision <= Latest(S).revision
  BY <1>3
<1>5. Latest(S).revision = last.revision
  BY <1>1, <1>3, <1>4
<1> QED BY <1>3, <1>5

\* A sound history, projected again, is sound and bound to its latest accept.
LEMMA RebuiltIsSound ==
  ASSUME NEW H, H \subseteq Handoffs, H # {}, NEW stored, NEW from, NEW now, NEW exact,
         SoundHistory(H, stored, from, now, exact)
  PROVE  /\ SoundHistory(H, stored, Latest(AcceptsOf(H)), Latest(H), TRUE)
         /\ Latest(H) \in H /\ Latest(AcceptsOf(H)) \in AcceptsOf(H)
         /\ (exact => from = Latest(AcceptsOf(H)))
<1>1. Latest(H) = now
  BY LatestIs DEF SoundHistory
<1>2. PICK last \in AcceptsOf(H) :
        (\A g \in AcceptsOf(H) : g.revision <= last.revision) /\ (exact => from = last)
  BY DEF SoundHistory
<1>3. AcceptsOf(H) \subseteq H
  BY DEF AcceptsOf
<1>4. \A g, h \in AcceptsOf(H) : g.revision = h.revision => g = h
  BY <1>3 DEF SoundHistory
<1>5. Latest(AcceptsOf(H)) = last
  BY <1>2, <1>3, <1>4, LatestIs
<1> QED BY <1>1, <1>2, <1>5 DEF SoundHistory

\* What the transactions accept as the next Handoff of a history.
Follows(h, H, stored) ==
  /\ \A g \in H : g.revision < h.revision
  /\ h.action = "accept" => stored \in {None, h.content}
  /\ h.action = "withdraw" => stored # None

\* A sound history stays sound when the next Handoff is recorded.
LEMMA ExtendedIsSound ==
  ASSUME NEW H, H \subseteq Handoffs, NEW stored, NEW from, NEW now, NEW exact,
         SoundHistory(H, stored, from, now, exact),
         NEW h \in Handoffs, Follows(h, H, stored)
  PROVE  LET new == IF h.action = "accept" THEN h.content ELSE stored IN
           /\ SoundHistory(H \union {h}, new, Latest(AcceptsOf(H \union {h})),
                           Latest(H \union {h}), TRUE)
           /\ Latest(H \union {h}) \in Handoffs
           /\ Latest(AcceptsOf(H \union {h})) \in Accepts
<1> DEFINE G == H \union {h}
           new == IF h.action = "accept" THEN h.content ELSE stored
<1>1. \A g \in G : g.revision \in Nat
  BY IntakeAssumption DEF Handoffs, Accepts, Withdraws
<1>2. \A g, k \in G : g.revision = k.revision => g = k
  <2>1. \A g, k \in H : g.revision = k.revision => g = k
    BY DEF SoundHistory
  <2>2. \A g \in H : g.revision # h.revision
    BY <1>1 DEF Follows
  <2> QED BY <2>1, <2>2
<1>3. \A g \in G : g.revision <= h.revision
  BY <1>1 DEF Follows
<1>4. h.action = "accept" => h.content # None
  BY IntakeAssumption DEF Handoffs, Accepts, Withdraws
<1>5. h.action \in {"accept", "withdraw"}
  BY DEF Handoffs, Accepts, Withdraws
<1>6. h.action = "withdraw" => H # {}
  BY DEF Follows, SoundHistory
<1>7. \A g \in AcceptsOf(G) : g.content = new
  BY <1>5 DEF AcceptsOf, SoundHistory, Follows
<1>8. PICK last \in AcceptsOf(G) : \A g \in AcceptsOf(G) : g.revision <= last.revision
  <2>1. CASE h.action = "accept"
    BY <2>1, <1>3 DEF AcceptsOf
  <2>2. CASE h.action = "withdraw"
    BY <2>2, <1>6 DEF AcceptsOf, SoundHistory
  <2> QED BY <1>5, <2>1, <2>2
<1>9. \A g \in G : g.action = "withdraw" => \E k \in AcceptsOf(G) : k.revision < g.revision
  <2>1. AcceptsOf(H) \subseteq AcceptsOf(G) /\ AcceptsOf(H) \subseteq H
    BY DEF AcceptsOf
  <2>2. CASE h.action = "accept"
    BY <2>1, <2>2 DEF SoundHistory
  <2>3. CASE h.action = "withdraw"
    <3>1. PICK k \in AcceptsOf(H) : TRUE
      BY <1>6, <2>3 DEF SoundHistory
    <3>2. k.revision < h.revision
      BY <2>1 DEF Follows
    <3> QED BY <2>1, <3>1, <3>2 DEF SoundHistory
  <2> QED BY <1>5, <2>2, <2>3
<1>10. SoundHistory(G, new, last, h, TRUE)
  <2>1. new # None
    BY <1>4, <1>5 DEF Follows
  <2> QED BY <1>2, <1>3, <1>7, <1>8, <1>9, <2>1 DEF SoundHistory
<1>11. G \subseteq Handoffs /\ G # {}
  OBVIOUS
<1>12. /\ SoundHistory(G, new, Latest(AcceptsOf(G)), Latest(G), TRUE)
       /\ Latest(G) \in G /\ Latest(AcceptsOf(G)) \in AcceptsOf(G)
  <2> HIDE DEF G, new
  <2> QED BY <1>10, <1>11, RebuiltIsSound
<1>13. AcceptsOf(G) \subseteq Accepts
  BY <1>11 DEF AcceptsOf, Handoffs, Accepts, Withdraws
<1> QED BY <1>11, <1>12, <1>13

(****************************** small facts ******************************)

\* IDs and evidence are what the variables may hold, and the four kinds of
\* evidence differ.
LEMMA EvidenceFacts ==
  /\ \A h \in Handoffs : HandoffId(h) \in Ids
  /\ Missing \in Evidence /\ Partial \in Evidence
  /\ \A h \in Handoffs : At("staged", h) \in Evidence /\ At("formal", h) \in Evidence
  /\ Missing.place = "missing" /\ Partial.place = "partial"
  /\ \A h : /\ At("staged", h).place = "staged" /\ At("staged", h).bytes = h
           /\ At("formal", h).place = "formal" /\ At("formal", h).bytes = h
<1>1. \A h \in Handoffs : HandoffId(h) \in Ids
  BY DEF Handoffs, Accepts, Withdraws, HandoffId, Ids
<1>2. \A h \in Handoffs : At("staged", h) \in Evidence /\ At("formal", h) \in Evidence
  BY DEF At, Evidence
<1> QED BY <1>1, <1>2 DEF Evidence, Missing, Partial, At

\* While a caller is at work, the others are idle.
LEMMA OthersIdle ==
  ASSUME MutexInv, NEW p \in Callers, pc[p] # "idle"
  PROVE  owner = p /\ \A q \in Callers \ {p} : pc[q] = "idle"
BY DEF MutexInv

\* A Handoff whose evidence is not formal is not in the Registry.
LEMMA OnlyFormalIsRecorded ==
  ASSUME FormalInv, NEW p \in Callers, Evidenced(p).place # "formal"
  PROVE  \A h \in rows : HandoffId(h) # HandoffId(handoff[p])
BY EvidenceFacts DEF FormalInv, Evidenced

\* What is said of the Registry stays true while nobody writes to it.
LEMMA RegistryKept ==
  ASSUME CountInv, HistoryInv, UNCHANGED registry
  PROVE  CountInv' /\ HistoryInv'
<1>1. \A c \in Candidates : History(c)' = History(c)
  BY DEF registry, History
<1>2. HistoryInv'
  BY <1>1 DEF registry, HistoryInv
<1> QED BY <1>2 DEF registry, CountInv, GenerationMatches

\* Writing evidence that was not formal leaves that of every row alone.
LEMMA FormalKept ==
  ASSUME TypeOK, FormalInv, NEW p \in Callers, handoff[p] \in Handoffs,
         Evidenced(p).place # "formal", UNCHANGED rows,
         NEW e, SetEvidence(p, e) \/ UNCHANGED evidence
  PROVE  FormalInv'
<1>1. \A h \in rows : HandoffId(h) # HandoffId(handoff[p])
  BY OnlyFormalIsRecorded
<1>2. rows \subseteq Handoffs /\ evidence \in [Ids -> Evidence]
  BY DEF TypeOK
<1> QED BY <1>1, <1>2, EvidenceFacts DEF FormalInv, SetEvidence

(****************************** the invariant ******************************)

\* A new Registry and one of an earlier release are sound.
LEMMA InitIInv == Init => IInv
<1> SUFFICES ASSUME Init PROVE IInv
  OBVIOUS
<1>1. MutexInv /\ PlaceInv /\ HandInv
  BY IntakeAssumption DEF Init, MutexInv, PlaceInv, HandInv, HeldPcs, Applied, Verdicts
<1>2. CASE New
  <2>1. \A c \in Candidates : History(c) = {}
    BY <1>2 DEF New, History
  <2>2. HistoryInv
    BY <1>2, <2>1 DEF New, HistoryInv, SoundHistory
  <2>3. CountInv
    BY <1>2, FS_EmptySet DEF New, CountInv, GenerationMatches
  <2>4. TypeOK
    BY <1>2, EvidenceFacts DEF Init, New, TypeOK, Pcs
  <2> QED BY <1>1, <1>2, <2>2, <2>3, <2>4 DEF IInv, New, FormalInv
<1>3. CASE \E H \in Earlier : Legacy(H)
  <2>1. PICK H \in Earlier : Legacy(H)
    BY <1>3
  <2>2. PICK last \in H :
          /\ \A g \in H : g.candidate = last.candidate /\ g.content = last.content
                         /\ g.revision <= last.revision
          /\ \A g, h \in H : g.revision = h.revision => g = h
    BY DEF Earlier
  <2>3. H \subseteq Accepts /\ H \subseteq Handoffs /\ rows = H /\ IsFiniteSet(H)
    BY <2>1 DEF Earlier, Legacy, Handoffs
  <2>4. \A c \in Candidates : History(c) = IF c = last.candidate THEN H ELSE {}
    BY <2>2, <2>3 DEF History
  <2>5. Latest(H) = last
    BY <2>2, <2>3, LatestIs
  <2>6. AcceptsOf(H) = H /\ last.content \in Contents /\ last.content # None
    BY <2>3, IntakeAssumption DEF AcceptsOf, Accepts
  <2>7. PICK first \in H :
          source = [c \in Candidates |-> IF History(c) = {} THEN None ELSE first]
    BY <2>1 DEF Legacy
  <2>8. HistoryInv
    <3> SUFFICES ASSUME NEW c \in Candidates
                 PROVE  SoundHistory(History(c), content[c], source[c], current[c],
                                     schema = "search")
      BY DEF HistoryInv
    <3>1. CASE c = last.candidate
      <4>1. History(c) = H /\ H # {}
        BY <2>4, <3>1
      <4>2. content[c] = last.content /\ source[c] = first /\ current[c] = last
        BY <2>1, <2>5, <2>7, <4>1 DEF Legacy
      <4>3. schema # "search"
        BY <2>1 DEF Legacy
      <4>4. \A h \in H : h.action = "accept"
        BY <2>3 DEF Accepts
      <4>5. SoundHistory(H, last.content, first, last, schema = "search")
        BY <2>2, <2>6, <4>1, <4>3, <4>4 DEF SoundHistory
      <4> QED BY <4>1, <4>2, <4>5
    <3>2. CASE c # last.candidate
      BY <2>1, <2>4, <3>2 DEF Legacy, SoundHistory
    <3> QED BY <3>1, <3>2
  <2>9. CountInv
    BY <2>1, <2>3 DEF Legacy, CountInv, GenerationMatches
  <2>10. FormalInv
    <3> SUFFICES ASSUME NEW h \in H PROVE evidence[HandoffId(h)] = At("formal", h)
      BY <2>3 DEF FormalInv
    <3>1. \A g \in H : HandoffId(g) = HandoffId(h) => g = h
      BY <2>2 DEF HandoffId
    <3>2. (CHOOSE g \in H : HandoffId(g) = HandoffId(h)) = h
      BY <3>1
    <3> QED BY <2>1, <2>3, <3>2, EvidenceFacts DEF Legacy
  <2>11. TypeOK
    <3>1. evidence \in [Ids -> Evidence]
      <4>1. \A i \in Ids : (\E h \in H : HandoffId(h) = i) =>
               (CHOOSE h \in H : HandoffId(h) = i) \in Handoffs
        BY <2>3
      <4> QED BY <2>1, <4>1, EvidenceFacts DEF Legacy
    <3>2. generation \in Nat /\ bound = None
      BY <2>1, <2>3, FS_CardinalityType DEF Legacy
    <3>3. current \in [Candidates -> Handoffs \union {None}]
      BY <2>1, <2>3, <2>4, <2>5 DEF Legacy
    <3>4. content \in [Candidates -> Contents \union {None}]
      BY <2>1, <2>4, <2>5, <2>6 DEF Legacy
    <3>5. source \in [Candidates -> Accepts \union {None}]
      BY <2>3, <2>7
    <3>6. rows \subseteq Handoffs /\ schema = "base"
      BY <2>1, <2>3 DEF Legacy
    <3> QED BY <3>1, <3>2, <3>3, <3>4, <3>5, <3>6 DEF Init, TypeOK, Pcs
  <2> QED BY <1>1, <2>8, <2>9, <2>10, <2>11 DEF IInv
<1> QED BY <1>2, <1>3 DEF Init

\* The steps before and after the Registry: who they are for stays at work or leaves,
\* and the evidence is written only where nothing formal was.
FrontPcs == {"evidence", "mkdir", "fill", "promote", "open"}
LEMMA FrontKeeps ==
  ASSUME IInv, NEW p \in Callers, pc[p] \in HeldPcs,
         UNCHANGED <<owner, registry, handoff>>,
         NEW to \in FrontPcs \union {"close"}, NEW v \in Verdicts \union {None}, NEW e \in Evidence,
         pc' = [pc EXCEPT ![p] = to], verdict' = [verdict EXCEPT ![p] = v],
         to # "close" => v \notin Applied,
         v \in Applied => handoff[p] \in rows,
         SetEvidence(p, e) \/ (UNCHANGED evidence /\ e = Evidenced(p)),
         Evidenced(p).place = "formal" => e = Evidenced(p),
         to = "mkdir" => e = Missing,
         to = "fill" => e = Partial,
         to = "promote" => e = At("staged", handoff[p]),
         to = "open" => e = At("formal", handoff[p])
  PROVE  IInv'
<1> USE DEF IInv
<1>1. CountInv' /\ HistoryInv'
  BY RegistryKept
<1>2. handoff[p] \in Handoffs /\ HandoffId(handoff[p]) \in Ids /\ pc[p] # "idle"
  BY EvidenceFacts DEF HandInv, HeldPcs
<1>3. evidence' \in [Ids -> Evidence] /\ Evidenced(p)' = e
  BY <1>2 DEF TypeOK, SetEvidence, Evidenced
<1>4. TypeOK'
  <2>1. pc' \in [Callers -> Pcs]
    BY DEF TypeOK, Pcs, HeldPcs, FrontPcs
  <2>2. verdict' \in [Callers -> Verdicts \union {None}]
    BY DEF TypeOK
  <2> QED BY <1>3, <2>1, <2>2 DEF TypeOK, registry
<1>5. to # "idle" /\ to \notin Applied \union {"bootstrap", "transact"}
  BY DEF FrontPcs, Applied
<1>6. \A q \in Callers \ {p} : pc[q] = "idle" /\ pc'[q] = "idle" /\ verdict'[q] = verdict[q]
  BY <1>2, OthersIdle DEF TypeOK
<1>7. pc'[p] = to /\ verdict'[p] = v
  BY DEF TypeOK
<1>8. MutexInv'
  BY <1>2, <1>5, <1>6, <1>7, OthersIdle DEF MutexInv
<1>9. HandInv'
  <2>1. \A q \in Callers \ {p} : verdict[q] \in Applied => handoff[q] \in rows
    BY DEF HandInv
  <2>2. "idle" \notin HeldPcs /\ "idle" \notin Applied
    BY DEF HeldPcs, Applied
  <2> QED BY <1>2, <1>5, <1>6, <1>7, <2>1, <2>2 DEF HandInv, registry
<1>10. PlaceInv'
  BY <1>3, <1>5, <1>6, <1>7 DEF PlaceInv
<1>11. FormalInv'
  <2>1. CASE Evidenced(p).place # "formal"
    BY <1>2, <2>1, FormalKept DEF registry
  <2>2. CASE Evidenced(p).place = "formal"
    <3>1. evidence' = evidence
      BY <1>2, <2>2 DEF SetEvidence, Evidenced, TypeOK
    <3> QED BY <3>1 DEF FormalInv, registry
  <2> QED BY <2>1, <2>2
<1> QED BY <1>1, <1>4, <1>8, <1>9, <1>10, <1>11

LEMMA ApplyStep == ASSUME IInv, NEW p \in Callers, Apply(p) PROVE IInv'
<1> USE DEF IInv
<1>1. CountInv' /\ HistoryInv' /\ FormalInv'
  BY RegistryKept DEF Apply, FormalInv, registry
<1>2. pc[p] = "idle" /\ owner # p
  BY DEF Apply, MutexInv
<1>3. None \notin Applied /\ None \in Verdicts \union {None}
  BY IntakeAssumption DEF Verdicts
<1>4. CASE \E h \in Handoffs : /\ owner = None /\ owner' = p
                              /\ handoff' = [handoff EXCEPT ![p] = h]
                              /\ pc' = [pc EXCEPT ![p] = "evidence"]
                              /\ verdict' = [verdict EXCEPT ![p] = None]
  <2>1. PICK h \in Handoffs : /\ owner = None /\ owner' = p
                              /\ handoff' = [handoff EXCEPT ![p] = h]
                              /\ pc' = [pc EXCEPT ![p] = "evidence"]
                              /\ verdict' = [verdict EXCEPT ![p] = None]
    BY <1>4
  <2>2. \A q \in Callers : pc[q] = "idle"
    BY <2>1, IntakeAssumption DEF MutexInv
  <2>3. TypeOK'
    BY <2>1 DEF TypeOK, Apply, registry, Pcs, HeldPcs
  <2>4. MutexInv'
    BY <2>1, <2>2 DEF MutexInv, TypeOK
  <2>5. HandInv'
    BY <1>3, <2>1, <2>2 DEF HandInv, Apply, registry, TypeOK, Applied, HeldPcs
  <2>6. PlaceInv'
    BY <2>1, <2>2 DEF PlaceInv, TypeOK
  <2> QED BY <1>1, <2>3, <2>4, <2>5, <2>6
<1>5. CASE \E v \in {"registry_busy", "import_failed", "data_root_blocked", "raised"} :
             /\ verdict' = [verdict EXCEPT ![p] = v]
             /\ handoff' = [handoff EXCEPT ![p] = None] /\ UNCHANGED <<owner, pc>>
  <2>1. PICK v \in {"registry_busy", "import_failed", "data_root_blocked", "raised"} :
             /\ verdict' = [verdict EXCEPT ![p] = v]
             /\ handoff' = [handoff EXCEPT ![p] = None] /\ UNCHANGED <<owner, pc>>
    BY <1>5
  <2>2. v \notin Applied /\ v \in Verdicts
    BY DEF Applied, Verdicts, Blocked, Failed
  <2>3. TypeOK'
    BY <2>1, <2>2 DEF TypeOK, Apply, registry
  <2>4. MutexInv'
    BY <2>1 DEF MutexInv
  <2>5. HandInv'
    BY <1>2, <2>1, <2>2 DEF HandInv, Apply, registry, TypeOK, Applied, HeldPcs
  <2>6. PlaceInv'
    BY <1>2, <2>1 DEF PlaceInv, TypeOK, Apply, Evidenced
  <2> QED BY <1>1, <2>3, <2>4, <2>5, <2>6
<1> QED BY <1>4, <1>5 DEF Apply, Goto, Decide

LEMMA InspectStep == ASSUME IInv, NEW p \in Callers, InspectEvidence(p) PROVE IInv'
<1> DEFINE e == Evidenced(p)
<1>1. pc[p] = "evidence" /\ pc[p] \in HeldPcs /\ e \in Evidence
  BY EvidenceFacts DEF InspectEvidence, HeldPcs, IInv, TypeOK, HandInv, Evidenced
<1>2. verdict[p] \notin Applied /\ verdict = [verdict EXCEPT ![p] = verdict[p]]
      /\ verdict[p] \in Verdicts \union {None}
  BY <1>1 DEF IInv, HandInv, HeldPcs, TypeOK
<1>3. UNCHANGED <<owner, evidence, registry, handoff>>
  BY DEF InspectEvidence
<1>4. CASE \E v \in Verdicts \ Applied : Stop(p, v)
  <2>1. PICK v \in Verdicts \ Applied : Stop(p, v)
    BY <1>4
  <2> QED BY <1>1, <1>3, <2>1, FrontKeeps DEF Stop, Decide
<1>5. CASE \E to \in {"open", "promote", "mkdir"} :
             /\ Goto(p, "evidence", to) /\ UNCHANGED verdict
             /\ to = "open" => e = At("formal", handoff[p])
             /\ to = "promote" => e = At("staged", handoff[p])
             /\ to = "mkdir" => e = Missing
  <2>1. PICK to \in {"open", "promote", "mkdir"} :
             /\ Goto(p, "evidence", to) /\ UNCHANGED verdict
             /\ to = "open" => e = At("formal", handoff[p])
             /\ to = "promote" => e = At("staged", handoff[p])
             /\ to = "mkdir" => e = Missing
    BY <1>5
  <2>2. to \in FrontPcs
    BY DEF FrontPcs
  <2>3. to # "close" /\ to # "fill"
    OBVIOUS
  <2> QED BY <1>1, <1>2, <1>3, <2>1, <2>2, <2>3, FrontKeeps DEF Goto
<1>6. {"revision_conflict", "import_failed", "raised", "commit_failed",
       "data_root_integrity_lost"} \subseteq Verdicts \ Applied
  BY DEF Verdicts, Failed, Blocked, Applied
<1> QED BY <1>4, <1>5, <1>6 DEF InspectEvidence

LEMMA MakeStep == ASSUME IInv, NEW p \in Callers, MakeStage(p) PROVE IInv'
<1>1. pc[p] = "mkdir" /\ pc[p] \in HeldPcs /\ Evidenced(p) = Missing
  BY DEF MakeStage, HeldPcs, IInv, PlaceInv
<1>2. verdict[p] \notin Applied /\ verdict = [verdict EXCEPT ![p] = verdict[p]]
      /\ verdict[p] \in Verdicts \union {None}
  BY <1>1 DEF IInv, HandInv, HeldPcs, TypeOK
<1>3. "import_failed" \in Verdicts \ Applied /\ "fill" \in FrontPcs
  BY DEF Verdicts, Failed, Applied, FrontPcs
<1>4. UNCHANGED <<owner, registry, handoff>>
  BY DEF MakeStage
<1>5. CASE SetEvidence(p, Partial) /\ Goto(p, "mkdir", "fill") /\ UNCHANGED verdict
  BY <1>1, <1>2, <1>3, <1>4, <1>5, EvidenceFacts, FrontKeeps DEF Goto
<1>6. CASE SetEvidence(p, Partial) /\ Stop(p, "import_failed")
  BY <1>1, <1>3, <1>4, <1>6, EvidenceFacts, FrontKeeps DEF Stop, Decide
<1>7. CASE UNCHANGED evidence /\ Stop(p, "import_failed")
  BY <1>1, <1>3, <1>4, <1>7, EvidenceFacts, FrontKeeps DEF Stop, Decide
<1> QED BY <1>5, <1>6, <1>7 DEF MakeStage

LEMMA FillStep == ASSUME IInv, NEW p \in Callers, FillStage(p) PROVE IInv'
<1> DEFINE whole == At("staged", handoff[p])
<1>1. pc[p] = "fill" /\ pc[p] \in HeldPcs /\ Evidenced(p) = Partial
  BY DEF FillStage, HeldPcs, IInv, PlaceInv
<1>2. verdict[p] \notin Applied /\ verdict = [verdict EXCEPT ![p] = verdict[p]]
      /\ verdict[p] \in Verdicts \union {None}
  BY <1>1 DEF IInv, HandInv, HeldPcs, TypeOK
<1>3. {"import_failed", "commit_failed", "raised"} \subseteq Verdicts \ Applied
      /\ "promote" \in FrontPcs
  BY DEF Verdicts, Failed, Applied, FrontPcs
<1>4. UNCHANGED <<owner, registry, handoff>>
  BY DEF FillStage
<1>5. whole \in Evidence /\ Partial \in Evidence
  BY <1>1, EvidenceFacts DEF IInv, HandInv
<1>6. CASE SetEvidence(p, whole) /\ Goto(p, "fill", "promote") /\ UNCHANGED verdict
  BY <1>1, <1>2, <1>3, <1>4, <1>5, <1>6, EvidenceFacts, FrontKeeps DEF Goto
<1>7. CASE \E v \in {"import_failed", "commit_failed", "raised"} :
             Stop(p, v) /\ (SetEvidence(p, whole) \/ UNCHANGED evidence)
  <2>1. PICK v \in {"import_failed", "commit_failed", "raised"} :
             Stop(p, v) /\ (SetEvidence(p, whole) \/ UNCHANGED evidence)
    BY <1>7
  <2>2. CASE SetEvidence(p, whole)
    BY <1>1, <1>3, <1>4, <1>5, <2>1, <2>2, EvidenceFacts, FrontKeeps DEF Stop, Decide
  <2>3. CASE UNCHANGED evidence
    BY <1>1, <1>3, <1>4, <1>5, <2>1, <2>3, EvidenceFacts, FrontKeeps DEF Stop, Decide
  <2> QED BY <2>1, <2>2, <2>3
<1> QED BY <1>6, <1>7 DEF FillStage

LEMMA PromoteStep == ASSUME IInv, NEW p \in Callers, Promote(p) PROVE IInv'
<1> DEFINE formal == At("formal", handoff[p])
<1>1. pc[p] = "promote" /\ pc[p] \in HeldPcs /\ Evidenced(p) = At("staged", handoff[p])
  BY DEF Promote, HeldPcs, IInv, PlaceInv
<1>2. verdict[p] \notin Applied /\ verdict = [verdict EXCEPT ![p] = verdict[p]]
      /\ verdict[p] \in Verdicts \union {None}
  BY <1>1 DEF IInv, HandInv, HeldPcs, TypeOK
<1>3. {"import_failed", "data_root_integrity_lost", "raised"} \subseteq Verdicts \ Applied
      /\ "open" \in FrontPcs
  BY DEF Verdicts, Failed, Applied, FrontPcs
<1>4. UNCHANGED <<owner, registry, handoff>>
  BY DEF Promote
<1>5. formal \in Evidence /\ Evidenced(p) \in Evidence /\ Evidenced(p).place = "staged"
  BY <1>1, EvidenceFacts DEF IInv, HandInv
<1>6. CASE SetEvidence(p, formal) /\ Goto(p, "promote", "open") /\ UNCHANGED verdict
  BY <1>1, <1>2, <1>3, <1>4, <1>5, <1>6, FrontKeeps DEF Goto
<1>7. CASE \E v \in {"import_failed", "data_root_integrity_lost", "raised"} :
             Stop(p, v) /\ (SetEvidence(p, formal) \/ UNCHANGED evidence)
  <2>1. PICK v \in {"import_failed", "data_root_integrity_lost", "raised"} :
             Stop(p, v) /\ (SetEvidence(p, formal) \/ UNCHANGED evidence)
    BY <1>7
  <2>2. CASE SetEvidence(p, formal)
    BY <1>1, <1>3, <1>4, <1>5, <2>1, <2>2, FrontKeeps DEF Stop, Decide
  <2>3. CASE UNCHANGED evidence
    BY <1>1, <1>3, <1>4, <1>5, <2>1, <2>3, FrontKeeps DEF Stop, Decide
  <2> QED BY <2>1, <2>2, <2>3
<1> QED BY <1>6, <1>7 DEF Promote

LEMMA VerifyStep == ASSUME IInv, NEW p \in Callers, Verify(p) PROVE IInv'
<1>1. pc[p] \in Applied /\ pc[p] \in HeldPcs /\ handoff[p] \in rows
  BY DEF Verify, HeldPcs, Applied, IInv, HandInv
<1>2. Evidenced(p) \in Evidence
  BY <1>1, EvidenceFacts DEF IInv, HandInv, TypeOK, Evidenced
<1>3. PICK v \in {pc[p], "raised", "data_root_integrity_lost"} : Stop(p, v)
  BY DEF Verify
<1>4. v \in Verdicts
  BY <1>1 DEF Verdicts, Applied, Failed
<1> QED BY <1>1, <1>2, <1>3, <1>4, FrontKeeps DEF Verify, Stop, Decide

\* Leaving: by returning or by dying.
LEMMA LeavingKeeps ==
  ASSUME IInv, NEW p \in Callers, pc[p] \in HeldPcs,
         UNCHANGED <<evidence, registry>>, owner' = None, pc' = [pc EXCEPT ![p] = "idle"],
         NEW v \in Verdicts \union {None}, verdict' = [verdict EXCEPT ![p] = v],
         NEW h \in Handoffs \union {None}, handoff' = [handoff EXCEPT ![p] = h],
         v \in Applied => h \in rows
  PROVE  IInv'
<1> USE DEF IInv
<1>1. CountInv' /\ HistoryInv' /\ FormalInv'
  BY RegistryKept DEF FormalInv, registry
<1>2. pc[p] # "idle"
  BY DEF HeldPcs
<1>3. \A q \in Callers \ {p} : /\ pc'[q] = "idle" /\ verdict'[q] = verdict[q]
                               /\ handoff'[q] = handoff[q]
  BY <1>2, OthersIdle DEF TypeOK
<1>4. pc'[p] = "idle" /\ verdict'[p] = v /\ handoff'[p] = h
  BY DEF TypeOK
<1>5. TypeOK'
  BY DEF TypeOK, registry, Pcs
<1>6. MutexInv'
  BY <1>3, <1>4, IntakeAssumption DEF MutexInv
<1>7. HandInv'
  <2>1. \A q \in Callers \ {p} : verdict[q] \in Applied => handoff[q] \in rows
    BY DEF HandInv
  <2> QED BY <1>3, <1>4, <2>1 DEF HandInv, registry, HeldPcs, Applied
<1>8. PlaceInv'
  BY <1>3, <1>4 DEF PlaceInv
<1> QED BY <1>1, <1>5, <1>6, <1>7, <1>8

LEMMA ReturnStep == ASSUME IInv, NEW p \in Callers, Return(p) PROVE IInv'
<1>1. /\ pc[p] \in HeldPcs /\ pc' = [pc EXCEPT ![p] = "idle"] /\ owner' = None
      /\ UNCHANGED <<evidence, registry>>
  BY DEF Return, Goto, HeldPcs
<1>2. CASE verdict[p] \in Applied /\ UNCHANGED <<verdict, handoff>>
  <2>1. /\ verdict' = [verdict EXCEPT ![p] = verdict[p]]
        /\ handoff' = [handoff EXCEPT ![p] = handoff[p]]
    BY <1>2 DEF IInv, TypeOK
  <2>2. verdict[p] \in Verdicts /\ handoff[p] \in Handoffs /\ handoff[p] \in rows
    BY <1>2 DEF IInv, HandInv, TypeOK, Verdicts
  <2> QED BY <1>1, <2>1, <2>2, LeavingKeeps
<1>3. CASE /\ \E v \in {verdict[p], "raised"} \ Applied : Decide(p, v)
           /\ handoff' = [handoff EXCEPT ![p] = None]
  <2>1. PICK v \in {verdict[p], "raised"} \ Applied : Decide(p, v)
    BY <1>3
  <2>2. v \in Verdicts \union {None}
    BY DEF IInv, TypeOK, Verdicts
  <2> QED BY <1>1, <1>3, <2>1, <2>2, LeavingKeeps DEF Decide
<1> QED BY <1>2, <1>3 DEF Return

LEMMA CrashStep == ASSUME IInv, NEW p \in Callers, Crash(p) PROVE IInv'
<1>1. None \notin Applied
  BY IntakeAssumption DEF Verdicts
<1> QED BY <1>1, LeavingKeeps DEF Crash, Goto, Decide

(************************ the steps in the Registry ************************)

RegistryTypes ==
  /\ schema \in {"none", "empty", "base", "search"}
  /\ generation \in Nat /\ bound \in Nat \union {None}
  /\ rows \subseteq Handoffs
  /\ content \in [Candidates -> Contents \union {None}]
  /\ source \in [Candidates -> Accepts \union {None}]
  /\ current \in [Candidates -> Handoffs \union {None}]
  /\ searchable \subseteq Candidates

\* A step in the Registry that leaves the Registry sound.
LEMMA BackKeeps ==
  ASSUME IInv, NEW p \in Callers, pc[p] \in {"open", "bootstrap", "transact"},
         UNCHANGED <<owner, evidence, handoff>>,
         NEW to \in {"bootstrap", "transact", "applied", "unchanged", "close"},
         NEW v \in (Verdicts \union {None}) \ Applied,
         pc' = [pc EXCEPT ![p] = to], verdict' = [verdict EXCEPT ![p] = v],
         RegistryTypes', CountInv', HistoryInv',
         rows' \subseteq rows \union {handoff[p]}, rows \subseteq rows',
         to = "bootstrap" => schema' # "none",
         to = "transact" => schema' = "search",
         to \in Applied => handoff[p] \in rows'
  PROVE  IInv'
<1> USE DEF IInv
<1>1. pc[p] # "idle" /\ pc[p] \in HeldPcs
  BY DEF HeldPcs
<1>2. \A q \in Callers \ {p} : pc[q] = "idle" /\ pc'[q] = "idle" /\ verdict'[q] = verdict[q]
  BY <1>1, OthersIdle DEF TypeOK
<1>3. pc'[p] = to /\ verdict'[p] = v
  BY DEF TypeOK
<1>4. TypeOK'
  BY DEF TypeOK, RegistryTypes, Pcs, HeldPcs
<1>5. MutexInv'
  BY <1>1, <1>2, <1>3 DEF MutexInv
<1>6. HandInv'
  BY <1>1, <1>2, <1>3 DEF HandInv, HeldPcs, Applied
<1>7. Evidenced(p) = At("formal", handoff[p]) /\ Evidenced(p)' = Evidenced(p)
  BY DEF PlaceInv, Evidenced
<1>8. PlaceInv'
  BY <1>2, <1>3, <1>7 DEF PlaceInv
<1>9. FormalInv'
  BY <1>7 DEF FormalInv, Evidenced
<1> QED BY <1>4, <1>5, <1>6, <1>8, <1>9

LEMMA CreateSound ==
  ASSUME IInv, schema = "empty", Create
  PROVE  RegistryTypes' /\ CountInv' /\ HistoryInv' /\ rows' = rows /\ schema' = "search"
<1>1. rows = {} /\ rows' = {}
  BY DEF IInv, CountInv, Create
<1>2. CountInv'
  BY <1>1, FS_EmptySet DEF Create, CountInv, GenerationMatches
<1>3. \A c \in Candidates : History(c) = {} /\ History(c)' = {}
  BY <1>1 DEF History
<1>4. HistoryInv'
  BY <1>3 DEF IInv, HistoryInv, SoundHistory, Create
<1> QED BY <1>1, <1>2, <1>4 DEF Create, RegistryTypes, IInv, TypeOK

LEMMA UpgradeSound ==
  ASSUME IInv, schema = "base", Upgrade
  PROVE  RegistryTypes' /\ CountInv' /\ HistoryInv' /\ rows' = rows /\ schema' = "search"
<1>1. rows' = rows /\ content' = content /\ generation' = generation /\ schema' = "search"
      /\ bound' = generation
  BY DEF Upgrade
<1>2. CountInv'
  BY <1>1 DEF IInv, CountInv, GenerationMatches
<1>3. \A c \in Candidates : History(c)' = History(c) /\ History(c) \subseteq Handoffs
  BY <1>1 DEF History, IInv, TypeOK
<1>4. ASSUME NEW c \in Candidates, History(c) # {}
      PROVE  /\ SoundHistory(History(c), content[c], Latest(AcceptsOf(History(c))),
                              Latest(History(c)), TRUE)
             /\ Latest(History(c)) \in Handoffs /\ Latest(AcceptsOf(History(c))) \in Accepts
  <2>1. SoundHistory(History(c), content[c], source[c], current[c], schema = "search")
    BY DEF IInv, HistoryInv
  <2>2. AcceptsOf(History(c)) \subseteq Accepts
    BY <1>3 DEF AcceptsOf, Handoffs, Accepts, Withdraws
  <2> QED BY <1>3, <1>4, <2>1, <2>2, RebuiltIsSound
<1>5. HistoryInv'
  <2> SUFFICES ASSUME NEW c \in Candidates
               PROVE  SoundHistory(History(c), content[c], source'[c], current'[c], TRUE)
    BY <1>1, <1>3 DEF HistoryInv
  <2>1. CASE History(c) = {}
    <3>1. content[c] = None
      BY <2>1 DEF IInv, HistoryInv, SoundHistory
    <3> QED BY <2>1, <3>1 DEF SoundHistory
  <2>2. CASE History(c) # {}
    BY <1>4, <2>2 DEF Upgrade
  <2> QED BY <2>1, <2>2
<1>6. RegistryTypes'
  <2>1. current' \in [Candidates -> Handoffs \union {None}]
        /\ source' \in [Candidates -> Accepts \union {None}]
    BY <1>4 DEF Upgrade
  <2>2. searchable' \subseteq Candidates
    BY DEF Upgrade, RebuildSearch
  <2> QED BY <1>1, <2>1, <2>2 DEF RegistryTypes, IInv, TypeOK
<1> QED BY <1>1, <1>2, <1>5, <1>6

\* Nothing changes in the Registry.
LEMMA UnchangedSound ==
  ASSUME IInv, UNCHANGED registry
  PROVE  RegistryTypes' /\ CountInv' /\ HistoryInv' /\ rows' = rows /\ schema' = schema
BY RegistryKept DEF IInv, TypeOK, RegistryTypes, registry

\* The empty file is made.
LEMMA OpenedSound ==
  ASSUME IInv, schema' = IF schema = "none" THEN "empty" ELSE schema,
         UNCHANGED <<generation, bound, rows, content, source, current, searchable>>
  PROVE  /\ RegistryTypes' /\ CountInv' /\ HistoryInv' /\ rows' = rows
         /\ schema' # "none" /\ (schema' = "search" <=> schema = "search")
<1>1. schema' # "none" /\ (schema' = "search" <=> schema = "search")
  OBVIOUS
<1>2. CountInv'
  BY <1>1 DEF IInv, CountInv, GenerationMatches
<1>3. \A c \in Candidates : History(c)' = History(c)
  BY DEF History
<1>4. HistoryInv'
  <2> SUFFICES ASSUME NEW c \in Candidates
               PROVE  SoundHistory(History(c), content[c], source[c], current[c],
                                   schema' = "search")
    BY <1>3 DEF HistoryInv
  <2>1. SoundHistory(History(c), content[c], source[c], current[c], schema = "search")
    BY DEF IInv, HistoryInv
  <2> QED BY <1>1, <2>1 DEF SoundHistory
<1> QED BY <1>1, <1>2, <1>4 DEF RegistryTypes, IInv, TypeOK

LEMMA OpenStep == ASSUME IInv, NEW p \in Callers, OpenRegistry(p) PROVE IInv'
<1>1. pc[p] = "open" /\ UNCHANGED <<owner, evidence, handoff>>
      /\ UNCHANGED <<generation, bound, rows, content, source, current, searchable>>
  BY DEF OpenRegistry
<1>2. verdict[p] \in (Verdicts \union {None}) \ Applied
      /\ verdict = [verdict EXCEPT ![p] = verdict[p]]
  BY <1>1 DEF IInv, HandInv, HeldPcs, TypeOK
<1>3. {"registry_busy", "registry_unavailable", "registry_conflict"} \subseteq Verdicts \ Applied
  BY DEF Verdicts, Failed, Blocked, Applied
<1>4. "bootstrap" \notin Applied /\ "close" \notin Applied
  BY DEF Applied
<1>5. CASE UNCHANGED schema /\ Stop(p, "registry_unavailable")
  BY <1>1, <1>3, <1>4, <1>5, UnchangedSound, BackKeeps DEF Stop, Decide, registry
<1>6. CASE schema' = IF schema = "none" THEN "empty" ELSE schema
  <2>1. CASE pc' = [pc EXCEPT ![p] = "bootstrap"] /\ UNCHANGED verdict
    BY <1>1, <1>2, <1>4, <1>6, <2>1, OpenedSound, BackKeeps
  <2>2. CASE \E v \in {"registry_busy", "registry_unavailable", "registry_conflict"} : Stop(p, v)
    BY <1>1, <1>3, <1>4, <1>6, <2>2, OpenedSound, BackKeeps DEF Stop, Decide
  <2> QED BY <1>6, <2>1, <2>2, <1>5 DEF OpenRegistry, Goto
<1> QED BY <1>5, <1>6 DEF OpenRegistry

LEMMA BootstrapStep == ASSUME IInv, NEW p \in Callers, Bootstrap(p) PROVE IInv'
<1>1. pc[p] = "bootstrap" /\ UNCHANGED <<owner, evidence, handoff>>
  BY DEF Bootstrap
<1>2. verdict[p] \in (Verdicts \union {None}) \ Applied
      /\ verdict = [verdict EXCEPT ![p] = verdict[p]]
  BY <1>1 DEF IInv, HandInv, HeldPcs, TypeOK
<1>3. {"registry_busy", "registry_unavailable", "registry_conflict", "commit_failed", "raised"}
        \subseteq Verdicts \ Applied
  BY DEF Verdicts, Failed, Blocked, Applied
<1>4. "transact" \notin Applied /\ "close" \notin Applied
  BY DEF Applied
<1>5. CASE \E v \in {"registry_busy", "registry_unavailable", "registry_conflict",
                    "commit_failed", "raised"} : Stop(p, v) /\ UNCHANGED registry
  BY <1>1, <1>3, <1>4, <1>5, UnchangedSound, BackKeeps DEF Stop, Decide
<1>6. CASE schema = "empty" /\ Commit(p, "transact", Create)
  <2>1. CASE Create /\ pc' = [pc EXCEPT ![p] = "transact"] /\ UNCHANGED verdict
    BY <1>1, <1>2, <1>4, <1>6, <2>1, CreateSound, BackKeeps
  <2>2. CASE Create /\ Stop(p, "raised")
    BY <1>1, <1>3, <1>4, <1>6, <2>2, CreateSound, BackKeeps DEF Stop, Decide
  <2> QED BY <1>5, <1>6, <2>1, <2>2 DEF Commit
<1>7. CASE schema = "base" /\ Commit(p, "transact", Upgrade)
  <2>1. CASE Upgrade /\ pc' = [pc EXCEPT ![p] = "transact"] /\ UNCHANGED verdict
    BY <1>1, <1>2, <1>4, <1>7, <2>1, UpgradeSound, BackKeeps
  <2>2. CASE Upgrade /\ Stop(p, "raised")
    BY <1>1, <1>3, <1>4, <1>7, <2>2, UpgradeSound, BackKeeps DEF Stop, Decide
  <2> QED BY <1>5, <1>7, <2>1, <2>2 DEF Commit
<1>8. CASE /\ schema = "search" /\ Goto(p, "bootstrap", "transact")
           /\ UNCHANGED <<registry, verdict>>
  BY <1>1, <1>2, <1>4, <1>8, UnchangedSound, BackKeeps DEF Goto
<1> QED BY <1>5, <1>6, <1>7, <1>8 DEF Bootstrap

\* What passes the ladder of refusals follows its history.
LEMMA PassedFollows ==
  ASSUME IInv, NEW h \in Handoffs, h \notin rows, Conflict(h) = None
  PROVE  Follows(h, History(h.candidate), content[h.candidate])
<1> DEFINE c == h.candidate  H == History(c)
<1>1. "revision_conflict" # None /\ "registry_conflict" # None
  BY IntakeAssumption DEF Verdicts, Failed
<1>2. c \in Candidates /\ h.action \in {"accept", "withdraw"}
  BY DEF Handoffs, Accepts, Withdraws
<1>3. SoundHistory(H, content[c], source[c], current[c], schema = "search")
  BY <1>2 DEF IInv, HistoryInv
<1>4. H \subseteq Handoffs
  BY DEF History, IInv, TypeOK
<1>5. CASE content[c] = None
  <2>1. H = {}
    BY <1>3, <1>5 DEF SoundHistory
  <2>2. h.action # "withdraw"
    BY <1>1, <1>5 DEF Conflict
  <2> QED BY <1>5, <2>1, <2>2 DEF Follows
<1>6. CASE content[c] # None
  <2>1. H # {} /\ current[c] \in H /\ \A g \in H : g.revision <= current[c].revision
    BY <1>3, <1>6 DEF SoundHistory
  <2>2. Latest(H) = current[c]
    BY <1>3, <1>4, <2>1, LatestIs DEF SoundHistory
  <2>3. /\ h.action = "accept" => content[c] = h.content
        /\ ~(h.revision <= current[c].revision)
    BY <1>1, <1>6, <2>2 DEF Conflict
  <2>4. \A g \in H \union {h} : g.revision \in Nat
    BY <1>4, IntakeAssumption DEF Handoffs, Accepts, Withdraws
  <2>5. \A g \in H : g.revision < h.revision
    BY <2>1, <2>3, <2>4
  <2> QED BY <1>2, <1>6, <2>3, <2>5 DEF Follows
<1> QED BY <1>5, <1>6

LEMMA InsertSound ==
  ASSUME IInv, schema = "search", NEW h \in Handoffs, h \notin rows, Conflict(h) = None, Insert(h)
  PROVE  RegistryTypes' /\ CountInv' /\ HistoryInv' /\ rows' = rows \union {h}
<1> DEFINE c == h.candidate  H == History(c)
<1>1. /\ rows' = rows \union {h} /\ schema' = schema
      /\ generation' = generation + 1 /\ bound' = generation + 1
      /\ current' = [current EXCEPT ![c] = Latest(H \union {h})]
      /\ source' = [source EXCEPT ![c] = Latest(AcceptsOf(H \union {h}))]
      /\ content' = [content EXCEPT ![c] = IF h.action = "accept" THEN h.content ELSE content[c]]
  BY DEF Insert, Rebuild, IInv, TypeOK
<1>2. c \in Candidates /\ (h.action = "accept" => h.content \in Contents)
  BY DEF Handoffs, Accepts, Withdraws
<1>3. H \subseteq Handoffs /\ SoundHistory(H, content[c], source[c], current[c], schema = "search")
  BY <1>2 DEF History, IInv, TypeOK, HistoryInv
<1>4. Follows(h, H, content[c])
  BY PassedFollows
<1>5. /\ SoundHistory(H \union {h}, content'[c], source'[c], current'[c], TRUE)
      /\ Latest(H \union {h}) \in Handoffs /\ Latest(AcceptsOf(H \union {h})) \in Accepts
  <2>1. /\ content'[c] = IF h.action = "accept" THEN h.content ELSE content[c]
        /\ source'[c] = Latest(AcceptsOf(H \union {h})) /\ current'[c] = Latest(H \union {h})
    BY <1>1, <1>2 DEF IInv, TypeOK
  <2>2. H \subseteq Handoffs /\ SoundHistory(H, content[c], source[c], current[c], TRUE)
    BY <1>3
  <2> DEFINE new == IF h.action = "accept" THEN h.content ELSE content[c]
  <2> HIDE DEF H, c
  <2>3. /\ SoundHistory(H \union {h}, new, Latest(AcceptsOf(H \union {h})),
                         Latest(H \union {h}), TRUE)
        /\ Latest(H \union {h}) \in Handoffs
        /\ Latest(AcceptsOf(H \union {h})) \in Accepts
    BY <1>4, <2>2, ExtendedIsSound
  <2> QED BY <2>1, <2>3
<1>6. \A d \in Candidates : History(d)' = IF d = c THEN H \union {h} ELSE History(d)
  BY <1>1 DEF History
<1>7. HistoryInv'
  <2> SUFFICES ASSUME NEW d \in Candidates
               PROVE  SoundHistory(History(d)', content'[d], source'[d], current'[d], TRUE)
    BY <1>1 DEF HistoryInv
  <2>1. CASE d = c
    BY <1>5, <1>6, <2>1
  <2>2. CASE d # c
    <3>1. content'[d] = content[d] /\ source'[d] = source[d] /\ current'[d] = current[d]
      BY <1>1, <2>2 DEF IInv, TypeOK
    <3>2. SoundHistory(History(d), content[d], source[d], current[d], TRUE)
      BY DEF IInv, HistoryInv
    <3> QED BY <1>6, <2>2, <3>1, <3>2
  <2> QED BY <2>1, <2>2
<1>8. CountInv'
  <2>1. IsFiniteSet(rows') /\ Cardinality(rows') = Cardinality(rows) + 1
    BY <1>1, FS_AddElement DEF IInv, CountInv
  <2> QED BY <1>1, <2>1 DEF IInv, CountInv, GenerationMatches
<1>9. RegistryTypes'
  <2>1. searchable' \subseteq Candidates
    BY <1>2 DEF Insert, Rebuild, IInv, TypeOK
  <2>2. current' \in [Candidates -> Handoffs \union {None}]
        /\ source' \in [Candidates -> Accepts \union {None}]
        /\ content' \in [Candidates -> Contents \union {None}]
    BY <1>1, <1>2, <1>5 DEF IInv, TypeOK
  <2> QED BY <1>1, <2>1, <2>2 DEF RegistryTypes, IInv, TypeOK
<1> QED BY <1>1, <1>7, <1>8, <1>9

LEMMA ReplaySound ==
  ASSUME IInv, schema = "search", NEW h \in rows, Replay(h)
  PROVE  RegistryTypes' /\ CountInv' /\ HistoryInv' /\ rows' = rows
<1> DEFINE c == h.candidate  H == History(c)
<1>1. /\ rows' = rows /\ schema' = schema /\ generation' = generation /\ bound' = generation
      /\ content' = content
      /\ current' = [current EXCEPT ![c] = Latest(H)]
      /\ source' = [source EXCEPT ![c] = Latest(AcceptsOf(H))]
  BY DEF Replay, Rebuild
<1>2. h \in Handoffs /\ c \in Candidates /\ h \in H
  BY DEF Handoffs, Accepts, Withdraws, History, IInv, TypeOK
<1>3. H \subseteq Handoffs /\ SoundHistory(H, content[c], source[c], current[c], schema = "search")
  BY <1>2 DEF History, IInv, TypeOK, HistoryInv
<1>4. /\ SoundHistory(H, content[c], Latest(AcceptsOf(H)), Latest(H), TRUE)
      /\ Latest(H) \in H /\ Latest(AcceptsOf(H)) \in AcceptsOf(H)
  <2>1. H # {}
    BY <1>2
  <2>2. H \subseteq Handoffs /\ SoundHistory(H, content[c], source[c], current[c], TRUE)
    BY <1>3
  <2> HIDE DEF H, c
  <2> QED BY <2>1, <2>2, RebuiltIsSound
<1>5. AcceptsOf(H) \subseteq Accepts
  BY <1>3 DEF AcceptsOf, Handoffs, Accepts, Withdraws
<1>6. \A d \in Candidates : History(d)' = History(d)
  BY <1>1 DEF History
<1>7. HistoryInv'
  <2> SUFFICES ASSUME NEW d \in Candidates
               PROVE  SoundHistory(History(d), content[d], source'[d], current'[d], TRUE)
    BY <1>1, <1>6 DEF HistoryInv
  <2>1. CASE d = c
    BY <1>1, <1>4, <2>1 DEF IInv, TypeOK
  <2>2. CASE d # c
    <3>1. source'[d] = source[d] /\ current'[d] = current[d]
      BY <1>1, <2>2 DEF IInv, TypeOK
    <3> QED BY <3>1 DEF IInv, HistoryInv
  <2> QED BY <2>1, <2>2
<1>8. CountInv'
  BY <1>1 DEF IInv, CountInv, GenerationMatches
<1>9. RegistryTypes'
  <2>1. searchable' \subseteq Candidates
    BY <1>2 DEF Replay, Rebuild, IInv, TypeOK
  <2>2. current' \in [Candidates -> Handoffs \union {None}]
        /\ source' \in [Candidates -> Accepts \union {None}]
    BY <1>1, <1>2, <1>3, <1>4, <1>5 DEF IInv, TypeOK
  <2> QED BY <1>1, <2>1, <2>2 DEF RegistryTypes, IInv, TypeOK
<1> QED BY <1>1, <1>7, <1>8, <1>9

LEMMA TransactStep == ASSUME IInv, NEW p \in Callers, Transact(p) PROVE IInv'
<1> DEFINE h == handoff[p]
<1>1. pc[p] = "transact" /\ UNCHANGED <<owner, evidence, handoff>> /\ schema = "search"
      /\ h \in Handoffs
  BY DEF Transact, IInv, HandInv
<1>2. verdict[p] \in (Verdicts \union {None}) \ Applied
      /\ verdict = [verdict EXCEPT ![p] = verdict[p]]
  BY <1>1 DEF IInv, HandInv, HeldPcs, TypeOK
<1>3. {"registry_busy", "registry_conflict", "revision_conflict", "commit_failed", "raised"}
        \subseteq Verdicts \ Applied
  BY DEF Verdicts, Failed, Blocked, Applied
<1>4. "close" \notin Applied
  BY DEF Applied
<1>5. CASE \E v \in {"registry_busy", "registry_conflict", "revision_conflict",
                    "commit_failed", "raised"} : Stop(p, v) /\ UNCHANGED registry
  BY <1>1, <1>3, <1>4, <1>5, UnchangedSound, BackKeeps DEF Stop, Decide
<1>6. CASE h \in rows /\ Commit(p, "unchanged", Replay(h))
  <2>1. CASE Replay(h) /\ pc' = [pc EXCEPT ![p] = "unchanged"] /\ UNCHANGED verdict
    <3>1. RegistryTypes' /\ CountInv' /\ HistoryInv' /\ rows' = rows
      BY <1>1, <1>6, <2>1, ReplaySound
    <3>2. pc[p] \in {"open", "bootstrap", "transact"} /\ UNCHANGED <<owner, evidence, handoff>>
          /\ verdict' = [verdict EXCEPT ![p] = verdict[p]]
          /\ rows' \subseteq rows \union {h} /\ rows \subseteq rows' /\ h \in rows'
      BY <1>1, <1>2, <1>6, <2>1, <3>1
    <3>3. "unchanged" \in {"bootstrap", "transact", "applied", "unchanged", "close"}
          /\ "unchanged" # "bootstrap" /\ "unchanged" # "transact"
      OBVIOUS
    <3> QED BY <1>2, <2>1, <3>1, <3>2, <3>3, BackKeeps
  <2>2. CASE Replay(h) /\ Stop(p, "raised")
    BY <1>1, <1>3, <1>4, <1>6, <2>2, ReplaySound, BackKeeps DEF Stop, Decide
  <2> QED BY <1>5, <1>6, <2>1, <2>2 DEF Commit
<1>7. CASE h \notin rows /\ Conflict(h) = None /\ Commit(p, "applied", Insert(h))
  <2>1. CASE Insert(h) /\ pc' = [pc EXCEPT ![p] = "applied"] /\ UNCHANGED verdict
    <3>1. RegistryTypes' /\ CountInv' /\ HistoryInv' /\ rows' = rows \union {h}
      BY <1>1, <1>7, <2>1, InsertSound
    <3>2. pc[p] \in {"open", "bootstrap", "transact"} /\ UNCHANGED <<owner, evidence, handoff>>
          /\ verdict' = [verdict EXCEPT ![p] = verdict[p]]
          /\ rows' \subseteq rows \union {h} /\ rows \subseteq rows' /\ h \in rows'
      BY <1>1, <1>2, <2>1, <3>1
    <3>3. "applied" \in {"bootstrap", "transact", "applied", "unchanged", "close"}
          /\ "applied" # "bootstrap" /\ "applied" # "transact"
      OBVIOUS
    <3> QED BY <1>2, <2>1, <3>1, <3>2, <3>3, BackKeeps
  <2>2. CASE Insert(h) /\ Stop(p, "raised")
    BY <1>1, <1>3, <1>4, <1>7, <2>2, InsertSound, BackKeeps DEF Stop, Decide
  <2> QED BY <1>5, <1>7, <2>1, <2>2 DEF Commit
<1>8. Conflict(h) \in {None, "revision_conflict", "registry_conflict"}
  BY DEF Conflict
<1> QED BY <1>5, <1>6, <1>7, <1>8 DEF Transact

LEMMA StepIInv == IInv /\ [Next]_vars => IInv'
<1> SUFFICES ASSUME IInv, [Next]_vars PROVE IInv'
  OBVIOUS
<1>1. CASE UNCHANGED vars
  <2>1. CountInv' /\ HistoryInv'
    BY <1>1, RegistryKept DEF vars, registry, IInv
  <2> QED BY <1>1, <2>1 DEF vars, registry, local, IInv, TypeOK, MutexInv, HandInv, PlaceInv,
        FormalInv, Evidenced
<1>2. CASE Next
  BY <1>2, ApplyStep, InspectStep, MakeStep, FillStep, PromoteStep, OpenStep, BootstrapStep,
     TransactStep, VerifyStep, ReturnStep, CrashStep DEF Next
<1> QED BY <1>1, <1>2

LEMMA Invariance == Spec => []IInv
BY InitIInv, StepIInv, PTL DEF Spec

(****************************** the theorems ******************************)

\* Every variable keeps to the values the code gives it.
THEOREM TypeCorrect == Spec => []TypeOK
<1>1. IInv => TypeOK
  BY DEF IInv
<1> QED BY <1>1, Invariance, PTL

\* No call of apply, crash or unclear commit makes the Registry one that apply refuses.
THEOREM StaysReadable == Spec => []RegistryStaysReadable
<1>1. IInv => RegistryStaysReadable
  <2> SUFFICES ASSUME IInv PROVE RegistryStaysReadable
    OBVIOUS
  <2>1. GenerationMatches /\ bound = IF schema = "search" THEN generation ELSE None
    BY DEF IInv, CountInv
  <2>2. ASSUME NEW c \in Candidates PROVE HistoryVerified(c, schema = "base")
    <3> DEFINE H == History(c)
    <3>1. SoundHistory(H, content[c], source[c], current[c], schema = "search")
      BY DEF IInv, HistoryInv
    <3>2. H \subseteq rows /\ H \subseteq Handoffs /\ schema \in {"none", "empty", "base", "search"}
      BY DEF History, IInv, TypeOK
    <3>3. \A g \in H : evidence[HandoffId(g)] = At("formal", g)
      BY <3>2 DEF IInv, FormalInv
    <3>4. \A g, k \in AcceptsOf(H) : g.content = k.content
      BY <3>1 DEF SoundHistory, AcceptsOf
    <3>5. \A k \in H : k.action = "withdraw" => \E g \in AcceptsOf(H) : g.revision < k.revision
      BY <3>1 DEF SoundHistory
    <3>6. ASSUME content[c] # None
          PROVE  /\ source[c] \in AcceptsOf(H) /\ content[c] = source[c].content
                 /\ schema = "base" \/ source[c] = Latest(AcceptsOf(H))
      <4>1. H # {}
        BY <3>1, <3>6 DEF SoundHistory
      <4>2. source[c] \in AcceptsOf(H) /\ content[c] = source[c].content
        BY <3>1, <4>1 DEF SoundHistory
      <4>3. schema = "search" => source[c] = Latest(AcceptsOf(H))
        <5> HIDE DEF H
        <5> QED BY <3>1, <3>2, <4>1, RebuiltIsSound
      <4>4. schema \notin {"none", "empty"}
        BY <3>2, <4>1 DEF IInv, CountInv
      <4> QED BY <3>2, <4>2, <4>3, <4>4
    <3> QED BY <3>3, <3>4, <3>5, <3>6 DEF HistoryVerified
  <2> QED BY <2>1, <2>2 DEF RegistryStaysReadable
<1> QED BY <1>1, Invariance, PTL

\* Only evidence that is not formal is written.
LEMMA FormalStays ==
  ASSUME IInv, [Next]_vars, NEW i \in Ids, evidence[i].place = "formal"
  PROVE  evidence'[i] = evidence[i]
<1>1. CASE UNCHANGED evidence
  BY <1>1
<1>2. ASSUME NEW p \in Callers, MakeStage(p) \/ FillStage(p) \/ Promote(p)
      PROVE  evidence'[i] = evidence[i]
  <2>1. Evidenced(p).place # "formal"
    BY <1>2 DEF IInv, PlaceInv, MakeStage, FillStage, Promote, Missing, Partial, At,
       Goto, Stop
  <2>2. \/ UNCHANGED evidence
        \/ \E e : evidence' = [evidence EXCEPT ![HandoffId(handoff[p])] = e]
    BY <1>2 DEF MakeStage, FillStage, Promote, SetEvidence
  <2> QED BY <2>1, <2>2 DEF Evidenced, IInv, TypeOK
<1> QED BY <1>1, <1>2 DEF Next, vars, Apply, InspectEvidence, OpenRegistry, Bootstrap, Transact,
     Verify, Return, Crash

\* Published evidence is never replaced or removed.
THEOREM EvidenceStays == Spec => EvidenceIsImmutable
<1>1. IInv /\ [Next]_vars => [\A i \in Ids : evidence[i].place = "formal" =>
                                evidence'[i] = evidence[i]]_vars
  BY FormalStays
<1> QED BY <1>1, Invariance, PTL DEF Spec, EvidenceIsImmutable

(**************************** the refinement ******************************)

Answers == [p \in Callers |-> IF verdict[p] \in Applied THEN handoff[p] ELSE None]

LEMMA InitIsRegistryInit == Init => Registry!RegistryInit
<1> SUFFICES ASSUME Init PROVE Registry!RegistryInit
  OBVIOUS
<1>1. Answers = [p \in Callers |-> None]
  BY IntakeAssumption DEF Init, Answers, Applied, Verdicts
<1>2. /\ rows \subseteq Accepts
      /\ \A g, h \in rows : g.candidate = h.candidate /\ g.content = h.content
                            /\ (g.revision = h.revision => g = h)
  <2>1. CASE New
    BY <2>1 DEF New
  <2>2. CASE \E H \in Earlier : Legacy(H)
    BY <2>2 DEF Legacy, Earlier
  <2> QED BY <2>1, <2>2 DEF Init
<1> QED BY <1>1, <1>2 DEF Registry!RegistryInit, Registry!Accepts, Accepts, Answers

\* The rows change only where a transaction inserts.
LEMMA TransactRecords ==
  ASSUME IInv, NEW p \in Callers, Transact(p)
  PROVE  /\ Answers' = Answers
         /\ rows' = rows \/ \E h \in Handoffs : Registry!Record(h)
<1> DEFINE h == handoff[p]  c == h.candidate  H == History(c)
<1>1. h \in Handoffs /\ verdict[p] \notin Applied /\ UNCHANGED handoff
  BY DEF Transact, IInv, HandInv, HeldPcs
<1>2. verdict' = verdict \/ \E v : v \notin Applied /\ verdict' = [verdict EXCEPT ![p] = v]
  <2>1. Conflict(h) # None => Conflict(h) \in {"revision_conflict", "registry_conflict"}
    BY DEF Conflict
  <2> QED BY <2>1 DEF Transact, Commit, Stop, Decide, Applied
<1>3. Answers' = Answers
  BY <1>1, <1>2 DEF Answers, IInv, TypeOK
<1>4. rows' = rows \/ (Conflict(h) = None /\ h \notin rows /\ rows' = rows \union {h})
  BY DEF Transact, Commit, Insert, Replay, registry
<1>5. ASSUME Conflict(h) = None, h \notin rows PROVE Registry!Recordable(h)
  <2>1. Follows(h, H, content[c])
    BY <1>1, <1>5, PassedFollows
  <2>2. c \in Candidates /\ h.action \in {"accept", "withdraw"}
    BY <1>1 DEF Handoffs, Accepts, Withdraws
  <2>3. SoundHistory(H, content[c], source[c], current[c], schema = "search")
    BY <2>2 DEF IInv, HistoryInv
  <2>4. Registry!History(c) = H
    BY DEF Registry!History, History
  <2>5. h.action = "accept" => \A g \in H : g.action = "accept" => g.content = h.content
    BY <2>1, <2>3 DEF Follows, SoundHistory, AcceptsOf
  <2>6. h.action # "accept" => \E g \in H : g.action = "accept"
    BY <2>1, <2>2, <2>3 DEF Follows, SoundHistory, AcceptsOf
  <2> QED BY <2>1, <2>4, <2>5, <2>6 DEF Registry!Recordable, Follows
<1>6. CASE rows' = rows
  BY <1>3, <1>6
<1>7. CASE Conflict(h) = None /\ h \notin rows /\ rows' = rows \union {h}
  BY <1>1, <1>3, <1>5, <1>7 DEF Registry!Record, Answers
<1> QED BY <1>3, <1>4, <1>6, <1>7

\* Every other step is an answer: a caller comes to hold an acknowledgement, of a
\* recorded Handoff, or holds one no longer.
LEMMA OthersAnswer ==
  ASSUME IInv, IInv', NEW p \in Callers, rows' = rows,
         \A q \in Callers \ {p} : verdict'[q] = verdict[q] /\ handoff'[q] = handoff[q]
  PROVE  Registry!Answer(p)
<1> DEFINE h == IF verdict'[p] \in Applied THEN handoff'[p] ELSE None
<1>1. h \in rows \union {None}
  BY DEF IInv, HandInv
<1>2. Answers' = [Answers EXCEPT ![p] = h]
  BY DEF Answers
<1> QED BY <1>1, <1>2 DEF Registry!Answer, Answers

LEMMA StepRefines ==
  ASSUME IInv, IInv', [Next]_vars
  PROVE  [Registry!RegistryNext]_(Registry!registryVars)
<1>1. CASE UNCHANGED vars
  BY <1>1 DEF vars, registry, local, Registry!registryVars
<1>2. ASSUME NEW p \in Callers, Transact(p)
      PROVE  [Registry!RegistryNext]_(Registry!registryVars)
  BY <1>2, TransactRecords DEF Registry!RegistryNext, Registry!registryVars,
     Answers, Registry!Handoffs, Registry!Accepts, Registry!Withdraws, Handoffs, Accepts,
     Withdraws
<1>3. ASSUME NEW p \in Callers,
             \/ Apply(p) \/ InspectEvidence(p) \/ MakeStage(p) \/ FillStage(p) \/ Promote(p)
             \/ OpenRegistry(p) \/ Bootstrap(p) \/ Verify(p) \/ Return(p) \/ Crash(p)
      PROVE  [Registry!RegistryNext]_(Registry!registryVars)
  <2>1. rows' = rows
    BY <1>3 DEF Apply, InspectEvidence, MakeStage, FillStage, Promote, OpenRegistry, Bootstrap, Commit, Create,
       Upgrade, Verify, Return, Crash, registry
  <2>2. \A q \in Callers \ {p} : verdict'[q] = verdict[q] /\ handoff'[q] = handoff[q]
    <3>1. handoff' = handoff \/ \E h : handoff' = [handoff EXCEPT ![p] = h]
      BY <1>3 DEF Apply, InspectEvidence, MakeStage, FillStage, Promote, OpenRegistry, Bootstrap, Verify,
         Return, Crash
    <3>2. verdict' = verdict \/ \E v : verdict' = [verdict EXCEPT ![p] = v]
      BY <1>3 DEF Apply, InspectEvidence, MakeStage, FillStage, Promote, OpenRegistry, Bootstrap, Commit,
         Verify,
         Return, Crash, Stop, Decide
    <3> QED BY <3>1, <3>2 DEF IInv, TypeOK
  <2> QED BY <2>1, <2>2, OthersAnswer DEF Registry!RegistryNext
<1> QED BY <1>1, <1>2, <1>3 DEF Next

\* apply, with its evidence, crashes and unclear commits, implements the Registry: a caller
\* is told that a Handoff is applied only once it is recorded, nothing recorded is taken
\* back, and a history only grows by what may follow it.
THEOREM RegistryImplemented == Spec => ImplementsRegistry
<1>1. IInv /\ IInv' /\ [Next]_vars => [Registry!RegistryNext]_(Registry!registryVars)
  BY StepRefines
<1> QED BY <1>1, InitIsRegistryInit, Invariance, PTL
     DEF Spec, ImplementsRegistry, Registry!RegistrySpec

(************************ what search and show find ************************)

\* A Candidate that nobody recorded has no status, and the search projection has the
\* Candidates whose status is an accept.
SearchInv ==
  /\ \A c \in Candidates : content[c] = None => current[c] = None
  /\ searchable = IF schema # "search" THEN {}
                  ELSE {c \in Candidates : content[c] # None /\ current[c].action = "accept"}

LEMMA InitSearch == Init => SearchInv
<1> SUFFICES ASSUME Init PROVE SearchInv OBVIOUS
<1>1. searchable = {} BY DEF Init
<1>2. schema # "search" BY DEF Init, New, Legacy
<1>3. ASSUME NEW c \in Candidates, content[c] = None PROVE current[c] = None
  <2>1. CASE New BY <2>1 DEF New
  <2>2. ASSUME NEW H \in Earlier, Legacy(H) PROVE current[c] = None
    <3>1. CASE History(c) = {} BY <2>2, <3>1 DEF Legacy
    <3>2. CASE History(c) # {}
      <4>1. IInv BY InitIInv
      <4>2. content[c] # None
        BY <3>2, <4>1 DEF IInv, HistoryInv, SoundHistory
      <4> QED BY <1>3, <4>2
    <3> QED BY <3>1, <3>2
  <2> QED BY <2>1, <2>2 DEF Init
<1> QED BY <1>1, <1>2, <1>3 DEF SearchInv

LEMMA CreateSearch ==
  ASSUME IInv, SearchInv, schema = "empty", Create
  PROVE  SearchInv'
<1>1. rows = {} BY DEF IInv, CountInv
<1>2. \A c \in Candidates : content[c] = None
  BY <1>1 DEF IInv, HistoryInv, SoundHistory, History
<1> QED BY <1>2 DEF SearchInv, Create

LEMMA UpgradeSearch ==
  ASSUME IInv, Upgrade
  PROVE  SearchInv'
<1>1. \A c \in Candidates : content[c] = None <=> History(c) = {}
  BY DEF IInv, HistoryInv, SoundHistory
<1>2. ASSUME NEW c \in Candidates, History(c) # {} PROVE current'[c] # None
  <2>1. SoundHistory(History(c), content[c], source[c], current[c], schema = "search")
    BY DEF IInv, HistoryInv
  <2>2. History(c) \subseteq Handoffs BY DEF History, IInv, TypeOK
  <2>3. Latest(History(c)) \in Handoffs BY <1>2, <2>1, <2>2, RebuiltIsSound
  <2>4. current'[c] = Latest(History(c)) BY <1>2 DEF Upgrade
  <2> QED BY <2>3, <2>4, IntakeAssumption
<1> QED BY <1>1, <1>2 DEF SearchInv, Upgrade, RebuildSearch

\* Recording a Handoff or replaying one projects its Candidate again.
LEMMA RebuildSearches ==
  ASSUME IInv, SearchInv, schema = "search", schema' = "search", NEW c \in Candidates, NEW H,
         Rebuild(c, H),
         content'[c] # None, \A d \in Candidates : d # c => content'[d] = content[d]
  PROVE  SearchInv'
<1>1. /\ current'[c] = Latest(H)
      /\ \A d \in Candidates : d # c => current'[d] = current[d]
      /\ searchable' = IF Latest(H).action = "accept" THEN searchable \union {c}
                                                      ELSE searchable \ {c}
  BY DEF Rebuild, IInv, TypeOK
<1> QED BY <1>1 DEF SearchInv

LEMMA InsertSearch ==
  ASSUME IInv, SearchInv, schema = "search", NEW h \in Handoffs, h \notin rows,
         Conflict(h) = None, Insert(h)
  PROVE  SearchInv'
<1> DEFINE c == h.candidate
<1>1. c \in Candidates /\ h.action \in {"accept", "withdraw"}
      /\ (h.action = "accept" => h.content \in Contents)
  BY DEF Handoffs, Accepts, Withdraws
<1>2. Follows(h, History(c), content[c]) BY PassedFollows
<1>3. content'[c] # None /\ \A d \in Candidates : d # c => content'[d] = content[d]
  BY <1>1, <1>2, IntakeAssumption DEF Follows, Insert, IInv, TypeOK
<1> QED BY <1>1, <1>3, RebuildSearches DEF Insert

LEMMA ReplaySearch ==
  ASSUME IInv, SearchInv, schema = "search", NEW h \in rows, Replay(h)
  PROVE  SearchInv'
<1> DEFINE c == h.candidate
<1>1. c \in Candidates /\ h \in History(c)
  BY DEF Handoffs, Accepts, Withdraws, History, IInv, TypeOK
<1>2. content[c] # None
  BY <1>1 DEF IInv, HistoryInv, SoundHistory
<1> QED BY <1>1, <1>2, RebuildSearches DEF Replay

LEMMA SearchKept == ASSUME SearchInv, UNCHANGED registry PROVE SearchInv'
BY DEF SearchInv, registry

LEMMA OpenSearch == ASSUME IInv, SearchInv, NEW p \in Callers, OpenRegistry(p) PROVE SearchInv'
<1>1. schema' = "search" <=> schema = "search"
  BY DEF OpenRegistry
<1> QED BY <1>1 DEF SearchInv, OpenRegistry

LEMMA StepSearch == IInv /\ SearchInv /\ [Next]_vars => SearchInv'
<1> SUFFICES ASSUME IInv, SearchInv, [Next]_vars PROVE SearchInv' OBVIOUS
<1>1. CASE UNCHANGED registry BY <1>1, SearchKept
<1>2. ASSUME NEW p \in Callers, Bootstrap(p) PROVE SearchInv'
  BY <1>1, <1>2, CreateSearch, UpgradeSearch DEF Bootstrap, Commit
<1>3. ASSUME NEW p \in Callers, Transact(p) PROVE SearchInv'
  <2> DEFINE h == handoff[p]
  <2>1. h \in Handoffs /\ schema = "search" BY <1>3 DEF Transact, IInv, HandInv
  <2>2. CASE h \in rows /\ Commit(p, "unchanged", Replay(h))
    BY <1>1, <2>1, <2>2, ReplaySearch DEF Commit
  <2>3. CASE h \notin rows /\ Conflict(h) = None /\ Commit(p, "applied", Insert(h))
    BY <1>1, <2>1, <2>3, InsertSearch DEF Commit
  <2> QED BY <1>1, <1>3, <2>2, <2>3 DEF Transact
<1> QED
  BY <1>1, <1>2, <1>3, OpenSearch
  DEF Next, Apply, InspectEvidence, MakeStage, FillStage, Promote, Verify, Return, Crash, vars

\* What is stored of a Candidate is its latest decision and one of its accepts.
LEMMA StoredIs ==
  ASSUME IInv, SearchInv, NEW c \in Candidates
  PROVE  /\ History(c) \subseteq rows /\ History(c) \subseteq Handoffs
         /\ AcceptsOf(History(c)) \subseteq History(c)
         /\ History(c) = {} <=> content[c] = None
         /\ History(c) = {} <=> current[c] = None
         /\ History(c) # {} =>
              /\ current[c] \in History(c) /\ current[c] = Latest(History(c))
              /\ source[c] \in AcceptsOf(History(c))
              /\ Latest(AcceptsOf(History(c))) \in AcceptsOf(History(c))
              /\ schema = "search" => source[c] = Latest(AcceptsOf(History(c)))
              /\ \A g \in AcceptsOf(History(c)) : g.content = content[c]
              /\ \A g \in History(c) : g.revision <= current[c].revision
              /\ \A g, h \in History(c) : g.revision = h.revision => g = h
<1> DEFINE H == History(c)
<1>1. H \subseteq rows /\ H \subseteq Handoffs /\ AcceptsOf(H) \subseteq H
  BY DEF History, AcceptsOf, IInv, TypeOK
<1>2. SoundHistory(H, content[c], source[c], current[c], schema = "search")
  BY DEF IInv, HistoryInv
<1>3. H = {} <=> content[c] = None BY <1>2 DEF SoundHistory
<1>4. CASE H = {} BY <1>1, <1>3, <1>4 DEF SearchInv
<1>5. CASE H # {}
  <2>1. /\ Latest(AcceptsOf(H)) \in AcceptsOf(H)
        /\ schema = "search" => source[c] = Latest(AcceptsOf(H))
    <3> HIDE DEF H
    <3> QED BY <1>1, <1>2, <1>5, RebuiltIsSound
  <2>2. /\ current[c] \in H /\ \A g \in H : g.revision <= current[c].revision
        /\ \A g, h \in H : g.revision = h.revision => g = h
        /\ source[c] \in AcceptsOf(H)
        /\ \A g \in AcceptsOf(H) : g.content = content[c]
    BY <1>2, <1>5 DEF SoundHistory
  <2>3. current[c] = Latest(H)
    <3> HIDE DEF H
    <3> QED BY <1>1, <2>2, LatestIs
  <2>4. current[c] # None BY <1>1, <2>2, IntakeAssumption
  <2> QED BY <1>1, <1>3, <1>5, <2>1, <2>2, <2>3, <2>4
<1> QED BY <1>4, <1>5

\* No reason is None.
LEMMA Reasons ==
  None \notin {"registry_unavailable", "registry_incompatible", "registry_corrupt",
               "retrieval_materialization_failed", "candidate_not_found",
               "candidate_corrupt", "evidence_corrupt"}
BY ReadAssumption DEF Blocks, Fails

\* A Registry with the search projection satisfies search, any with its tables show.
LEMMA RegistryAccepted ==
  ASSUME IInv, SearchInv
  PROVE  /\ SearchRegistry = IF schema = "none" THEN "registry_unavailable"
                             ELSE IF schema \in {"empty", "base"} THEN "registry_incompatible"
                             ELSE None
         /\ ShowRegistry = IF schema = "none" THEN "registry_unavailable"
                           ELSE IF schema = "empty" THEN "registry_incompatible" ELSE None
<1>1. GenerationMatches /\ schema \in {"none", "empty", "base", "search"}
      /\ (schema = "search" => bound = generation)
  BY DEF IInv, CountInv, TypeOK
<1>2. SameMembers
  BY StoredIs DEF SameMembers, Known
<1>3. schema = "search" => searchable = Active
  BY StoredIs DEF SearchInv, Active, Known
<1> QED BY <1>1, <1>2, <1>3 DEF SearchRegistry, ShowRegistry

\* Whatever the branches of an unrefused search find can be materialized.
LEMMA SearchIsFaithful ==
  ASSUME IInv, SearchInv, NEW found \in SUBSET Findable
  PROVE  /\ SearchRefusal(found) \in {None, "registry_unavailable", "registry_incompatible"}
         /\ SearchRefusal(found) = None <=> schema = "search"
         /\ Reportable("search", LastWords("search", SearchRefusal(found)))
<1>1. \A c \in found : Materializes(c)
  BY StoredIs DEF Findable, Active, Known, Materializes
<1>2. SearchRefusal(found) = SearchRegistry
  BY <1>1 DEF SearchRefusal
<1>3. schema \in {"none", "empty", "base", "search"} BY DEF IInv, TypeOK
<1>4. /\ SearchRefusal(found) \in {None, "registry_unavailable", "registry_incompatible"}
      /\ SearchRefusal(found) = None <=> schema = "search"
  BY <1>2, <1>3, RegistryAccepted, Reasons
<1>5. Reportable("search", LastWords("search", SearchRefusal(found)))
  BY <1>4 DEF Reportable, LastWords, Unreleased, Blocks, Fails
<1> QED BY <1>4, <1>5

\* The evidence e has the files of every row.
EvidenceHolds(e) == \A h \in rows : e[HandoffId(h)] = At("formal", h)

\* What show finds of a recorded Candidate agrees, unless its content is bound to an
\* earlier accept.
LEMMA ShowAgrees ==
  ASSUME IInv, SearchInv, NEW e, EvidenceHolds(e), NEW c \in Candidates, History(c) # {}
  PROVE  /\ {source[c], current[c]} \subseteq rows
         /\ BindingsAgree(c, e)
         /\ Shown(c, e) = [contentImport |-> source[c], statusImport |-> current[c]]
         /\ source[c] = Latest(AcceptsOf(History(c))) =>
              GovernanceAgrees(source[c], current[c])
<1> DEFINE H == History(c)
<1>1. /\ source[c] \in AcceptsOf(H) /\ source[c] \in H /\ current[c] \in H
      /\ H \subseteq rows /\ H \subseteq Handoffs /\ source[c].content = content[c]
      /\ \A g \in H : g.revision <= current[c].revision
      /\ \A g, h \in H : g.revision = h.revision => g = h
  BY StoredIs
<1>2. source[c].action = "accept" /\ source[c].candidate = c /\ current[c].candidate = c
  BY <1>1 DEF AcceptsOf, History
<1>3. /\ e[HandoffId(source[c])] = At("formal", source[c])
      /\ e[HandoffId(current[c])] = At("formal", current[c])
  BY <1>1 DEF EvidenceHolds
<1>4. BindingsAgree(c, e) /\ Shown(c, e) = [contentImport |-> source[c], statusImport |-> current[c]]
  BY <1>1, <1>2, <1>3, EvidenceFacts DEF BindingsAgree, Published, Shown
<1>5. ASSUME source[c] = Latest(AcceptsOf(H)) PROVE GovernanceAgrees(source[c], current[c])
  <2>1. current[c].action \in {"accept", "withdraw"}
        /\ source[c].revision \in Nat /\ current[c].revision \in Nat
    BY <1>1, IntakeAssumption DEF Handoffs, Accepts, Withdraws
  <2>2. CASE current[c].action = "accept"
    <3>1. AcceptsOf(H) \subseteq Handoffs /\ current[c] \in AcceptsOf(H)
      BY <1>1, <2>2 DEF AcceptsOf
    <3>2. Latest(AcceptsOf(H)) = current[c]
      <4>1. AcceptsOf(H) \subseteq H BY StoredIs
      <4> HIDE DEF H
      <4> QED BY <1>1, <3>1, <4>1, LatestIs
    <3> QED BY <1>5, <2>2, <3>2 DEF GovernanceAgrees
  <2>3. CASE current[c].action = "withdraw"
    <3>1. source[c] # current[c] BY <1>2, <2>3
    <3>2. source[c].revision <= current[c].revision /\ source[c].revision # current[c].revision
      BY <1>1, <3>1
    <3> QED BY <2>1, <2>3, <3>2 DEF GovernanceAgrees
  <2> QED BY <2>1, <2>2, <2>3
<1> QED BY <1>1, <1>4, <1>5

\* The refusals of show, by what is recorded.
LEMMA ShowRefuses ==
  ASSUME IInv, SearchInv, NEW e, EvidenceHolds(e), NEW c \in Candidates
  PROVE  ShowRefusal(c, e) =
           IF schema = "none" THEN "registry_unavailable"
           ELSE IF schema = "empty" THEN "registry_incompatible"
           ELSE IF History(c) = {} THEN "candidate_not_found"
           ELSE IF source[c] # Latest(AcceptsOf(History(c))) THEN "evidence_corrupt" ELSE None
<1>1. c \in Known <=> History(c) # {} BY StoredIs DEF Known
<1>2. History(c) # {} => /\ Latest(History(c)) = current[c]
                         /\ AcceptsOf(History(c)) # {}
  BY StoredIs
<1>3. CASE History(c) = {}
  BY <1>1, <1>3, RegistryAccepted, Reasons DEF ShowRefusal
<1>4. CASE History(c) # {}
  <2>1. {source[c], current[c]} \subseteq rows /\ BindingsAgree(c, e)
        /\ (source[c] = Latest(AcceptsOf(History(c))) => GovernanceAgrees(source[c], current[c]))
    BY <1>4, ShowAgrees
  <2> QED BY <1>1, <1>2, <1>4, <2>1, RegistryAccepted, Reasons DEF ShowRefusal
<1> QED BY <1>3, <1>4

LEMMA ShowIsFaithful ==
  ASSUME IInv, SearchInv, NEW e, EvidenceHolds(e), NEW c \in Candidates
  PROVE  LET H == History(c)  refusal == ShowRefusal(c, e)  shown == Shown(c, e) IN
         /\ Reportable("show", LastWords("show", refusal))
         /\ H = {} <=> refusal \in {"registry_unavailable", "registry_incompatible",
                                     "candidate_not_found"}
         /\ refusal \in {"registry_unavailable", "registry_incompatible"} =>
              rows = {} /\ SearchRefusal({}) = refusal
         /\ schema = "search" =>
              /\ H # {} => refusal = None
              /\ c \in Findable <=> H # {} /\ Latest(H).action = "accept"
         /\ refusal = "evidence_corrupt" =>
              schema = "base" /\ source[c] # Latest(AcceptsOf(H))
         /\ refusal = None =>
              /\ ResultAccepted(shown)
              /\ shown = [contentImport |-> Latest(AcceptsOf(H)), statusImport |-> Latest(H)]
              /\ \A g \in AcceptsOf(H) : g.content = shown.contentImport.content
              /\ ExitCode("show", refusal) = 0
         /\ refusal \in {None, "evidence_corrupt", "registry_unavailable",
                         "registry_incompatible", "candidate_not_found"}
<1> DEFINE H == History(c)
           refusal == ShowRefusal(c, e)
           shown == Shown(c, e)
<1>1. /\ schema \in {"none", "empty", "base", "search"}
      /\ schema \in {"none", "empty"} => rows = {} /\ H = {}
  BY DEF IInv, TypeOK, CountInv, History
<1>2. /\ refusal = IF schema = "none" THEN "registry_unavailable"
           ELSE IF schema = "empty" THEN "registry_incompatible"
           ELSE IF H = {} THEN "candidate_not_found"
           ELSE IF source[c] # Latest(AcceptsOf(H)) THEN "evidence_corrupt" ELSE None
  BY ShowRefuses
<1>3. refusal \in {None, "evidence_corrupt", "registry_unavailable", "registry_incompatible",
                   "candidate_not_found"}
  BY <1>2
<1>4. Reportable("show", LastWords("show", refusal))
  <2> HIDE DEF refusal
  <2> QED BY <1>3 DEF Reportable, LastWords, Unreleased, Blocks, Fails
<1>5. H = {} <=> refusal \in {"registry_unavailable", "registry_incompatible",
                              "candidate_not_found"}
  BY <1>1, <1>2, Reasons
<1>6. schema = "search" => (H # {} => refusal = None)
  BY <1>2, StoredIs
<1>7. schema = "search" => (c \in Findable <=> H # {} /\ Latest(H).action = "accept")
  BY StoredIs DEF SearchInv, Findable, Active, Known
<1>8. refusal = "evidence_corrupt" => schema = "base" /\ source[c] # Latest(AcceptsOf(H))
  BY <1>1, <1>2, Reasons, StoredIs
<1>9. ASSUME refusal = None
      PROVE  /\ ResultAccepted(shown)
             /\ shown = [contentImport |-> Latest(AcceptsOf(H)), statusImport |-> Latest(H)]
             /\ \A g \in AcceptsOf(H) : g.content = shown.contentImport.content
             /\ ExitCode("show", refusal) = 0
  <2>1. H # {} /\ source[c] = Latest(AcceptsOf(H)) BY <1>2, <1>9, Reasons
  <2>2. /\ current[c] = Latest(H) /\ source[c] \in AcceptsOf(H)
        /\ \A g \in AcceptsOf(H) : g.content = content[c]
    BY <2>1, StoredIs
  <2>3. /\ shown = [contentImport |-> source[c], statusImport |-> current[c]]
        /\ GovernanceAgrees(source[c], current[c])
    BY <2>1, ShowAgrees
  <2>4. source[c].action = "accept" BY <2>2 DEF AcceptsOf
  <2> HIDE DEF H, shown, refusal
  <2>5. shown.contentImport = source[c] /\ shown.statusImport = current[c] BY <2>3
  <2>6. ResultAccepted(shown) BY <2>3, <2>4, <2>5 DEF ResultAccepted
  <2>7. \A g \in AcceptsOf(H) : g.content = shown.contentImport.content
    BY <2>2, <2>5
  <2>8. ExitCode("show", refusal) = 0 BY <1>9 DEF ExitCode
  <2> QED BY <2>1, <2>2, <2>3, <2>6, <2>7, <2>8
<1>10. refusal \in {"registry_unavailable", "registry_incompatible"} =>
         rows = {} /\ SearchRefusal({}) = refusal
  BY <1>1, <1>2, RegistryAccepted, Reasons DEF SearchRefusal
<1> HIDE DEF H, refusal, shown
<1>11. /\ Reportable("show", LastWords("show", refusal))
       /\ H = {} <=> refusal \in {"registry_unavailable", "registry_incompatible",
                                   "candidate_not_found"}
       /\ refusal \in {"registry_unavailable", "registry_incompatible"} =>
            rows = {} /\ SearchRefusal({}) = refusal
       /\ schema = "search" =>
            /\ H # {} => refusal = None
            /\ c \in Findable <=> H # {} /\ Latest(H).action = "accept"
       /\ refusal = "evidence_corrupt" =>
            schema = "base" /\ source[c] # Latest(AcceptsOf(H))
       /\ refusal = None =>
            /\ ResultAccepted(shown)
            /\ shown = [contentImport |-> Latest(AcceptsOf(H)), statusImport |-> Latest(H)]
            /\ \A g \in AcceptsOf(H) : g.content = shown.contentImport.content
            /\ ExitCode("show", refusal) = 0
       /\ refusal \in {None, "evidence_corrupt", "registry_unavailable",
                       "registry_incompatible", "candidate_not_found"}
  BY <1>3, <1>4, <1>5, <1>6, <1>7, <1>8, <1>9, <1>10
<1> QED BY <1>11 DEF H, refusal, shown

LEMMA ReadsSound ==
  ASSUME IInv, SearchInv, NEW e, EvidenceHolds(e)
  PROVE  ReadsFaithfully(e)
BY SearchIsFaithful, ShowIsFaithful DEF ReadsFaithfully

\* Search and show accept what apply leaves behind at every moment, in one snapshot and
\* with evidence that is a step newer than the snapshot.
THEOREM ReadsFaithful == Spec => ReadsAreFaithful
<1>1. IInv /\ SearchInv => ReadsFaithfully(evidence)
  <2>1. IInv => EvidenceHolds(evidence) BY DEF IInv, FormalInv, EvidenceHolds
  <2> QED BY <2>1, ReadsSound
<1>2. IInv /\ SearchInv /\ [Next]_vars => EvidenceHolds(evidence')
  <2> SUFFICES ASSUME IInv, [Next]_vars, NEW h \in rows
               PROVE  evidence'[HandoffId(h)] = At("formal", h)
    BY DEF EvidenceHolds
  <2>1. HandoffId(h) \in Ids /\ evidence[HandoffId(h)] = At("formal", h)
    BY EvidenceFacts DEF IInv, TypeOK, FormalInv
  <2> QED BY <2>1, EvidenceFacts, FormalStays
<1>3. IInv /\ SearchInv /\ [Next]_vars /\ ReadsFaithfully(evidence)' =>
        [/\ evidence' # evidence => ReadsFaithfully(evidence')
         /\ registry' # registry => ReadsFaithfully(evidence)']_vars
  BY <1>2, ReadsSound
<1>4. Spec => []SearchInv BY InitSearch, StepSearch, Invariance, PTL DEF Spec
<1> QED BY <1>1, <1>3, <1>4, Invariance, PTL DEF Spec, ReadsAreFaithful

=============================================================================
