---------------------- MODULE CancellationLatchProofs ----------------------
(* Proofs about CancellationLatch, for any finite set of deliveries. *)
EXTENDS CancellationLatch, FiniteSetTheorems, TLAPS

LEMMA Constants == NoView \in Views /\ Outside \in Control /\ InitialSnapshot \in Snapshots
  BY LatchAssumption DEF NoView, Views, Outside, Control, Phases, InitialSnapshot, Snapshots

\* Each place of a thread, as a fact: the provers need not expand the sets.
LEMMA MainPlaces ==
  /\ "outside" \in MainPcs /\ "installing" \in MainPcs /\ "flagged" \in MainPcs
  /\ "armed" \in MainPcs /\ "run" \in MainPcs /\ "stopping" \in MainPcs
  /\ "snapPoison" \in MainPcs /\ "snapControl1" \in MainPcs /\ "snapGate1" \in MainPcs
  /\ "snapFlight1" \in MainPcs /\ "snapReady" \in MainPcs /\ "snapObservation" \in MainPcs
  /\ "snapFlight2" \in MainPcs /\ "snapGate2" \in MainPcs /\ "snapControl2" \in MainPcs
  /\ "workPoison1" \in MainPcs /\ "workGate1" \in MainPcs /\ "workControl1" \in MainPcs
  /\ "workControl2" \in MainPcs /\ "workGate2" \in MainPcs /\ "workPoison2" \in MainPcs
  /\ "cutPoison1" \in MainPcs /\ "cutGate" \in MainPcs /\ "cutBusy" \in MainPcs
  /\ "cutPoison2" \in MainPcs /\ "cutControl" \in MainPcs /\ "cutPoison3" \in MainPcs
  /\ "cutReopen" \in MainPcs /\ "sealPoison1" \in MainPcs /\ "sealGate" \in MainPcs
  /\ "sealPoison2" \in MainPcs /\ "sealControl" \in MainPcs /\ "sealClose" \in MainPcs
  /\ "sealDrain" \in MainPcs /\ "sealPoison3" \in MainPcs /\ "sealReopen" \in MainPcs
  /\ "release" \in MainPcs /\ "uninstall" \in MainPcs /\ "unregister" \in MainPcs
  /\ "retire" \in MainPcs /\ "done" \in MainPcs /\ "raised" \in MainPcs
  /\ "activate" \in Calls /\ "observe" \in Calls /\ "seal" \in Calls
  /\ "sealProof" \in Calls /\ "releaseProof" \in Calls
  /\ "none" \in Outcomes /\ "same" \in Outcomes /\ "moved" \in Outcomes
  /\ "yes" \in Outcomes /\ "no" \in Outcomes /\ "fail" \in Outcomes
  BY DEF MainPcs, Calls, Outcomes

LEMMA HandlerPlaces ==
  /\ "gateTop" \in HandlerPcs /\ "gateRead" \in HandlerPcs /\ "gatePhase" \in HandlerPcs
  /\ "gateFail" \in HandlerPcs /\ "gatePoison" \in HandlerPcs /\ "leaveDeclined" \in HandlerPcs
  /\ "leaveAdmitted" \in HandlerPcs /\ "claim" \in HandlerPcs /\ "stamp" \in HandlerPcs
  /\ "confirm" \in HandlerPcs /\ "publish" \in HandlerPcs /\ "await" \in HandlerPcs
  /\ "awaitPoison" \in HandlerPcs /\ "latchCheck" \in HandlerPcs /\ "latch" \in HandlerPcs
  /\ "landed" \in HandlerPcs /\ "aborted" \in HandlerPcs /\ "inGate" \in HandlerPcs
  /\ "backOut" \in HandlerPcs /\ "fly" \in HandlerPcs /\ "leaveLanded" \in HandlerPcs
  /\ "leaveAborted" \in HandlerPcs /\ "idle" \in HandlerPcs /\ "register" \in HandlerPcs
  /\ "registerPoison" \in HandlerPcs /\ "declined" \in HandlerPcs /\ "accepted" \in HandlerPcs
  /\ "swallowed" \in HandlerPcs
  BY DEF HandlerPcs, ObserverPcs, GatePcs, FlightPcs

\* Type correctness of the latch and the bridge: in particular the observer
\* count never goes below zero and the generation never passes its bound.
THEOREM TypeCorrect == Spec => []TypeOK
<1>1. Init => TypeOK
  <2> SUFFICES ASSUME Init PROVE TypeOK
    OBVIOUS
  <2>1. pc \in [Handlers -> HandlerPcs]
    BY HandlerPlaces DEF Init
  <2>2. observers \in [closed : BOOLEAN, failed : BOOLEAN, count : Nat]
    BY DEF Init
  <2>3. control \in Control /\ view \in Views /\ snap \in Snapshots
    BY Constants DEF Init
  <2>4. mpc \in MainPcs /\ call \in Calls /\ outcome \in Outcomes
    BY MainPlaces DEF Init
  <2>5. token \in 0..MaxToken
    BY LatchAssumption DEF Init
  <2>6. gate \in Int /\ inFlight \in Int /\ ready \in {-1, 0, 1}
    BY DEF Init
  <2>7. /\ poisoned \in BOOLEAN /\ installed \in BOOLEAN /\ registered \in BOOLEAN
        /\ refused \in BOOLEAN /\ idFormed \in BOOLEAN
        /\ observation \in Handlers \union {None}
    BY DEF Init
  <2> QED
    BY <2>1, <2>2, <2>3, <2>4, <2>5, <2>6, <2>7 DEF TypeOK
<1>2. TypeOK /\ [Next]_vars => TypeOK'
  <2> SUFFICES ASSUME TypeOK, [Next]_vars PROVE TypeOK'
    OBVIOUS
  <2> USE LatchAssumption, Constants DEF TypeOK, shared, os, locals, Bookkeeping
  <2>1. CASE UNCHANGED vars
    BY <2>1 DEF vars
  <2>2. ASSUME NEW h \in Handlers, Deliver(h) \/ HandlerStep(h)
        PROVE  TypeOK'
    <3> USE HandlerPlaces DEF Step
    <3>1. CASE Deliver(h)       BY <3>1 DEF Deliver
    <3>2. CASE Register(h)      BY <3>2 DEF Register
    <3>3. CASE Poison(h)        BY <3>3 DEF Poison
    <3>4. CASE GateTop(h)       BY <3>4 DEF GateTop
    <3>5. CASE GateRead(h)      BY <3>5 DEF GateRead
    <3>6. CASE GatePhase(h)     BY <3>6 DEF GatePhase
    <3>7. CASE GateFail(h)      BY <3>7 DEF GateFail
    <3>8. CASE LeaveObserver(h)
      <4>1. observers' \in [closed : BOOLEAN, failed : BOOLEAN, count : Nat]
        <5>1. CASE observers.count = 0
          BY <3>8, <5>1 DEF LeaveObserver
        <5>2. CASE observers.count # 0
          <6>1. observers.count - 1 \in Nat
            BY <5>2
          <6> QED BY <3>8, <5>2, <6>1 DEF LeaveObserver
        <5> QED BY <5>1, <5>2
      <4>2. pc' \in [Handlers -> HandlerPcs]
        BY <3>8 DEF LeaveObserver
      <4>3. poisoned' \in BOOLEAN
        BY <3>8 DEF LeaveObserver
      <4> QED BY <3>8, <4>1, <4>2, <4>3 DEF LeaveObserver
    <3>9. CASE CheckPhase(h)    BY <3>9 DEF CheckPhase
    <3>10. CASE LeaveGate(h)    BY <3>10 DEF LeaveGate
    <3>11. CASE Fly(h)          BY <3>11 DEF Fly
    <3>12. CASE Claim(h)        BY <3>12 DEF Claim
    <3>13. CASE Stamp(h)        BY <3>13 DEF Stamp
    <3>14. CASE Confirm(h)      BY <3>14 DEF Confirm
    <3>15. CASE Publish(h)      BY <3>15 DEF Publish
    <3>16. CASE Await(h)        BY <3>16 DEF Await
    <3>17. CASE LatchCheck(h)   BY <3>17 DEF LatchCheck
    <3>18. CASE Latch(h)
      <4>1. control' \in Control
        <5>1. CASE control.generation < MaxGeneration
          <6>1. control.generation + 1 \in 0..MaxGeneration
            BY <5>1 DEF Control
          <6> QED BY <3>18, <6>1 DEF Latch, Control
        <5>2. CASE ~(control.generation < MaxGeneration)
          BY <3>18, <5>2 DEF Latch
        <5> QED BY <5>1, <5>2
      <4>2. pc' \in [Handlers -> HandlerPcs] /\ poisoned' \in BOOLEAN
        BY <3>18 DEF Latch
      <4> QED BY <3>18, <4>1, <4>2 DEF Latch
    <3>19. CASE Land(h)         BY <3>19 DEF Land
    <3> QED
      BY <2>2, <3>1, <3>2, <3>3, <3>4, <3>5, <3>6, <3>7, <3>8, <3>9, <3>10, <3>11,
         <3>12, <3>13, <3>14, <3>15, <3>16, <3>17, <3>18, <3>19 DEF HandlerStep
  <2>3. ASSUME MainStep PROVE TypeOK'
    <3> USE MainPlaces DEF Goto, Snapshot
    <3>1. CASE Arm                BY <3>1 DEF Arm
    <3>2. CASE FlagRegistered     BY <3>2 DEF FlagRegistered
    <3>3. CASE EnterArmed         BY <3>3 DEF EnterArmed, Control, Phases
    <3>4. CASE Activate           BY <3>4 DEF Activate, Control, Phases
    <3>5. CASE Observe            BY <3>5 DEF Observe
    <3>6. CASE BeginWork          BY <3>6 DEF BeginWork
    <3>7. CASE CutOver            BY <3>7 DEF CutOver
    <3>8. CASE SealReport         BY <3>8 DEF SealReport
    <3>9. CASE ReadPoison         BY <3>9 DEF ReadPoison, PoisonReads
    <3>10. CASE ReadWord          BY <3>10 DEF ReadWord, Views
    <3>11. CASE SnapshotRetry     BY <3>11 DEF SnapshotRetry
    <3>12. CASE SnapshotReturn
      <4>1. Taken \in Snapshots
        BY DEF Taken, Snapshots, Control, Views
      <4>3. AfterSnapshot[call] \in MainPcs
        BY DEF AfterSnapshot, Calls
      <4>4. mpc' \in MainPcs /\ view' = NoView /\ snap' \in Snapshots
        BY <3>12, <4>1, <4>3 DEF SnapshotReturn
      <4>5. token' \in 0..MaxToken
        BY <3>12 DEF SnapshotReturn, SnapshotProves
      <4> QED BY <3>12, <4>4, <4>5 DEF SnapshotReturn
    <3>13. CASE WorkControlMoved  BY <3>13 DEF WorkControlMoved
    <3>14. CASE WorkVerdict       BY <3>14 DEF WorkVerdict
    <3>15. CASE ExcludeGate       BY <3>15 DEF ExcludeGate
    <3>16. CASE ReadPoisonExcluded BY <3>16 DEF ReadPoisonExcluded
    <3>17. CASE CutControl        BY <3>17 DEF CutControl, Control, Phases
    <3>18. CASE CutReopen         BY <3>18 DEF CutReopen
    <3>19. CASE SealControl
      <4>1. control' \in Control
        BY <3>19 DEF SealControl, Control, Phases
      <4> QED BY <3>19, <4>1 DEF SealControl
    <3>20. CASE SealClose         BY <3>20 DEF SealClose
    <3>21. CASE SealDrain         BY <3>21 DEF SealDrain
    <3>22. CASE SealReopen        BY <3>22 DEF SealReopen
    <3>23. CASE Release           BY <3>23 DEF Release
    <3>24. CASE Uninstall         BY <3>24 DEF Uninstall
    <3>25. CASE Unregister        BY <3>25 DEF Unregister
    <3>26. CASE Retire            BY <3>26 DEF Retire, Control, Phases
    <3> QED
      BY <2>3, <3>1, <3>2, <3>3, <3>4, <3>5, <3>6, <3>7, <3>8, <3>9, <3>10, <3>11,
         <3>12, <3>13, <3>14, <3>15, <3>16, <3>17, <3>18, <3>19, <3>20, <3>21, <3>22,
         <3>23, <3>24, <3>25, <3>26 DEF MainStep
  <2> QED
    BY <2>1, <2>2, <2>3 DEF Next
<1> QED
  BY <1>1, <1>2, PTL DEF Spec

-----------------------------------------------------------------------------
(* Counting threads.                                                       *)

In(pcs) == {h \in Handlers : pc[h] \in pcs}

LEMMA CountIsNat ==
  ASSUME NEW S PROVE Count(S) \in Nat
  <1>1. IsFiniteSet(In(S))
    BY LatchAssumption, FS_Subset DEF In
  <1> QED BY <1>1, FS_CardinalityType DEF Count, In

LEMMA CountZero ==
  ASSUME NEW S PROVE Count(S) = 0 <=> \A h \in Handlers : pc[h] \notin S
  <1>1. IsFiniteSet(In(S))
    BY LatchAssumption, FS_Subset DEF In
  <1>2. Count(S) = 0 <=> In(S) = {}
    BY <1>1, FS_EmptySet DEF Count, In
  <1> QED BY <1>2 DEF In

\* When one thread moves, a count changes by what the thread leaves and enters.
LEMMA CountMoves ==
  ASSUME pc \in [Handlers -> HandlerPcs], NEW h \in Handlers, NEW from, NEW to,
         Step(h, from, to), NEW S
  PROVE  Count(S)' = Count(S) + (IF to \in S THEN 1 ELSE 0)
                              - (IF from \in S THEN 1 ELSE 0)
  <1>1. IsFiniteSet(In(S))
    BY LatchAssumption, FS_Subset DEF In
  <1>2. Cardinality(In(S)) \in Nat
    BY <1>1, FS_CardinalityType
  <1>3. \A g \in Handlers : pc'[g] = IF g = h THEN to ELSE pc[g]
    BY DEF Step
  <1>4. pc[h] = from
    BY DEF Step
  <1>a. Count(S) = Cardinality(In(S)) /\ Count(S)' = Cardinality(In(S)')
    BY DEF Count, In
  <1>5. CASE to \in S /\ from \in S
    <2>1. In(S)' = In(S)
      BY <1>3, <1>4, <1>5 DEF In
    <2> QED BY <2>1, <1>2, <1>5, <1>a
  <1>6. CASE to \notin S /\ from \notin S
    <2>1. In(S)' = In(S)
      BY <1>3, <1>4, <1>6 DEF In
    <2> QED BY <2>1, <1>2, <1>6, <1>a
  <1>7. CASE to \in S /\ from \notin S
    <2>1. In(S)' = In(S) \union {h} /\ h \notin In(S)
      BY <1>3, <1>4, <1>7 DEF In
    <2>2. Cardinality(In(S)') = Cardinality(In(S)) + 1
      BY <2>1, <1>1, FS_AddElement
    <2> QED BY <2>2, <1>2, <1>7, <1>a
  <1>8. CASE to \notin S /\ from \in S
    <2>1. In(S)' = In(S) \ {h} /\ h \in In(S)
      BY <1>3, <1>4, <1>8 DEF In
    <2>2. Cardinality(In(S)') = Cardinality(In(S)) - 1
      BY <2>1, <1>1, FS_RemoveElement
    <2> QED BY <2>2, <1>2, <1>8, <1>a
  <1> QED BY <1>5, <1>6, <1>7, <1>8

-----------------------------------------------------------------------------
(* The counters.  CountersAreExact is inductive with the types alone.      *)

CountersInv == TypeOK /\ CountersAreExact /\ GenerationCountsAccepted

LEMMA CountsUnchanged ==
  ASSUME UNCHANGED pc
  PROVE  \A S \in {GatePcs, ObserverPcs, FlightPcs, CountedPcs} : Count(S)' = Count(S)
  BY DEF Count

LEMMA HandlersKeepCounters ==
  ASSUME CountersInv, NEW h \in Handlers, Deliver(h) \/ HandlerStep(h)
  PROVE  CountersAreExact' /\ GenerationCountsAccepted'
<1> DEFINE Counted(from, to) ==
      \A S \in {GatePcs, ObserverPcs, FlightPcs, CountedPcs} :
         Count(S)' = Count(S) + (IF to \in S THEN 1 ELSE 0) - (IF from \in S THEN 1 ELSE 0)
<1>1. ASSUME NEW from, NEW to, Step(h, from, to)
      PROVE  Counted(from, to)
  BY <1>1, CountMoves DEF CountersInv, TypeOK
<1>2. /\ Count(GatePcs) \in Nat /\ Count(ObserverPcs) \in Nat
      /\ Count(FlightPcs) \in Nat /\ Count(CountedPcs) \in Nat
  BY CountIsNat
<1>3. /\ gate \in Int /\ inFlight \in Int /\ observers.count \in Nat
      /\ control.generation \in Nat /\ pc \in [Handlers -> HandlerPcs]
      /\ observers \in [closed : BOOLEAN, failed : BOOLEAN, count : Nat]
      /\ control \in [phase : Phases, latched : BOOLEAN,
                     generation : 0..MaxGeneration, token : 0..MaxToken]
  BY DEF CountersInv, TypeOK, Control
<1>0. \A S \in {GatePcs, ObserverPcs} : pc[h] \in S => Count(S) # 0
  BY CountZero
<1> DEFINE Change(g, o, f, c) ==
      /\ Count(GatePcs)' = Count(GatePcs) + g /\ Count(ObserverPcs)' = Count(ObserverPcs) + o
      /\ Count(FlightPcs)' = Count(FlightPcs) + f /\ Count(CountedPcs)' = Count(CountedPcs) + c
<1> HIDE DEF Counted
<1> USE <1>2, <1>3 DEF CountersInv, CountersAreExact, GenerationCountsAccepted,
      shared, os, locals
<1>d. CASE Deliver(h)       BY <1>d, <1>1 DEF Deliver, Counted,
       GatePcs, ObserverPcs, FlightPcs, CountedPcs
<1>4. CASE Register(h)
  <2>1. CASE Step(h, "register", "declined")
    <3>1. Change(0, 0, 0, 0)
      BY <1>1, <2>1 DEF Counted, GatePcs, ObserverPcs, FlightPcs, CountedPcs
    <3> QED BY <1>4, <2>1, <3>1 DEF Register, Step
  <2>2. CASE Step(h, "register", "registerPoison")
    <3>1. Change(0, 0, 0, 0)
      BY <1>1, <2>2 DEF Counted, GatePcs, ObserverPcs, FlightPcs, CountedPcs
    <3> QED BY <1>4, <2>2, <3>1 DEF Register, Step
  <2>3. CASE Step(h, "register", "gateTop")
    <3>1. Change(0, 1, 0, 0)
      BY <1>1, <2>3 DEF Counted, GatePcs, ObserverPcs, FlightPcs, CountedPcs
    <3> QED BY <1>4, <2>3, <3>1 DEF Register, Step
  <2> QED BY <1>4, <2>1, <2>2, <2>3 DEF Register
<1>5. CASE Poison(h)
  <2>1. CASE Step(h, "registerPoison", "declined")
    <3>1. Change(0, 0, 0, 0)
      BY <1>1, <2>1 DEF Counted, GatePcs, ObserverPcs, FlightPcs, CountedPcs
    <3> QED BY <1>5, <2>1, <3>1 DEF Poison, Step
  <2>2. CASE Step(h, "gatePoison", "leaveDeclined")
    <3>1. Change(0, 0, 0, 0)
      BY <1>1, <2>2 DEF Counted, GatePcs, ObserverPcs, FlightPcs, CountedPcs
    <3> QED BY <1>5, <2>2, <3>1 DEF Poison, Step
  <2>3. CASE Step(h, "awaitPoison", "latchCheck")
    <3>1. Change(0, 0, 0, 0)
      BY <1>1, <2>3 DEF Counted, GatePcs, ObserverPcs, FlightPcs, CountedPcs
    <3> QED BY <1>5, <2>3, <3>1 DEF Poison, Step
  <2> QED BY <1>5, <2>1, <2>2, <2>3 DEF Poison
<1>6. CASE GateTop(h)       BY <1>6, <1>1 DEF GateTop, Counted,
       GatePcs, ObserverPcs, FlightPcs, CountedPcs
<1>7. CASE GateRead(h)
  <2>1. CASE Step(h, "gateRead", "gatePhase")
    <3>1. Change(0, 0, 0, 0)
      BY <1>1, <2>1 DEF Counted, GatePcs, ObserverPcs, FlightPcs, CountedPcs
    <3> QED BY <1>7, <2>1, <3>1 DEF GateRead, Step
  <2>2. CASE Step(h, "gateRead", "leaveAdmitted")
    <3>1. Change(1, 0, 0, 0)
      BY <1>1, <2>2 DEF Counted, GatePcs, ObserverPcs, FlightPcs, CountedPcs
    <3> QED BY <1>7, <2>2, <3>1 DEF GateRead, Step
  <2> QED BY <1>7, <2>1, <2>2 DEF GateRead
<1>8. CASE GatePhase(h)     BY <1>8, <1>1 DEF GatePhase, Counted,
       GatePcs, ObserverPcs, FlightPcs, CountedPcs
<1>9. CASE GateFail(h)      BY <1>9, <1>1 DEF GateFail, Counted,
       GatePcs, ObserverPcs, FlightPcs, CountedPcs
<1>10. CASE LeaveObserver(h)
  <2>1. CASE Step(h, "leaveDeclined", "declined")
    <3>1. Change(0, -1, 0, 0)
      BY <1>1, <2>1 DEF Counted, GatePcs, ObserverPcs, FlightPcs, CountedPcs
    <3>2. Count(ObserverPcs) # 0
      BY <1>0, <2>1 DEF Step, GatePcs, ObserverPcs
    <3> QED BY <1>10, <2>1, <3>1, <3>2 DEF LeaveObserver
  <2>2. CASE Step(h, "leaveAdmitted", "inGate")
    <3>1. Change(0, -1, 0, 0)
      BY <1>1, <2>2 DEF Counted, GatePcs, ObserverPcs, FlightPcs, CountedPcs
    <3>2. Count(ObserverPcs) # 0
      BY <1>0, <2>2 DEF Step, GatePcs, ObserverPcs
    <3> QED BY <1>10, <2>2, <3>1, <3>2 DEF LeaveObserver
  <2> QED BY <1>10, <2>1, <2>2 DEF LeaveObserver
<1>11. CASE CheckPhase(h)
  <2>1. CASE Step(h, "inGate", "fly")
    <3>1. Change(0, 0, 0, 0)
      BY <1>1, <2>1 DEF Counted, GatePcs, ObserverPcs, FlightPcs, CountedPcs
    <3> QED BY <1>11, <2>1, <3>1 DEF CheckPhase, Step
  <2>2. CASE Step(h, "inGate", "backOut")
    <3>1. Change(0, 0, 0, 0)
      BY <1>1, <2>2 DEF Counted, GatePcs, ObserverPcs, FlightPcs, CountedPcs
    <3> QED BY <1>11, <2>2, <3>1 DEF CheckPhase, Step
  <2> QED BY <1>11, <2>1, <2>2 DEF CheckPhase
<1>12. CASE LeaveGate(h)
  <2>1. CASE Step(h, "backOut", "declined")
    <3>1. Change(-1, 0, 0, 0)
      BY <1>1, <2>1 DEF Counted, GatePcs, ObserverPcs, FlightPcs, CountedPcs
    <3>2. Count(GatePcs) # 0
      BY <1>0, <2>1 DEF Step, GatePcs, ObserverPcs
    <3> QED BY <1>12, <2>1, <3>1, <3>2 DEF LeaveGate
  <2>2. CASE Step(h, "leaveLanded", "accepted")
    <3>1. Change(-1, 0, 0, 0)
      BY <1>1, <2>2 DEF Counted, GatePcs, ObserverPcs, FlightPcs, CountedPcs
    <3>2. Count(GatePcs) # 0
      BY <1>0, <2>2 DEF Step, GatePcs, ObserverPcs
    <3> QED BY <1>12, <2>2, <3>1, <3>2 DEF LeaveGate
  <2>3. CASE Step(h, "leaveAborted", "swallowed")
    <3>1. Change(-1, 0, 0, 0)
      BY <1>1, <2>3 DEF Counted, GatePcs, ObserverPcs, FlightPcs, CountedPcs
    <3>2. Count(GatePcs) # 0
      BY <1>0, <2>3 DEF Step, GatePcs, ObserverPcs
    <3> QED BY <1>12, <2>3, <3>1, <3>2 DEF LeaveGate
  <2> QED BY <1>12, <2>1, <2>2, <2>3 DEF LeaveGate
<1>13. CASE Fly(h)          BY <1>13, <1>1 DEF Fly, Counted,
       GatePcs, ObserverPcs, FlightPcs, CountedPcs
<1>14. CASE Claim(h)        BY <1>14, <1>1 DEF Claim, Counted,
       GatePcs, ObserverPcs, FlightPcs, CountedPcs
<1>15. CASE Stamp(h)        BY <1>15, <1>1 DEF Stamp, Counted,
       GatePcs, ObserverPcs, FlightPcs, CountedPcs
<1>16. CASE Confirm(h)      BY <1>16, <1>1 DEF Confirm, Counted,
       GatePcs, ObserverPcs, FlightPcs, CountedPcs
<1>17. CASE Publish(h)      BY <1>17, <1>1 DEF Publish, Counted,
       GatePcs, ObserverPcs, FlightPcs, CountedPcs
<1>18. CASE Await(h)        BY <1>18, <1>1 DEF Await, Counted,
       GatePcs, ObserverPcs, FlightPcs, CountedPcs
<1>19. CASE LatchCheck(h)   BY <1>19, <1>1 DEF LatchCheck, Counted,
       GatePcs, ObserverPcs, FlightPcs, CountedPcs
<1>20. CASE Latch(h)
  <2>1. CASE Step(h, "latch", "landed")
    <3>1. Change(0, 0, 0, 1)
      BY <1>1, <2>1 DEF Counted, GatePcs, ObserverPcs, FlightPcs, CountedPcs
    <3>2. control' = [control EXCEPT !.latched = TRUE, !.generation = @ + 1]
      BY <1>20, <2>1 DEF Latch, Step
    <3>3. control'.generation = control.generation + 1 /\ control'.latched = TRUE
      BY <3>2
    <3>4. mpc' = mpc /\ gate' = gate /\ inFlight' = inFlight /\ observers' = observers
      BY <1>20 DEF Latch
    <3>5. CountersAreExact'
      BY <3>1, <3>4
    <3>6. control'.generation > 0
      BY <3>3
    <3>7. GenerationCountsAccepted'
      BY <3>1, <3>3, <3>6
    <3> QED BY <3>5, <3>7
  <2>2. CASE Step(h, "latch", "aborted")
    <3>1. Change(0, 0, 0, 0)
      BY <1>1, <2>2 DEF Counted, GatePcs, ObserverPcs, FlightPcs, CountedPcs
    <3> QED BY <1>20, <2>2, <3>1 DEF Latch, Step
  <2> QED BY <1>20, <2>1, <2>2 DEF Latch
<1>21. CASE Land(h)
  <2>1. CASE Step(h, "landed", "leaveLanded")
    <3>1. Change(0, 0, -1, 0)
      BY <1>1, <2>1 DEF Counted, GatePcs, ObserverPcs, FlightPcs, CountedPcs
    <3> QED BY <1>21, <2>1, <3>1 DEF Land
  <2>2. CASE Step(h, "aborted", "leaveAborted")
    <3>1. Change(0, 0, -1, 0)
      BY <1>1, <2>2 DEF Counted, GatePcs, ObserverPcs, FlightPcs, CountedPcs
    <3> QED BY <1>21, <2>2, <3>1 DEF Land
  <2> QED BY <1>21, <2>1, <2>2 DEF Land
<1> QED
  BY <1>d, <1>4, <1>5, <1>6, <1>7, <1>8, <1>9, <1>10, <1>11, <1>12, <1>13, <1>14,
     <1>15, <1>16, <1>17, <1>18, <1>19, <1>20, <1>21 DEF HandlerStep

LEMMA MainKeepsCounters ==
  ASSUME CountersInv, MainStep
  PROVE  CountersAreExact' /\ GenerationCountsAccepted'
<1>1. pc' = pc
  BY DEF MainStep, Arm, FlagRegistered, EnterArmed, Activate, Observe, BeginWork, CutOver,
     SealReport, ReadPoison, ReadWord, SnapshotRetry, SnapshotReturn, WorkControlMoved,
     WorkVerdict, ExcludeGate, ReadPoisonExcluded, CutControl, CutReopen, SealControl,
     SealClose, SealDrain, SealReopen, Release, Uninstall, Unregister, Retire, os
<1>2. \A S \in {GatePcs, ObserverPcs, FlightPcs, CountedPcs} : Count(S)' = Count(S)
  BY <1>1, CountsUnchanged
<1>3. /\ inFlight' = inFlight /\ observers'.count = observers.count
      /\ control'.generation = control.generation /\ control'.latched = control.latched
  <2>1. /\ control \in [phase : Phases, latched : BOOLEAN,
                     generation : 0..MaxGeneration, token : 0..MaxToken]
        /\ observers \in [closed : BOOLEAN, failed : BOOLEAN, count : Nat]
    BY DEF CountersInv, TypeOK, Control
  <2>2. control' = control \/ (\E p : control' = [control EXCEPT !.phase = p])
            \/ (\E p, t : control' = [control EXCEPT !.phase = p, !.token = t])
    BY DEF MainStep, Arm, FlagRegistered, EnterArmed, Activate, Observe, BeginWork, CutOver,
     SealReport, ReadPoison, ReadWord, SnapshotRetry, SnapshotReturn, WorkControlMoved,
     WorkVerdict, ExcludeGate, ReadPoisonExcluded, CutControl, CutReopen, SealControl,
     SealClose, SealDrain, SealReopen, Release, Uninstall, Unregister, Retire, shared
  <2>3. control'.generation = control.generation /\ control'.latched = control.latched
    BY <2>1, <2>2
  <2>4. observers' = observers \/ observers' = [observers EXCEPT !.closed = TRUE]
    BY DEF MainStep, Arm, FlagRegistered, EnterArmed, Activate, Observe, BeginWork, CutOver,
     SealReport, ReadPoison, ReadWord, SnapshotRetry, SnapshotReturn, WorkControlMoved,
     WorkVerdict, ExcludeGate, ReadPoisonExcluded, CutControl, CutReopen, SealControl,
     SealClose, SealDrain, SealReopen, Release, Uninstall, Unregister, Retire, shared
  <2>5. inFlight' = inFlight
    BY DEF MainStep, Arm, FlagRegistered, EnterArmed, Activate, Observe, BeginWork, CutOver,
     SealReport, ReadPoison, ReadWord, SnapshotRetry, SnapshotReturn, WorkControlMoved,
     WorkVerdict, ExcludeGate, ReadPoisonExcluded, CutControl, CutReopen, SealControl,
     SealClose, SealDrain, SealReopen, Release, Uninstall, Unregister, Retire, shared
  <2> QED BY <2>1, <2>3, <2>4, <2>5
<1>4. GenerationCountsAccepted'
  BY <1>2, <1>3 DEF CountersInv, GenerationCountsAccepted
<1>5. \/ gate' = gate /\ (mpc' \in ExclusivePcs <=> mpc \in ExclusivePcs)
      \/ gate = 0 /\ gate' = -1 /\ mpc \notin ExclusivePcs /\ mpc' \in ExclusivePcs
      \/ gate' = 0 /\ mpc \in ExclusivePcs /\ mpc' \notin ExclusivePcs
  <2> USE DEF Goto, ExclusivePcs
  <2>1. CASE ExcludeGate BY <2>1 DEF ExcludeGate
  <2>2. CASE CutReopen   BY <2>2 DEF CutReopen
  <2>3. CASE SealReopen  BY <2>3 DEF SealReopen
  <2>4. CASE ReadPoisonExcluded BY <2>4 DEF ReadPoisonExcluded, shared
  <2>5. CASE CutControl \/ SealControl \/ SealClose \/ SealDrain
    BY <2>5 DEF CutControl, SealControl, SealClose, SealDrain
  <2>6. CASE Arm \/ FlagRegistered \/ EnterArmed \/ Activate \/ Observe \/ BeginWork
             \/ CutOver \/ SealReport \/ ReadWord
    BY <2>6 DEF Arm, FlagRegistered, EnterArmed, Activate, Observe, BeginWork, CutOver,
       SealReport, ReadWord, shared
  <2>7. CASE ReadPoison BY <2>7 DEF ReadPoison, PoisonReads, shared
  <2>8. CASE SnapshotRetry \/ SnapshotReturn \/ WorkControlMoved \/ WorkVerdict
    BY <2>8 DEF SnapshotRetry, SnapshotReturn, WorkControlMoved, WorkVerdict, shared,
       AfterSnapshot, CountersInv, TypeOK, Calls
  <2>9. CASE Release \/ Uninstall \/ Unregister \/ Retire
    BY <2>9 DEF Release, Uninstall, Unregister, Retire, shared
  <2> QED BY <2>1, <2>2, <2>3, <2>4, <2>5, <2>6, <2>7, <2>8, <2>9 DEF MainStep
<1>6. CountersAreExact'
  BY <1>2, <1>3, <1>5 DEF CountersInv, CountersAreExact
<1> QED BY <1>4, <1>6

LEMMA CountersInvariant == Spec => []CountersInv
<1>1. Init => CountersAreExact /\ GenerationCountsAccepted
  <2> SUFFICES ASSUME Init PROVE CountersAreExact /\ GenerationCountsAccepted
    OBVIOUS
  <2>1. \A h \in Handlers : pc[h] = "idle"
    BY DEF Init
  <2>2. /\ Count(GatePcs) = 0 /\ Count(ObserverPcs) = 0
        /\ Count(FlightPcs) = 0 /\ Count(CountedPcs) = 0
    BY <2>1, CountZero DEF GatePcs, ObserverPcs, FlightPcs, CountedPcs
  <2>3. mpc \notin ExclusivePcs
    BY DEF Init, ExclusivePcs
  <2>4. CountersAreExact
    BY <2>2, <2>3 DEF Init, CountersAreExact
  <2>5. control.generation = 0 /\ control.latched = FALSE
    BY DEF Init, Outside
  <2>6. (control.generation > 0) = FALSE
    BY <2>5
  <2> QED BY <2>2, <2>4, <2>5, <2>6 DEF GenerationCountsAccepted
<1>2. TypeOK /\ TypeOK' /\ CountersAreExact /\ GenerationCountsAccepted /\ [Next]_vars
        => CountersAreExact' /\ GenerationCountsAccepted'
  <2> SUFFICES ASSUME CountersInv, [Next]_vars
               PROVE  CountersAreExact' /\ GenerationCountsAccepted'
    BY DEF CountersInv
  <2>1. CASE UNCHANGED vars
    BY <2>1 DEF vars, shared, os, locals, CountersInv, CountersAreExact,
       GenerationCountsAccepted, Count
  <2>2. CASE Next
    BY <2>2, MainKeepsCounters, HandlersKeepCounters DEF Next
  <2> QED BY <2>1, <2>2
<1> QED BY <1>1, <1>2, TypeCorrect, PTL DEF Spec, CountersInv

\* No interleaving of deliveries, cutover and seal makes one of the lock-free
\* counters of the native latch lose or gain a thread.
THEOREM CountersCorrect == Spec => []CountersAreExact
  BY CountersInvariant, PTL DEF CountersInv

\* Exactly the swallowed deliveries are counted in the generation that the seal
\* compares.
THEOREM GenerationCorrect == Spec => []GenerationCountsAccepted
  BY CountersInvariant, PTL DEF CountersInv

(*************************************************************************)
(* What the seal guarantees: the observation is published before the     *)
(* latch, no delivery is active once the seal has returned, the sealed   *)
(* report is the current one, and the latch implements CancellationWindow.*)
(*************************************************************************)

\* Only the claimer writes the observation, once, and nobody latches before it
\* is published.
Claimers == {"stamp", "confirm", "publish"}
PublicationInv ==
  /\ \A h \in Handlers : pc[h] \in Claimers => ready = -1
  /\ \A g, h \in Handlers : pc[g] \in Claimers /\ pc[h] \in Claimers => g = h
  /\ \A h \in Handlers : pc[h] = "stamp" => observation = None
  /\ \A h \in Handlers : pc[h] \in {"confirm", "publish"} => observation # None
  /\ ready = 0 => observation = None
  /\ ready = 1 => observation # None
  /\ \A h \in Handlers : pc[h] = "latchCheck" => ready = 1 \/ poisoned
  /\ \A h \in Handlers : pc[h] \in {"latch", "landed"} => ready = 1
  /\ control.latched => ready = 1

\* A delivery is given up only once the latch is poisoned, and the poison of a
\* failed registration is either seen by the seal or never written.
PoisonInv ==
  /\ \A h \in Handlers : pc[h] \in {"aborted", "leaveAborted", "swallowed"} => poisoned
  /\ \A h \in Handlers : pc[h] \in {"registerPoison", "gatePoison"} =>
       observers.failed /\ (observers.closed => poisoned)

\* A delivery that is past the phase check keeps the window open.
FlightInv ==
  Accepting(control) \/ \A h \in Handlers : pc[h] \notin {"fly"} \union FlightPcs

Settled == {"idle", "register", "declined", "accepted"}
Quiet == ~poisoned /\ observers.closed /\ \A h \in Handlers : pc[h] \in Settled

SealInv ==
  /\ mpc \in {"sealDrain", "sealPoison3"} => observers.closed
  /\ mpc = "sealPoison3" => observers.count = 0
  /\ mpc = "sealReopen" /\ outcome = "yes" => Quiet
  /\ SealReturned => Quiet

\* What main has read is still so where it must be.
ViewInv ==
  /\ view.ready = 1 => ready = 1
  /\ mpc \in {"snapFlight2", "snapGate2", "snapControl2"} /\ view.ready = 1
       => view.observation = observation
  /\ snap.latched = (snap.generation > 0)
  /\ snap.observation = (IF snap.latched THEN observation ELSE None)
  /\ snap.latched => ready = 1

Closed == {"outside", "armed"}
SealedPcs == {"sealClose", "sealDrain", "sealPoison3", "release", "uninstall",
              "unregister", "retire", "done", "raised"}
CutPcs == {"cutPoison1", "cutGate", "cutBusy", "cutPoison2", "cutControl",
           "cutPoison3", "cutReopen"}
PhaseInv ==
  /\ mpc \in {"outside", "installing", "flagged"} => control.phase = "outside"
  /\ mpc = "armed" => control.phase = "armed"
  /\ control.phase \in Closed => mpc \in {"outside", "installing", "flagged", "armed", "raised"}
  /\ control.phase \in {"sealed", "released"} =>
       /\ \/ mpc \in SealedPcs
          \/ mpc = "sealReopen" /\ outcome \in {"yes", "fail"}
          \/ mpc \in SnapPcs /\ call \in {"sealProof", "releaseProof"}
       /\ snap.generation = control.generation
       /\ token = control.token
  /\ SealReturned => control.phase \in {"sealed", "released"}
  /\ mpc = "sealReopen" /\ outcome = "yes" => control.phase = "sealed"
  /\ mpc \in {"sealClose", "sealDrain", "sealPoison3", "release", "uninstall", "unregister", "retire"} => control.phase = "sealed"
  /\ mpc \in SnapPcs /\ call = "sealProof" => control.phase = "sealed"
  /\ mpc \in CutPcs => ~idFormed
  /\ mpc = "cutPoison3" => control.phase = "post_id"
  /\ mpc = "cutReopen" /\ outcome = "yes" => control.phase = "post_id"
  /\ control.phase = "post_id" =>
       idFormed \/ mpc \in {"cutPoison3", "raised"} \/ (mpc = "cutReopen" /\ outcome = "yes")
                \/ (mpc = "cutReopen" /\ outcome = "fail")

SealProofInv == CountersInv /\ PublicationInv /\ PoisonInv /\ FlightInv /\ SealInv
                /\ ViewInv /\ PhaseInv

-----------------------------------------------------------------------------
(* What the steps of either side leave alone.                              *)

LEMMA MainFrame ==
  ASSUME TypeOK, MainStep
  PROVE  /\ UNCHANGED <<pc, ready, observation, inFlight>>
         /\ control'.latched = control.latched /\ control'.generation = control.generation
         /\ observers'.failed = observers.failed /\ observers'.count = observers.count
         /\ observers.closed => observers'.closed
         /\ poisoned => poisoned'
<1>1. UNCHANGED <<pc, ready, observation, inFlight>>
  BY DEF MainStep, Arm, FlagRegistered, EnterArmed, Activate, Observe, BeginWork, CutOver,
     SealReport, ReadPoison, ReadWord, SnapshotRetry, SnapshotReturn, WorkControlMoved,
     WorkVerdict, ExcludeGate, ReadPoisonExcluded, CutControl, CutReopen, SealControl,
     SealClose, SealDrain, SealReopen, Release, Uninstall, Unregister, Retire,
     shared, os
<1>2. /\ control \in [phase : Phases, latched : BOOLEAN,
                     generation : 0..MaxGeneration, token : 0..MaxToken]
      /\ observers \in [closed : BOOLEAN, failed : BOOLEAN, count : Nat]
  BY DEF TypeOK, Control
<1>3. control' = control \/ (\E p : control' = [control EXCEPT !.phase = p])
            \/ (\E p, t : control' = [control EXCEPT !.phase = p, !.token = t])
  BY DEF MainStep, Arm, FlagRegistered, EnterArmed, Activate, Observe, BeginWork, CutOver,
     SealReport, ReadPoison, ReadWord, SnapshotRetry, SnapshotReturn, WorkControlMoved,
     WorkVerdict, ExcludeGate, ReadPoisonExcluded, CutControl, CutReopen, SealControl,
     SealClose, SealDrain, SealReopen, Release, Uninstall, Unregister, Retire,
     shared
<1>4. observers' = observers \/ observers' = [observers EXCEPT !.closed = TRUE]
  BY DEF MainStep, Arm, FlagRegistered, EnterArmed, Activate, Observe, BeginWork, CutOver,
     SealReport, ReadPoison, ReadWord, SnapshotRetry, SnapshotReturn, WorkControlMoved,
     WorkVerdict, ExcludeGate, ReadPoisonExcluded, CutControl, CutReopen, SealControl,
     SealClose, SealDrain, SealReopen, Release, Uninstall, Unregister, Retire,
     shared
<1>5. poisoned => poisoned'
  BY DEF MainStep, Arm, FlagRegistered, EnterArmed, Activate, Observe, BeginWork, CutOver,
     SealReport, ReadPoison, ReadWord, SnapshotRetry, SnapshotReturn, WorkControlMoved,
     WorkVerdict, ExcludeGate, ReadPoisonExcluded, CutControl, CutReopen, SealControl,
     SealClose, SealDrain, SealReopen, Release, Uninstall, Unregister, Retire,
     shared
<1>6. control'.latched = control.latched /\ control'.generation = control.generation
  BY <1>2, <1>3
<1>7. /\ observers'.failed = observers.failed /\ observers'.count = observers.count
      /\ observers.closed => observers'.closed
  BY <1>2, <1>4
<1> QED BY <1>1, <1>5, <1>6, <1>7

HandlerMoves(h) == Deliver(h) \/ HandlerStep(h)

LEMMA HandlerFrame ==
  ASSUME TypeOK, NEW h \in Handlers, HandlerMoves(h)
  PROVE  /\ UNCHANGED <<mpc, call, view, snap, token, outcome, refused, idFormed>>
         /\ control'.phase = control.phase /\ control'.token = control.token
         /\ observers'.closed = observers.closed /\ (observers.failed => observers'.failed)
         /\ poisoned => poisoned'
         /\ \A g \in Handlers : g # h => pc'[g] = pc[g]
<1>1. UNCHANGED <<mpc, call, view, snap, token, outcome, refused, idFormed>>
  BY DEF HandlerMoves, HandlerStep, Deliver, Register, Poison, GateTop, GateRead, GatePhase,
     GateFail, LeaveObserver,
     CheckPhase, LeaveGate, Fly, Claim, Stamp, Confirm, Publish, Await, LatchCheck,
     Latch, Land, locals
<1>2. /\ control \in [phase : Phases, latched : BOOLEAN,
                     generation : 0..MaxGeneration, token : 0..MaxToken]
      /\ observers \in [closed : BOOLEAN, failed : BOOLEAN, count : Nat]
  BY DEF TypeOK, Control
<1>3. control' = control \/ control' = [control EXCEPT !.latched = TRUE, !.generation = @ + 1]
  BY DEF HandlerMoves, HandlerStep, Deliver, Register, Poison, GateTop, GateRead, GatePhase,
     GateFail, LeaveObserver,
     CheckPhase, LeaveGate, Fly, Claim, Stamp, Confirm, Publish, Await, LatchCheck,
     Latch, Land, shared
<1>4. \/ observers' = observers \/ observers' = [observers EXCEPT !.failed = TRUE]
      \/ \E n : observers' = [observers EXCEPT !.count = n]
  BY DEF HandlerMoves, HandlerStep, Deliver, Register, Poison, GateTop, GateRead, GatePhase,
     GateFail, LeaveObserver,
     CheckPhase, LeaveGate, Fly, Claim, Stamp, Confirm, Publish, Await, LatchCheck,
     Latch, Land, shared
<1>5. poisoned => poisoned'
  BY DEF HandlerMoves, HandlerStep, Deliver, Register, Poison, GateTop, GateRead, GatePhase,
     GateFail, LeaveObserver,
     CheckPhase, LeaveGate, Fly, Claim, Stamp, Confirm, Publish, Await, LatchCheck,
     Latch, Land, shared
<1>6. control'.phase = control.phase /\ control'.token = control.token
  BY <1>2, <1>3
<1>7. observers'.closed = observers.closed /\ (observers.failed => observers'.failed)
  BY <1>2, <1>4
<1>8. \E to : pc' = [pc EXCEPT ![h] = to]
  BY DEF HandlerMoves, HandlerStep, Deliver, Register, Poison, GateTop, GateRead, GatePhase,
     GateFail, LeaveObserver,
     CheckPhase, LeaveGate, Fly, Claim, Stamp, Confirm, Publish, Await, LatchCheck,
     Latch, Land, Step
<1>9. \A g \in Handlers : g # h => pc'[g] = pc[g]
  BY <1>8 DEF TypeOK
<1> QED BY <1>1, <1>5, <1>6, <1>7, <1>9

-----------------------------------------------------------------------------
(* Publication, poison, flight.                                            *)

LEMMA HandlersKeepPublication ==
  ASSUME TypeOK, PublicationInv, NEW h \in Handlers, HandlerMoves(h)
  PROVE  PublicationInv'
<1> USE HandlerFrame, LatchAssumption DEF TypeOK, PublicationInv, Claimers, Step, shared
<1>1. CASE Deliver(h)       BY <1>1 DEF Deliver
<1>2. CASE Register(h)      BY <1>2 DEF Register
<1>3. CASE Poison(h)        BY <1>3 DEF Poison
<1>4. CASE GateTop(h)       BY <1>4 DEF GateTop
<1>5. CASE GateRead(h)      BY <1>5 DEF GateRead
<1>6. CASE GatePhase(h)     BY <1>6 DEF GatePhase
<1>7. CASE GateFail(h)      BY <1>7 DEF GateFail
<1>8. CASE LeaveObserver(h) BY <1>8 DEF LeaveObserver
<1>9. CASE CheckPhase(h)    BY <1>9 DEF CheckPhase
<1>10. CASE LeaveGate(h)     BY <1>10 DEF LeaveGate
<1>11. CASE Fly(h)           BY <1>11 DEF Fly
<1>12. CASE Claim(h)         BY <1>12 DEF Claim
<1>13. CASE Stamp(h)         BY <1>13 DEF Stamp
<1>14. CASE Confirm(h)       BY <1>14 DEF Confirm
<1>15. CASE Publish(h)       BY <1>15 DEF Publish
<1>16. CASE Await(h)         BY <1>16 DEF Await
<1>17. CASE LatchCheck(h)    BY <1>17 DEF LatchCheck
<1>18. CASE Latch(h)         BY <1>18 DEF Latch
<1>19. CASE Land(h)          BY <1>19 DEF Land
<1> QED BY <1>1, <1>2, <1>3, <1>4, <1>5, <1>6, <1>7, <1>8, <1>9, <1>10, <1>11, <1>12,
     <1>13, <1>14, <1>15, <1>16, <1>17, <1>18, <1>19 DEF HandlerMoves, HandlerStep

LEMMA HandlersKeepPoison ==
  ASSUME TypeOK, PoisonInv, NEW h \in Handlers, HandlerMoves(h)
  PROVE  PoisonInv'
<1> USE HandlerFrame DEF TypeOK, PoisonInv, Step, shared
<1>1. CASE Deliver(h)       BY <1>1 DEF Deliver
<1>2. CASE Register(h)      BY <1>2 DEF Register
<1>3. CASE Poison(h)        BY <1>3 DEF Poison
<1>4. CASE GateTop(h)       BY <1>4 DEF GateTop
<1>5. CASE GateRead(h)      BY <1>5 DEF GateRead
<1>6. CASE GatePhase(h)     BY <1>6 DEF GatePhase
<1>7. CASE GateFail(h)      BY <1>7 DEF GateFail
<1>8. CASE LeaveObserver(h) BY <1>8 DEF LeaveObserver
<1>9. CASE CheckPhase(h)    BY <1>9 DEF CheckPhase
<1>10. CASE LeaveGate(h)     BY <1>10 DEF LeaveGate
<1>11. CASE Fly(h)           BY <1>11 DEF Fly
<1>12. CASE Claim(h)         BY <1>12 DEF Claim
<1>13. CASE Stamp(h)         BY <1>13 DEF Stamp
<1>14. CASE Confirm(h)       BY <1>14 DEF Confirm
<1>15. CASE Publish(h)       BY <1>15 DEF Publish
<1>16. CASE Await(h)         BY <1>16 DEF Await
<1>17. CASE LatchCheck(h)    BY <1>17 DEF LatchCheck
<1>18. CASE Latch(h)         BY <1>18 DEF Latch
<1>19. CASE Land(h)          BY <1>19 DEF Land
<1> QED BY <1>1, <1>2, <1>3, <1>4, <1>5, <1>6, <1>7, <1>8, <1>9, <1>10, <1>11, <1>12,
     <1>13, <1>14, <1>15, <1>16, <1>17, <1>18, <1>19 DEF HandlerMoves, HandlerStep

LEMMA HandlersKeepFlight ==
  ASSUME TypeOK, FlightInv, NEW h \in Handlers, HandlerMoves(h)
  PROVE  FlightInv'
<1> USE HandlerFrame DEF TypeOK, FlightInv, FlightPcs, Accepting, Step, shared
<1>1. CASE Deliver(h)       BY <1>1 DEF Deliver
<1>2. CASE Register(h)      BY <1>2 DEF Register
<1>3. CASE Poison(h)        BY <1>3 DEF Poison
<1>4. CASE GateTop(h)       BY <1>4 DEF GateTop
<1>5. CASE GateRead(h)      BY <1>5 DEF GateRead
<1>6. CASE GatePhase(h)     BY <1>6 DEF GatePhase
<1>7. CASE GateFail(h)      BY <1>7 DEF GateFail
<1>8. CASE LeaveObserver(h) BY <1>8 DEF LeaveObserver
<1>9. CASE CheckPhase(h)    BY <1>9 DEF CheckPhase
<1>10. CASE LeaveGate(h)     BY <1>10 DEF LeaveGate
<1>11. CASE Fly(h)           BY <1>11 DEF Fly
<1>12. CASE Claim(h)         BY <1>12 DEF Claim
<1>13. CASE Stamp(h)         BY <1>13 DEF Stamp
<1>14. CASE Confirm(h)       BY <1>14 DEF Confirm
<1>15. CASE Publish(h)       BY <1>15 DEF Publish
<1>16. CASE Await(h)         BY <1>16 DEF Await
<1>17. CASE LatchCheck(h)    BY <1>17 DEF LatchCheck
<1>18. CASE Latch(h)         BY <1>18 DEF Latch
<1>19. CASE Land(h)          BY <1>19 DEF Land
<1> QED BY <1>1, <1>2, <1>3, <1>4, <1>5, <1>6, <1>7, <1>8, <1>9, <1>10, <1>11, <1>12,
     <1>13, <1>14, <1>15, <1>16, <1>17, <1>18, <1>19 DEF HandlerMoves, HandlerStep
LEMMA MainKeepsPublication ==
  ASSUME TypeOK, PublicationInv, MainStep
  PROVE  PublicationInv'
  BY MainFrame DEF PublicationInv

LEMMA MainKeepsPoison ==
  ASSUME TypeOK, PoisonInv, MainStep
  PROVE  PoisonInv'
<1>1. observers.closed = observers'.closed \/ SealClose
  BY DEF MainStep, Arm, FlagRegistered, EnterArmed, Activate, Observe, BeginWork, CutOver,
     SealReport, ReadPoison, ReadWord, SnapshotRetry, SnapshotReturn, WorkControlMoved,
     WorkVerdict, ExcludeGate, ReadPoisonExcluded, CutControl, CutReopen, SealControl,
     SealDrain, SealReopen, Release, Uninstall, Unregister, Retire, shared
<1>2. CASE observers.closed = observers'.closed
  BY <1>2, MainFrame DEF PoisonInv
<1>3. CASE SealClose
  BY <1>3, MainFrame DEF PoisonInv, SealClose
<1> QED BY <1>1, <1>2, <1>3

\* The phase leaves the accepting ones only in the seal, which holds the gate.
LEMMA MainKeepsFlight ==
  ASSUME CountersInv, FlightInv, PhaseInv, MainStep
  PROVE  FlightInv'
<1> USE MainFrame, Constants DEF FlightInv, CountersInv
<1>1. CASE control' = control
  BY <1>1 DEF Accepting
<1>2. CASE EnterArmed
  BY <1>2 DEF EnterArmed, Accepting, PhaseInv, Goto, TypeOK, Control
<1>3. CASE Activate
  BY <1>3 DEF Activate, Accepting, TypeOK, Control
<1>4. CASE CutControl
  BY <1>4 DEF CutControl, Accepting, TypeOK, Control
<1>5. CASE SealControl
  <2>1. Count(GatePcs) = 0
    BY <1>5 DEF CountersAreExact, SealControl, Goto, ExclusivePcs
  <2>2. \A h \in Handlers : pc[h] \notin GatePcs
    BY <2>1, CountZero
  <2> QED BY <2>2 DEF GatePcs
<1>6. CASE Retire
  BY <1>6 DEF Retire, Accepting, PhaseInv, Goto, TypeOK, Control
<1>7. \/ control' = control
      \/ EnterArmed \/ Activate \/ CutControl \/ SealControl \/ Retire
  BY DEF MainStep, Arm, FlagRegistered, Observe, BeginWork, CutOver,
     SealReport, ReadPoison, ReadWord, SnapshotRetry, SnapshotReturn, WorkControlMoved,
     WorkVerdict, ExcludeGate, ReadPoisonExcluded, CutReopen, SealClose,
     SealDrain, SealReopen, Release, Uninstall, Unregister, shared
<1> QED BY <1>1, <1>2, <1>3, <1>4, <1>5, <1>6, <1>7

-----------------------------------------------------------------------------
(* The seal.                                                               *)

LEMMA HandlersKeepSeal ==
  ASSUME CountersInv, SealInv, NEW h \in Handlers, HandlerMoves(h)
  PROVE  SealInv'
<1>1. TypeOK
  BY DEF CountersInv
<1>2. ASSUME Quiet PROVE Quiet'
  <2>1. pc[h] \in Settled /\ pc \in [Handlers -> HandlerPcs] /\ observers.closed
    BY <1>1, <1>2 DEF Quiet, TypeOK
  <2>2. /\ pc[h] \in {"idle", "register"} /\ pc'[h] \in Settled /\ poisoned' = poisoned
    BY <2>1 DEF Settled, HandlerMoves, HandlerStep, Deliver, Register, Poison, GateTop,
       GateRead, GatePhase, GateFail, LeaveObserver, CheckPhase, LeaveGate, Fly, Claim,
       Stamp, Confirm, Publish, Await, LatchCheck, Latch, Land, Step, shared
  <2> QED BY <1>1, <1>2, <2>2, HandlerFrame DEF Quiet
<1>3. ASSUME observers.closed, observers.count = 0 PROVE observers'.count = 0
  <2>1. Count(ObserverPcs) = 0
    BY <1>3 DEF CountersInv, CountersAreExact
  <2>2. pc[h] \notin ObserverPcs
    BY <2>1, CountZero
  <2>3. observers' = observers
    BY <2>2, <1>3 DEF ObserverPcs, HandlerMoves, HandlerStep, Deliver, Register, Poison,
       GateTop, GateRead, GatePhase, GateFail, LeaveObserver, CheckPhase, LeaveGate, Fly,
       Claim, Stamp, Confirm, Publish, Await, LatchCheck, Latch, Land, Step, shared
  <2> QED BY <2>3, <1>3
<1>4. mpc' = mpc /\ outcome' = outcome /\ call' = call /\ observers'.closed = observers.closed
  BY <1>1, HandlerFrame
<1>5. SealReturned' = SealReturned
  BY <1>4 DEF SealReturned
<1> QED BY <1>2, <1>3, <1>4, <1>5 DEF SealInv

LEMMA MainKeepsSeal ==
  ASSUME CountersInv, PoisonInv, SealInv, PhaseInv, MainStep
  PROVE  SealInv'
<1>1. TypeOK
  BY DEF CountersInv
<1>2. pc' = pc /\ (observers.closed => observers'.closed) /\ observers'.count = observers.count
  BY <1>1, MainFrame
<1>3. ASSUME Quiet, poisoned' = poisoned PROVE Quiet'
  BY <1>2, <1>3 DEF Quiet
<1>4. CASE SealClose
  BY <1>1, <1>4 DEF SealClose, SealInv, Goto, SealReturned, SnapPcs, TypeOK
<1>5. CASE SealDrain
  BY <1>1, <1>4, <1>5 DEF SealDrain, SealInv, Goto, SealReturned, SnapPcs
<1>6. CASE ReadPoisonExcluded
  <2>1. CASE mpc = "sealPoison3" /\ ~poisoned
    <3>1. Count(ObserverPcs) = 0 /\ Count(GatePcs) = 0 /\ observers.closed
      BY <2>1 DEF SealInv, CountersInv, CountersAreExact, ExclusivePcs
    <3>2. \A h \in Handlers : pc[h] \notin ObserverPcs /\ pc[h] \notin GatePcs
      BY <3>1, CountZero
    <3>3. \A h \in Handlers : pc[h] \in HandlerPcs
      BY <1>1 DEF TypeOK
    <3>4. \A h \in Handlers : pc[h] \notin {"swallowed", "registerPoison"}
      BY <2>1, <3>1 DEF PoisonInv
    <3>5. \A h \in Handlers : pc[h] \in Settled
      BY <3>2, <3>3, <3>4 DEF HandlerPcs, Settled
    <3>6. Quiet
      BY <2>1, <3>1, <3>5 DEF Quiet
    <3>7. Quiet' /\ mpc' = "sealReopen"
      BY <1>6, <2>1, <3>6, <1>3 DEF ReadPoisonExcluded, Goto, shared
    <3> QED BY <3>7 DEF SealInv, SealReturned, SnapPcs
  <2>2. CASE ~(mpc = "sealPoison3" /\ ~poisoned)
    BY <1>6, <2>2 DEF ReadPoisonExcluded, SealInv, Goto, SealReturned, SnapPcs
  <2> QED BY <2>1, <2>2
<1>7. CASE SealReopen
  <2>1. CASE outcome = "yes"
    BY <1>3, <1>7, <2>1 DEF SealReopen, SealInv, Goto
  <2>2. CASE outcome # "yes"
    BY <1>7, <2>2 DEF SealReopen, SealInv, Goto, SealReturned, SnapPcs
  <2> QED BY <2>1, <2>2
<1>8. CASE Release \/ Uninstall \/ Unregister \/ Retire
  <2>1. Quiet
    BY <1>8 DEF SealInv, SealReturned, Release, Uninstall, Unregister, Retire, Goto
  <2>2. SealReturned' => poisoned' = poisoned
    BY <1>8 DEF Release, Uninstall, Unregister, Retire, Goto, SealReturned, SnapPcs, shared
  <2>3. mpc' \notin {"sealDrain", "sealPoison3", "sealReopen"}
    BY <1>8 DEF Release, Uninstall, Unregister, Retire, Goto
  <2> QED BY <1>3, <2>1, <2>2, <2>3 DEF SealInv
<1>9. CASE SnapshotReturn \/ SnapshotRetry \/ ReadWord \/ ReadPoison
  <2>1. SealReturned' => SealReturned
    BY <1>1, <1>9 DEF SnapshotReturn, SnapshotRetry, ReadWord, ReadPoison, PoisonReads,
       AfterSnapshot, Goto, SealReturned, SnapPcs, TypeOK, Calls
  <2>2. poisoned' = poisoned
    BY <1>9 DEF SnapshotReturn, SnapshotRetry, ReadWord, ReadPoison, shared
  <2>3. mpc' \notin {"sealDrain", "sealPoison3", "sealReopen"}
    BY <1>1, <1>9 DEF SnapshotReturn, SnapshotRetry, ReadWord, ReadPoison, PoisonReads,
       AfterSnapshot, Goto, TypeOK, Calls
  <2> QED BY <1>3, <2>1, <2>2, <2>3 DEF SealInv
<1>10. CASE Arm \/ FlagRegistered \/ EnterArmed \/ Activate \/ Observe \/ BeginWork
            \/ CutOver \/ SealReport \/ WorkControlMoved \/ WorkVerdict \/ ExcludeGate
            \/ CutControl \/ CutReopen \/ SealControl
  BY <1>10 DEF Arm, FlagRegistered, EnterArmed, Activate, Observe, BeginWork, CutOver,
     SealReport, WorkControlMoved, WorkVerdict, ExcludeGate, CutControl, CutReopen,
     SealControl, SealInv, Goto, SealReturned, SnapPcs, Snapshot
<1> QED BY <1>4, <1>5, <1>6, <1>7, <1>8, <1>9, <1>10 DEF MainStep

-----------------------------------------------------------------------------
(* The views of main.                                                      *)

\* While ready = 1 no delivery writes the observation.
LEMMA HandlersKeepViews ==
  ASSUME TypeOK, PublicationInv, ViewInv, NEW h \in Handlers, HandlerMoves(h)
  PROVE  ViewInv'
<1>1. ready = 1 => ready' = 1 /\ observation' = observation
  BY DEF TypeOK, PublicationInv, Claimers, HandlerMoves, HandlerStep, Deliver, Register,
     Poison, GateTop, GateRead, GatePhase, GateFail, LeaveObserver, CheckPhase, LeaveGate,
     Fly, Claim, Stamp, Confirm, Publish, Await, LatchCheck, Latch, Land, Step, shared
<1>2. UNCHANGED <<mpc, view, snap>>
  BY HandlerFrame
<1>3. snap' = snap /\ view' = view /\ mpc' = mpc
  BY <1>2
<1> QED BY <1>1, <1>3 DEF ViewInv

LEMMA MainKeepsViews ==
  ASSUME TypeOK, PublicationInv, ViewInv, MainStep
  PROVE  ViewInv'
<1>1. ready' = ready /\ observation' = observation
  BY MainFrame
<1>2. CASE ReadWord
  <2>1. snap' = snap
    BY <1>2 DEF ReadWord
  <2>2. view'.ready = 1 => ready = 1
    BY <1>2 DEF ReadWord, TypeOK, Views, ViewInv
  <2>3. mpc' \in {"snapFlight2", "snapGate2", "snapControl2"} /\ view'.ready = 1
          => view'.observation = observation
    BY <1>2 DEF ReadWord, TypeOK, Views, ViewInv, Goto
  <2> QED BY <1>1, <2>1, <2>2, <2>3 DEF ViewInv
<1>3. CASE SnapshotReturn
  <2>1. view' = NoView /\ (snap' = snap \/ (snap' = Taken /\ SnapshotIsValid(Taken) /\ ViewIsCoherent))
    BY <1>3 DEF SnapshotReturn
  <2>2. CASE snap' = snap
    BY <1>1, <2>1, <2>2, <1>3 DEF ViewInv, NoView
  <2>3. CASE snap' = Taken /\ SnapshotIsValid(Taken) /\ ViewIsCoherent
    <3>1. mpc = "snapControl2" /\ view.ready \in {-1, 0, 1}
      BY <1>3 DEF SnapshotReturn, Goto, TypeOK, Views
    <3>2. Taken.latched => view.ready = 1
      BY <2>3, <3>1 DEF Taken, ViewIsCoherent
    <3>3. Taken.observation = (IF Taken.latched THEN observation ELSE None)
      BY <3>1, <3>2 DEF Taken, ViewInv
    <3>4. Taken.latched = (Taken.generation > 0)
      BY <2>3 DEF SnapshotIsValid
    <3>5. Taken.latched => ready = 1
      BY <3>2 DEF ViewInv
    <3>6. view'.ready = 0
      BY <2>1 DEF NoView
    <3> QED BY <1>1, <2>3, <3>3, <3>4, <3>5, <3>6 DEF ViewInv
  <2> QED BY <2>1, <2>2, <2>3
<1>4. CASE ~ReadWord /\ ~SnapshotReturn
  <2>1. snap' = snap /\ (view' = view \/ view' = NoView)
    BY <1>4 DEF MainStep, Arm, FlagRegistered, EnterArmed, Activate, Observe, BeginWork,
     CutOver, SealReport, ReadPoison, SnapshotRetry, WorkControlMoved,
     WorkVerdict, ExcludeGate, ReadPoisonExcluded, CutControl, CutReopen, SealControl,
     SealClose, SealDrain, SealReopen, Release, Uninstall, Unregister, Retire,
     Bookkeeping, Snapshot
  <2>2. mpc' \notin {"snapFlight2", "snapGate2", "snapControl2"}
    BY <1>4 DEF MainStep, Arm, FlagRegistered, EnterArmed, Activate, Observe, BeginWork,
     CutOver, SealReport, ReadPoison, PoisonReads, SnapshotRetry, WorkControlMoved,
     WorkVerdict, ExcludeGate, ReadPoisonExcluded, CutControl, CutReopen, SealControl,
     SealClose, SealDrain, SealReopen, Release, Uninstall, Unregister, Retire, Goto
  <2>3. NoView.ready = 0
    BY DEF NoView
  <2> QED BY <1>1, <2>1, <2>2, <2>3 DEF ViewInv
<1> QED BY <1>2, <1>3, <1>4

-----------------------------------------------------------------------------
(* Where main is in each phase.                                            *)

LEMMA HandlersKeepPhases ==
  ASSUME TypeOK, PhaseInv, NEW h \in Handlers, HandlerMoves(h), FlightInv
  PROVE  PhaseInv'
<1>1. /\ mpc' = mpc /\ call' = call /\ snap' = snap /\ token' = token
      /\ outcome' = outcome /\ idFormed' = idFormed
      /\ control'.phase = control.phase /\ control'.token = control.token
  BY HandlerFrame
<1>2. Accepting(control) \/ control' = control
  BY DEF FlightInv, FlightPcs, HandlerMoves, HandlerStep, Deliver, Register,
     Poison, GateTop, GateRead, GatePhase, GateFail, LeaveObserver, CheckPhase, LeaveGate,
     Fly, Claim, Stamp, Confirm, Publish, Await, LatchCheck, Latch, Land, Step, shared
<1>3. control.phase \in {"sealed", "released"} => control'.generation = control.generation
  BY <1>2 DEF Accepting
<1>4. SealReturned' = SealReturned
  BY <1>1 DEF SealReturned
<1> QED BY <1>1, <1>3, <1>4 DEF PhaseInv

LEMMA MainKeepsPhases ==
  ASSUME TypeOK, PhaseInv, MainStep
  PROVE  PhaseInv'
<1> USE DEF PhaseInv, Goto, SealReturned, SnapPcs, SealedPcs, CutPcs, Closed, Bookkeeping, shared
<1>c. control \in [phase : Phases, latched : BOOLEAN,
                     generation : 0..MaxGeneration, token : 0..MaxToken]
  BY DEF TypeOK, Control
<1>1. CASE Arm                 BY <1>1 DEF Arm
<1>2. CASE FlagRegistered      BY <1>2 DEF FlagRegistered
<1>3. CASE EnterArmed          BY <1>3, <1>c DEF EnterArmed
<1>4. CASE Activate            BY <1>4, <1>c DEF Activate
<1>5. CASE Observe             BY <1>5 DEF Observe, Snapshot
<1>6. CASE BeginWork           BY <1>6 DEF BeginWork
<1>7. CASE CutOver             BY <1>7 DEF CutOver
<1>8. CASE SealReport          BY <1>8 DEF SealReport, Snapshot
<1>9. CASE ReadPoison          BY <1>9 DEF ReadPoison, PoisonReads
<1>10. CASE ReadWord            BY <1>10 DEF ReadWord
<1>11. CASE SnapshotRetry       BY <1>11 DEF SnapshotRetry
<1>12. CASE SnapshotReturn      BY <1>12 DEF SnapshotReturn, AfterSnapshot, TypeOK, Calls
<1>13. CASE WorkControlMoved    BY <1>13 DEF WorkControlMoved
<1>14. CASE WorkVerdict         BY <1>14 DEF WorkVerdict
<1>15. CASE ExcludeGate         BY <1>15 DEF ExcludeGate
<1>16. CASE ReadPoisonExcluded  BY <1>16 DEF ReadPoisonExcluded
<1>17. CASE CutControl          BY <1>17, <1>c DEF CutControl
<1>18. CASE CutReopen           BY <1>18 DEF CutReopen
<1>19. CASE SealControl         BY <1>19, <1>c DEF SealControl, Accepting
<1>20. CASE SealClose           BY <1>20 DEF SealClose
<1>21. CASE SealDrain           BY <1>21 DEF SealDrain
<1>22. CASE SealReopen          BY <1>22 DEF SealReopen
<1>23. CASE Release             BY <1>23 DEF Release
<1>24. CASE Uninstall           BY <1>24 DEF Uninstall
<1>25. CASE Unregister          BY <1>25 DEF Unregister
<1>26. CASE Retire              BY <1>26, <1>c DEF Retire, Snapshot
<1> QED BY <1>1, <1>2, <1>3, <1>4, <1>5, <1>6, <1>7, <1>8, <1>9, <1>10, <1>11, <1>12,
     <1>13, <1>14, <1>15, <1>16, <1>17, <1>18, <1>19, <1>20, <1>21, <1>22, <1>23, <1>24, <1>25,
        <1>26 DEF MainStep

-----------------------------------------------------------------------------
(* The theorems.                                                           *)

LEMMA SealProofInvariant == Spec => []SealProofInv
<1>1. Init => PublicationInv /\ PoisonInv /\ FlightInv /\ SealInv /\ ViewInv /\ PhaseInv
  <2> SUFFICES ASSUME Init
               PROVE  PublicationInv /\ PoisonInv /\ FlightInv /\ SealInv /\ ViewInv /\ PhaseInv
    OBVIOUS
  <2>0. /\ \A h \in Handlers : pc[h] = "idle"
        /\ ready = 0 /\ observation = None /\ mpc = "outside" /\ view.ready = 0
        /\ control.phase = "outside" /\ ~control.latched
        /\ snap.generation = 0 /\ snap.latched = FALSE /\ snap.observation = None
    BY DEF Init, Outside, NoView, InitialSnapshot
  <2>1. PublicationInv
    BY <2>0 DEF PublicationInv, Claimers
  <2>2. PoisonInv /\ FlightInv
    BY <2>0 DEF PoisonInv, FlightInv, FlightPcs
  <2>3. SealInv
    BY <2>0 DEF SealInv, SealReturned, SnapPcs
  <2>4. (snap.generation > 0) = FALSE
    BY <2>0
  <2>5. ViewInv
    BY <2>0, <2>4 DEF ViewInv
  <2>6. PhaseInv
    BY <2>0 DEF PhaseInv, SealReturned, SnapPcs, Closed, CutPcs
  <2> QED BY <2>1, <2>2, <2>3, <2>5, <2>6
<1>2. CountersInv /\ CountersInv' /\ SealProofInv /\ [Next]_vars => SealProofInv'
  <2> SUFFICES ASSUME CountersInv', SealProofInv, [Next]_vars PROVE SealProofInv'
    OBVIOUS
  <2>1. TypeOK /\ CountersInv
    BY DEF SealProofInv, CountersInv
  <2>2. CASE MainStep
    <3>1. PublicationInv' /\ PoisonInv' /\ FlightInv' /\ SealInv' /\ ViewInv' /\ PhaseInv'
      BY <2>1, <2>2, MainKeepsPublication, MainKeepsPoison, MainKeepsFlight, MainKeepsSeal,
         MainKeepsViews, MainKeepsPhases DEF SealProofInv
    <3> QED BY <3>1 DEF SealProofInv
  <2>3. ASSUME NEW h \in Handlers, HandlerMoves(h) PROVE SealProofInv'
    <3>1. PublicationInv' /\ PoisonInv' /\ FlightInv' /\ SealInv' /\ ViewInv' /\ PhaseInv'
      BY <2>1, <2>3, HandlersKeepPublication, HandlersKeepPoison, HandlersKeepFlight,
         HandlersKeepSeal, HandlersKeepViews, HandlersKeepPhases DEF SealProofInv
    <3> QED BY <3>1 DEF SealProofInv
  <2>4. CASE UNCHANGED vars
    BY <2>4 DEF vars, shared, os, locals, SealProofInv, PublicationInv, PoisonInv, FlightInv,
       Accepting, SealInv, Quiet, SealReturned, ViewInv, PhaseInv
  <2> QED BY <2>2, <2>3, <2>4 DEF Next, HandlerMoves
<1> QED BY <1>1, <1>2, CountersInvariant, PTL DEF Spec, SealProofInv

\* Whoever sees the latch bit finds the observation that dates the cancellation.
THEOREM PublicationCorrect == Spec => []LatchedIsPublished
<1>1. SealProofInv => LatchedIsPublished
  BY DEF SealProofInv, PublicationInv, LatchedIsPublished
<1> QED BY <1>1, SealProofInvariant, PTL

\* Once the native seal has returned 1, no delivery can touch the latch.
THEOREM SealQuiet == Spec => []SealedIsQuiet
<1>1. SealProofInv => SealedIsQuiet
  <2> SUFFICES ASSUME SealProofInv, SealReturned
               PROVE  ~poisoned /\ gate = 0 /\ \A h \in Handlers : pc[h] \in Settled
    BY DEF SealedIsQuiet, Settled
  <2>1. Quiet
    BY DEF SealProofInv, SealInv
  <2>2. mpc \notin ExclusivePcs
    BY DEF SealReturned, ExclusivePcs, SnapPcs
  <2>3. \A h \in Handlers : pc[h] \notin GatePcs
    BY <2>1 DEF Quiet, Settled, GatePcs, FlightPcs
  <2>4. gate = 0
    BY <2>2, <2>3, CountZero DEF SealProofInv, CountersInv, CountersAreExact
  <2> QED BY <2>1, <2>4 DEF Quiet
<1> QED BY <1>1, SealProofInvariant, PTL

\* The report that was sealed tells the cancellation state that was sealed.
THEOREM SealedReportCorrect == Spec => []SealedReportIsCurrent
<1>1. SealProofInv => SealedReportIsCurrent
  BY DEF SealProofInv, CountersInv, GenerationCountsAccepted, ViewInv, PhaseInv,
     SealedReportIsCurrent
<1> QED BY <1>1, SealProofInvariant, PTL

\* The first accepted Ctrl+C dates the cancellation for good.
THEOREM FirstObservationCorrect == Spec => FirstObservationStands
<1>1. SealProofInv /\ [Next]_vars => [observation # None => observation' = observation]_vars
  <2> SUFFICES ASSUME SealProofInv, Next PROVE observation # None => observation' = observation
    BY DEF vars
  <2>1. CASE MainStep
    BY <2>1, MainFrame DEF SealProofInv, CountersInv
  <2>2. ASSUME NEW h \in Handlers, HandlerMoves(h)
        PROVE  observation # None => observation' = observation
    BY <2>2 DEF SealProofInv, PublicationInv, HandlerMoves, HandlerStep, Deliver, Register,
     Poison, GateTop, GateRead, GatePhase, GateFail, LeaveObserver, CheckPhase, LeaveGate,
     Fly, Claim, Stamp, Confirm, Publish, Await, LatchCheck, Latch, Land, Step, shared
  <2> QED BY <2>1, <2>2 DEF Next, HandlerMoves
<1> QED BY <1>1, SealProofInvariant, PTL DEF Spec, FirstObservationStands

-----------------------------------------------------------------------------
(* The latch implements the cancellation window.                           *)

Accepted == {h \in Handlers : pc[h] \in CountedPcs}
First    == IF control.latched THEN observation ELSE None
WinPhase == CASE control.phase \in {"outside", "armed"} -> "closed"
              [] control.phase \in {"pre_id", "post_id"} -> "open"
              [] OTHER -> "sealed"
IdFormed == idFormed \/ control.phase = "post_id"
Report   == IF control.phase \in {"sealed", "released"}
              THEN [cancelled |-> snap.latched, by |-> snap.observation]
              ELSE None

LEMMA AcceptedIsCounted ==
  ASSUME CountersInv PROVE control.latched = (Accepted # {})
<1>1. Count(CountedPcs) = 0 <=> Accepted = {}
  BY CountZero DEF Accepted
<1>2. control.generation = 0 <=> Accepted = {}
  BY <1>1 DEF CountersInv, GenerationCountsAccepted
<1>3. control.generation \in Nat
  BY DEF CountersInv, TypeOK, Control
<1>4. control.latched = (control.generation > 0)
  BY DEF CountersInv, GenerationCountsAccepted
<1>5. (control.generation > 0) = (Accepted # {})
  BY <1>2, <1>3
<1> QED BY <1>4, <1>5

LEMMA HandlersImplementWindow ==
  ASSUME SealProofInv, SealProofInv', NEW h \in Handlers, HandlerMoves(h)
  PROVE  Window!WindowNext \/ UNCHANGED <<WinPhase, Accepted, First, IdFormed, Report>>
<1>1. TypeOK /\ PublicationInv /\ FlightInv /\ CountersInv
  BY DEF SealProofInv, CountersInv
<1>2. /\ control'.phase = control.phase /\ snap' = snap /\ idFormed' = idFormed
      /\ \A g \in Handlers : g # h => pc'[g] = pc[g]
  BY <1>1, HandlerFrame
<1>3. UNCHANGED <<WinPhase, IdFormed, Report>>
  BY <1>2 DEF WinPhase, IdFormed, Report
<1>4. CASE Latch(h) /\ pc'[h] = "landed"
  <2>1. /\ pc[h] = "latch" /\ Accepting(control) /\ observation' = observation
        /\ control' = [control EXCEPT !.latched = TRUE, !.generation = @ + 1]
    BY <1>1, <1>4 DEF Latch, Step, TypeOK
  <2>2. observation \in Handlers /\ control'.latched
    BY <1>1, <2>1 DEF PublicationInv, TypeOK, Control
  <2>3. h \notin Accepted /\ Accepted' = Accepted \union {h}
    BY <1>2, <1>4, <2>1 DEF Accepted, CountedPcs
  <2>4. WinPhase = "open"
    BY <2>1 DEF WinPhase, Accepting
  <2>5. IF Accepted = {} THEN First' \in Handlers ELSE First' = First
    BY <1>1, <2>1, <2>2, AcceptedIsCounted DEF First
  <2>6. Window!Accept(h)
    BY <1>3, <2>3, <2>4, <2>5 DEF Window!Accept, WinPhase, Accepted, First, IdFormed, Report
  <2> QED BY <2>6 DEF Window!WindowNext
<1>5. CASE ~(Latch(h) /\ pc'[h] = "landed")
  <2>1. control' = control /\ (pc'[h] \in CountedPcs <=> pc[h] \in CountedPcs)
    BY <1>1, <1>5 DEF CountedPcs, HandlerMoves, HandlerStep, Deliver, Register,
     Poison, GateTop, GateRead, GatePhase, GateFail, LeaveObserver, CheckPhase, LeaveGate,
     Fly, Claim, Stamp, Confirm, Publish, Await, LatchCheck, Latch, Land, Step, shared, TypeOK
  <2>2. Accepted' = Accepted
    BY <1>2, <2>1 DEF Accepted
  <2>3. control.latched => observation' = observation
    BY <1>1 DEF PublicationInv, Claimers, HandlerMoves, HandlerStep, Deliver, Register,
     Poison, GateTop, GateRead, GatePhase, GateFail, LeaveObserver, CheckPhase, LeaveGate,
     Fly, Claim, Stamp, Confirm, Publish, Await, LatchCheck, Latch, Land, Step, shared
  <2>4. First' = First
    BY <2>1, <2>3 DEF First
  <2> QED BY <1>3, <2>2, <2>4
<1> QED BY <1>4, <1>5

LEMMA MainImplementsWindow ==
  ASSUME SealProofInv, SealProofInv', MainStep
  PROVE  Window!WindowNext \/ UNCHANGED <<WinPhase, Accepted, First, IdFormed, Report>>
<1>1. TypeOK /\ PhaseInv /\ ViewInv /\ CountersInv
  BY DEF SealProofInv, CountersInv
<1>2. pc' = pc /\ observation' = observation /\ control'.latched = control.latched
  BY <1>1, MainFrame
<1>3. UNCHANGED <<Accepted, First>>
  BY <1>2 DEF Accepted, First
<1>c. control \in [phase : Phases, latched : BOOLEAN,
                     generation : 0..MaxGeneration, token : 0..MaxToken]
  BY <1>1 DEF TypeOK, Control
<1>4. CASE EnterArmed
  <2>1. control.phase = "outside" /\ control'.phase = "armed" /\ idFormed' = idFormed
    BY <1>1, <1>4, <1>c DEF EnterArmed, PhaseInv, Goto, Bookkeeping
  <2> QED BY <1>3, <2>1 DEF WinPhase, IdFormed, Report
<1>5. CASE Activate /\ mpc' # "raised"
  <2>1. control.phase = "armed" /\ control'.phase = "pre_id" /\ idFormed' = idFormed
    BY <1>1, <1>5, <1>c DEF Activate, PhaseInv, Goto
  <2>2. WinPhase = "closed" /\ WinPhase' = "open" /\ UNCHANGED <<IdFormed, Report>>
    BY <2>1 DEF WinPhase, IdFormed, Report
  <2>3. Window!OpenWindow
    BY <1>3, <2>2 DEF Window!OpenWindow, WinPhase, Accepted, First, IdFormed, Report
  <2> QED BY <2>3 DEF Window!WindowNext
<1>6. CASE CutControl /\ control.phase = "pre_id" /\ ~control.latched /\ control.generation = 0
  <2>1. control'.phase = "post_id" /\ idFormed' = idFormed /\ ~idFormed
    BY <1>1, <1>6, <1>c DEF CutControl, PhaseInv, Goto, CutPcs
  <2>2. /\ WinPhase = "open" /\ WinPhase' = "open" /\ UNCHANGED Report
        /\ ~IdFormed /\ IdFormed' = TRUE
    BY <1>6, <2>1 DEF WinPhase, IdFormed, Report
  <2>3. Accepted = {}
    BY <1>1, <1>6, AcceptedIsCounted
  <2>4. Window!FormAnswerId
    BY <1>3, <2>2, <2>3 DEF Window!FormAnswerId, WinPhase, Accepted, First, IdFormed, Report
  <2> QED BY <2>4 DEF Window!WindowNext
<1>7. CASE SealControl /\ mpc' = "sealClose"
  <2>1. /\ Accepting(control) /\ control.generation = snap.generation
        /\ control'.phase = "sealed" /\ idFormed' = idFormed /\ snap' = snap
    BY <1>1, <1>7, <1>c DEF SealControl, Goto
  <2>2. control.phase = "post_id" => idFormed
    BY <1>1, <1>7 DEF PhaseInv, SealControl, Goto
  <2>3. WinPhase = "open" /\ WinPhase' = "sealed" /\ IdFormed' = IdFormed
    BY <2>1, <2>2 DEF WinPhase, IdFormed, Accepting
  <2>4. snap.latched = control.latched
    BY <1>1, <2>1 DEF ViewInv, CountersInv, GenerationCountsAccepted
  <2>5. snap.latched = (Accepted # {}) /\ snap.observation = First
    BY <1>1, <2>4, AcceptedIsCounted DEF ViewInv, First
  <2>6. Report' = [cancelled |-> Accepted # {}, by |-> First]
    BY <2>1, <2>5 DEF Report
  <2>7. Window!Seal
    BY <1>3, <2>3, <2>6 DEF Window!Seal, WinPhase, Accepted, First, IdFormed, Report
  <2> QED BY <2>7 DEF Window!WindowNext
<1>8. CASE Retire
  <2>1. control.phase = "sealed" /\ control'.phase = "released" /\ idFormed' = idFormed
        /\ snap' = snap
    BY <1>1, <1>8, <1>c DEF Retire, PhaseInv, Goto, Snapshot
  <2> QED BY <1>3, <2>1 DEF WinPhase, IdFormed, Report
<1>9. CASE CutReopen
  <2>1. control' = control /\ snap' = snap /\ ~idFormed /\ idFormed' = (outcome = "yes")
        /\ mpc = "cutReopen"
    BY <1>1, <1>9 DEF CutReopen, PhaseInv, Goto, CutPcs
  <2>2. outcome = "yes" => control.phase = "post_id"
    BY <1>1, <2>1 DEF PhaseInv
  <2>3. IdFormed' = IdFormed
    BY <2>1, <2>2 DEF IdFormed
  <2> QED BY <1>3, <2>1, <2>3 DEF WinPhase, Report
<1>10. CASE SnapshotReturn
  <2>1. control' = control /\ idFormed' = idFormed
    BY <1>10 DEF SnapshotReturn, shared
  <2>2. control.phase \in {"sealed", "released"} => snap' = snap
    BY <1>1, <1>10 DEF SnapshotReturn, PhaseInv, Goto, SealedPcs, SnapPcs
  <2> QED BY <1>3, <2>1, <2>2 DEF WinPhase, IdFormed, Report
<1>11. \/ (control' = control /\ snap' = snap /\ idFormed' = idFormed)
       \/ EnterArmed \/ (Activate /\ mpc' # "raised")
       \/ (CutControl /\ control.phase = "pre_id" /\ ~control.latched /\ control.generation = 0)
       \/ (SealControl /\ mpc' = "sealClose") \/ Retire \/ CutReopen \/ SnapshotReturn
  BY DEF MainStep, Arm, FlagRegistered, Activate, Observe, BeginWork,
     CutOver, SealReport, ReadPoison, ReadWord, SnapshotRetry, WorkControlMoved,
     WorkVerdict, ExcludeGate, ReadPoisonExcluded, CutControl, SealControl,
     SealClose, SealDrain, SealReopen, Release, Uninstall, Unregister,
     Bookkeeping, Snapshot, Goto, shared
<1>12. CASE control' = control /\ snap' = snap /\ idFormed' = idFormed
  BY <1>3, <1>12 DEF WinPhase, IdFormed, Report
<1> QED BY <1>4, <1>5, <1>6, <1>7, <1>8, <1>9, <1>10, <1>11, <1>12

\* Every behaviour of the native latch and its bridge is a behaviour of the
\* abstract window: accepting and sealing are atomic, and the report is exact.
THEOREM LatchImplementsWindow == Spec => ImplementsWindow
<1>1. Init => Window!WindowInit
  <2> SUFFICES ASSUME Init PROVE Window!WindowInit
    OBVIOUS
  <2>1. /\ control.phase = "outside" /\ control.latched = FALSE /\ idFormed = FALSE
        /\ \A h \in Handlers : pc[h] = "idle"
    BY DEF Init, Outside
  <2> QED BY <2>1 DEF Window!WindowInit, CountedPcs
<1>2. SealProofInv /\ SealProofInv' /\ [Next]_vars => [Window!WindowNext]_(Window!windowVars)
  <2> SUFFICES ASSUME SealProofInv, SealProofInv', [Next]_vars
               PROVE  Window!WindowNext \/ UNCHANGED Window!windowVars
    OBVIOUS
  <2>1. Window!WindowNext \/ UNCHANGED <<WinPhase, Accepted, First, IdFormed, Report>>
    <3>1. CASE UNCHANGED vars
      BY <3>1 DEF vars, shared, os, locals, WinPhase, Accepted, First, IdFormed, Report
    <3>2. CASE Next
      BY <3>2, MainImplementsWindow, HandlersImplementWindow DEF Next, HandlerMoves
    <3> QED BY <3>1, <3>2
  <2> QED BY <2>1 DEF Window!windowVars, WinPhase, Accepted, First, IdFormed, Report
<1> QED BY <1>1, <1>2, SealProofInvariant, PTL DEF Spec, ImplementsWindow, Window!WindowSpec

(***************************************************************************)
(* Why nothing is refused without a cancellation.  Work and the Answer ID  *)
(* are refused when a delivery is in the gate or has moved a word.  Such a *)
(* delivery goes on to latch, or poisons the window: the ones that saw the *)
(* window closed, and only turn back, are gone before activation is over.  *)
(***************************************************************************)
\* The window was opened and found open, with nobody at the gate.
Activated ==
  /\ mpc \notin {"outside", "installing", "flagged", "armed", "raised"}
  /\ ~(mpc \in SnapPcs /\ call = "activate")

\* A delivery that saw the window closed is gone by then.
GateSeenFree ==
  /\ mpc \in {"snapFlight1", "snapReady", "snapObservation", "snapFlight2", "snapGate2",
              "snapControl2"}
  /\ view.gate = 0
BackInv ==
  Accepting(control) /\ (Activated \/ GateSeenFree) => \A h \in Handlers : pc[h] # "backOut"

\* The command will be cancelled, or fails: a delivery has latched or will.
Doomed == poisoned \/ control.latched \/ \E h \in Handlers : pc[h] \in GatePcs

\* Whatever refuses work or the Answer ID comes from such a delivery.
RefusalInv ==
  /\ mpc \in {"workControl1", "workControl2", "workGate2", "workPoison2"} /\ view.gate # 0
       => Doomed
  /\ mpc \in {"workControl2", "workGate2", "workPoison2"} =>
       Accepting(view.control) /\ (view.control.latched => control.latched)
  /\ mpc = "workControl2" => view.control = control \/ control.latched
  /\ mpc \in {"workGate2", "workPoison2"} => outcome = "same" \/ Doomed
  /\ mpc = "workPoison2" /\ view.gate2 # 0 => Doomed
  /\ mpc = "cutBusy" => Doomed
  /\ mpc = "cutReopen" /\ outcome = "no" => control.latched

\* A refusal outlives the delivery that caused it, in the latch.
RefusedInv ==
  refused /\ mpc # "raised" =>
    /\ Activated
    /\ IF Accepting(control) THEN Doomed ELSE poisoned \/ control.latched

LEMMA GateFacts ==
  ASSUME CountersInv, mpc \notin ExclusivePcs
  PROVE  /\ gate # 0 => Doomed
         /\ gate = 0 => \A h \in Handlers : pc[h] \notin GatePcs
BY CountZero DEF CountersInv, CountersAreExact, Doomed

\* A delivery in the gate lands, or poisons the latch: its way back out is shut.
LEMMA HandlersKeepDoomed ==
  ASSUME SealProofInv, NEW h \in Handlers, HandlerMoves(h), Doomed,
         \A g \in Handlers : pc[g] # "backOut"
  PROVE  Doomed'
<1>1. TypeOK /\ CountersInv BY DEF SealProofInv, CountersInv
<1>2. (poisoned => poisoned') /\ (control.latched => control'.latched)
  <2>1. control' = control \/ control' = [control EXCEPT !.latched = TRUE, !.generation = @ + 1]
    BY DEF HandlerMoves, HandlerStep, Deliver, Register, Poison, GateTop, GateRead,
       GatePhase, GateFail, LeaveObserver, CheckPhase, LeaveGate, Fly, Claim, Stamp, Confirm,
       Publish, Await, LatchCheck, Latch, Land, shared
  <2>2. control \in Control BY <1>1 DEF TypeOK
  <2> QED BY <1>1, <2>1, <2>2, HandlerFrame DEF Control
<1>3. SUFFICES ASSUME ~poisoned, ~control.latched, NEW g \in Handlers, pc[g] \in GatePcs
               PROVE  Doomed'
  BY <1>2 DEF Doomed
<1>4. \A k \in Handlers : pc[k] \notin CountedPcs
  <2>1. control.generation = 0
    BY <1>1, <1>3 DEF CountersInv, GenerationCountsAccepted, TypeOK, Control
  <2> QED BY <1>1, <2>1, CountZero DEF CountersInv, GenerationCountsAccepted
<1>5. \A k \in Handlers : pc[k] \notin {"aborted", "leaveAborted"}
  BY <1>3 DEF SealProofInv, PoisonInv
<1>6. CASE g # h
  BY <1>1, <1>3, <1>6, HandlerFrame DEF Doomed
<1>7. CASE g = h
  <2>1. pc[h] \in {"leaveAdmitted", "inGate", "fly", "claim", "stamp", "confirm", "publish",
                   "await", "awaitPoison", "latchCheck", "latch"}
    BY <1>3, <1>4, <1>5, <1>7 DEF GatePcs, FlightPcs, CountedPcs
  <2>2. pc'[h] \in GatePcs \/ (pc[h] = "inGate" /\ ~Accepting(control))
    BY <1>1, <2>1
    DEF HandlerMoves, HandlerStep, Deliver, Register, Poison, GateTop, GateRead,
        GatePhase, GateFail, LeaveObserver, CheckPhase, LeaveGate, Fly, Claim, Stamp, Confirm,
        Publish, Await, LatchCheck, Latch, Land, Step, TypeOK, GatePcs, FlightPcs
  <2>3. CASE pc'[h] \in GatePcs BY <2>3 DEF Doomed
  <2>4. CASE pc[h] = "inGate"
    <3>1. pc'[h] \in {"fly", "backOut"}
      BY <1>1, <2>4
      DEF HandlerMoves, HandlerStep, Deliver, Register, Poison, GateTop, GateRead,
          GatePhase, GateFail, LeaveObserver, CheckPhase, LeaveGate, Fly, Claim, Stamp,
          Confirm, Publish, Await, LatchCheck, Latch, Land, Step, TypeOK
    <3> QED BY <3>1 DEF Doomed, GatePcs
  <2> QED BY <2>2, <2>3, <2>4
<1> QED BY <1>6, <1>7

LEMMA HandlersKeepBack ==
  ASSUME TypeOK, BackInv, NEW h \in Handlers, HandlerMoves(h)
  PROVE  BackInv'
<1>1. /\ mpc' = mpc /\ call' = call /\ view' = view /\ control'.phase = control.phase
      /\ \A g \in Handlers : g # h => pc'[g] = pc[g]
  BY HandlerFrame
<1>2. Accepting(control)' = Accepting(control) /\ Activated' = Activated
      /\ GateSeenFree' = GateSeenFree
  BY <1>1 DEF Accepting, Activated, GateSeenFree
<1>3. pc'[h] = "backOut" => ~Accepting(control) \/ pc[h] = "backOut"
  BY DEF HandlerMoves, HandlerStep, Deliver, Register, Poison, GateTop, GateRead,
     GatePhase, GateFail, LeaveObserver, CheckPhase, LeaveGate, Fly, Claim, Stamp, Confirm,
     Publish, Await, LatchCheck, Latch, Land, Step, TypeOK
<1> QED BY <1>1, <1>2, <1>3 DEF BackInv

WorkPcs == {"workControl1", "workControl2", "workGate2", "workPoison2"}

\* Where main looks for a refusal the window is open.
LEMMA OpenWhereRefused ==
  ASSUME SealProofInv, mpc \in WorkPcs \union {"workGate1", "cutGate", "cutBusy", "cutControl"}
  PROVE  Accepting(control) /\ Activated
<1>1. control \in Control BY DEF SealProofInv, CountersInv, TypeOK
<1>2. mpc \notin SnapPcs \union SealedPcs \union {"sealReopen", "raised"}
  BY DEF WorkPcs, SnapPcs, SealedPcs
<1> QED
  BY <1>1, <1>2
  DEF WorkPcs, SealProofInv, PhaseInv, Control, Phases, Accepting, Activated, Closed

LEMMA HandlersKeepRefusal ==
  ASSUME SealProofInv, BackInv, RefusalInv, NEW h \in Handlers, HandlerMoves(h)
  PROVE  RefusalInv'
<1>1. TypeOK BY DEF SealProofInv, CountersInv
<1>2. /\ mpc' = mpc /\ view' = view /\ outcome' = outcome
  BY <1>1, HandlerFrame
<1>3. control' = control \/ control'.latched
  <2>1. control' = control \/ control' = [control EXCEPT !.latched = TRUE, !.generation = @ + 1]
    BY DEF HandlerMoves, HandlerStep, Deliver, Register, Poison, GateTop, GateRead,
       GatePhase, GateFail, LeaveObserver, CheckPhase, LeaveGate, Fly, Claim, Stamp, Confirm,
       Publish, Await, LatchCheck, Latch, Land, shared
  <2> QED BY <1>1, <2>1 DEF TypeOK, Control
<1>4. mpc \in WorkPcs \union {"cutBusy"} /\ Doomed => Doomed'
  BY OpenWhereRefused, HandlersKeepDoomed DEF BackInv
<1>5. control.latched => control'.latched BY <1>3
<1>6. Accepting(view.control)' = Accepting(view.control) BY <1>2 DEF Accepting
<1> QED BY <1>2, <1>3, <1>4, <1>5, <1>6 DEF RefusalInv, WorkPcs

LEMMA HandlersKeepRefused ==
  ASSUME SealProofInv, BackInv, RefusedInv, NEW h \in Handlers, HandlerMoves(h)
  PROVE  RefusedInv'
<1>1. TypeOK BY DEF SealProofInv, CountersInv
<1>2. /\ mpc' = mpc /\ call' = call /\ refused' = refused /\ control'.phase = control.phase
      /\ (poisoned => poisoned')
  BY <1>1, HandlerFrame
<1>3. control' = control \/ control'.latched
  <2>1. control' = control \/ control' = [control EXCEPT !.latched = TRUE, !.generation = @ + 1]
    BY DEF HandlerMoves, HandlerStep, Deliver, Register, Poison, GateTop, GateRead,
       GatePhase, GateFail, LeaveObserver, CheckPhase, LeaveGate, Fly, Claim, Stamp, Confirm,
       Publish, Await, LatchCheck, Latch, Land, shared
  <2> QED BY <1>1, <2>1 DEF TypeOK, Control
<1>4. Activated' = Activated /\ Accepting(control)' = Accepting(control)
  BY <1>2 DEF Activated, Accepting
<1>5. Accepting(control) /\ Activated /\ Doomed => Doomed'
  BY HandlersKeepDoomed DEF BackInv
<1> QED BY <1>2, <1>3, <1>4, <1>5 DEF RefusedInv

-----------------------------------------------------------------------------
(* The main thread.                                                        *)

\* Main leaves the deliveries, the latch bit and the poison as they are.
LEMMA MainKeepsDoomed ==
  ASSUME TypeOK, MainStep, Doomed
  PROVE  Doomed'
BY MainFrame DEF Doomed

\* How the window opens: only Activate opens it, and main is activated only by a
\* coherent snapshot of an open window.
LEMMA MainOpens ==
  ASSUME SealProofInv, MainStep
  PROVE  /\ Accepting(control)' => \/ Accepting(control)
                                   \/ mpc' = "snapPoison" /\ call' = "activate"
                                   \/ mpc' = "raised"
         /\ Accepting(control) /\ Activated' => Activated \/ GateSeenFree
         /\ Accepting(control) /\ GateSeenFree' =>
              Activated \/ GateSeenFree \/ (mpc = "snapGate1" /\ gate = 0)
         /\ Activated /\ mpc' # "raised" => Activated'
<1> USE DEF Goto, Bookkeeping, Activated, GateSeenFree
<1>1. TypeOK /\ control \in [phase : Phases, latched : BOOLEAN,
                             generation : 0..MaxGeneration, token : 0..MaxToken]
  BY DEF SealProofInv, CountersInv, TypeOK, Control
<1>2. CASE Arm \/ FlagRegistered
  <2>1. control' = control /\ mpc' \in {"installing", "flagged", "raised"}
        /\ mpc \in {"outside", "installing"} /\ control.phase = "outside"
    BY <1>2 DEF Arm, FlagRegistered, shared, SealProofInv, PhaseInv
  <2> QED BY <2>1 DEF Accepting
<1>3. CASE EnterArmed
  <2>1. control'.phase = "armed" /\ mpc' = "armed" /\ mpc = "flagged" /\ control.phase = "outside"
    BY <1>1, <1>3 DEF EnterArmed, SealProofInv, PhaseInv
  <2> QED BY <2>1 DEF Accepting
<1>4. CASE Activate
  <2>1. mpc = "armed" /\ control.phase = "armed"
        /\ ((mpc' = "snapPoison" /\ call' = "activate") \/ mpc' = "raised")
    BY <1>4 DEF Activate, SealProofInv, PhaseInv
  <2> QED BY <2>1 DEF Accepting, SnapPcs
<1>5. CASE Observe \/ BeginWork \/ CutOver \/ SealReport
  <2>1. control' = control /\ mpc \in {"run", "stopping"} /\ mpc' # "raised"
        /\ (\/ mpc' = "snapPoison" /\ call' \in {"observe", "seal"}
            \/ mpc' \in {"workPoison1", "cutPoison1"})
    BY <1>5 DEF Observe, BeginWork, CutOver, SealReport, Snapshot, shared
  <2> QED BY <2>1 DEF SnapPcs
<1>6. CASE ReadPoison
  <2>1. control' = control /\ call' = call /\ view' = view
        /\ (\/ mpc = "snapPoison" /\ mpc' = "snapControl1"
            \/ /\ mpc \in {"workPoison1", "cutPoison1", "cutBusy", "sealPoison1"}
               /\ mpc' \in {"workGate1", "cutGate", "stopping", "sealGate"}
            \/ mpc' = "raised")
    BY <1>6 DEF ReadPoison, PoisonReads, shared
  <2> QED BY <2>1 DEF SnapPcs
<1>7. CASE ReadWord
  <2>1. control' = control /\ call' = call
    BY <1>7 DEF ReadWord, shared
  <2>2. view \in [control : Control, gate : Int, inFlight : Int, inFlight2 : Int,
                  ready : {-1, 0, 1}, observation : Handlers \union {None}, gate2 : Int]
    BY <1>1 DEF TypeOK, Views
  <2>3. \/ mpc = "snapControl1" /\ mpc' = "snapGate1"
        \/ mpc = "snapGate1" /\ mpc' = "snapFlight1" /\ view'.gate = gate
        \/ /\ mpc \in {"snapFlight1", "snapReady", "snapObservation", "snapFlight2", "snapGate2"}
           /\ mpc' \in {"snapReady", "snapObservation", "snapFlight2", "snapGate2", "snapControl2"}
           /\ view'.gate = view.gate
        \/ /\ mpc \in {"workGate1", "workControl1", "workGate2"}
           /\ mpc' \in {"workControl1", "workControl2", "workPoison2"}
    BY <1>7, <2>2 DEF ReadWord
  <2> QED BY <2>1, <2>3 DEF SnapPcs
<1>8. CASE SnapshotRetry
  <2>1. control' = control /\ call' = call /\ mpc = "snapControl2"
        /\ mpc' \in {"snapPoison", "raised"}
    BY <1>8 DEF SnapshotRetry, shared
  <2> QED BY <2>1 DEF SnapPcs
<1>9. CASE SnapshotReturn
  <2>1. control' = control /\ call' = call /\ mpc = "snapControl2" /\ view.gate = 0
        /\ mpc' \in {"run", "sealPoison1", "release", "done", "raised"}
    BY <1>1, <1>9
    DEF SnapshotReturn, AfterSnapshot, ViewIsCoherent, shared, TypeOK, Calls
  <2> QED BY <2>1 DEF SnapPcs
<1>10. CASE WorkControlMoved \/ WorkVerdict \/ ExcludeGate \/ ReadPoisonExcluded \/ CutReopen
  <2>1. control' = control /\ mpc \notin SnapPcs \union {"outside", "installing", "flagged", "armed", "raised"}
        /\ mpc' \notin {"outside", "installing", "flagged", "armed"}
        /\ (mpc' \notin SnapPcs \/ (mpc' = "snapPoison" /\ call' = "seal"))
    BY <1>10 DEF WorkControlMoved, WorkVerdict, ExcludeGate, ReadPoisonExcluded, CutReopen,
       shared, SnapPcs
  <2> QED BY <2>1
<1>11. CASE CutControl
  <2>1. mpc = "cutControl" /\ mpc' \in {"cutPoison3", "cutReopen"}
        /\ (control' = control \/ control.phase = "pre_id")
    BY <1>11 DEF CutControl
  <2> QED BY <2>1 DEF Accepting, SnapPcs
<1>12. CASE SealControl
  <2>1. mpc = "sealControl" /\ mpc' \in {"sealClose", "sealReopen"}
        /\ (control' = control \/ control'.phase = "sealed")
    BY <1>1, <1>12 DEF SealControl
  <2> QED BY <2>1 DEF Accepting, SnapPcs
<1>13. CASE SealClose \/ SealDrain \/ SealReopen
  <2>1. control' = control /\ mpc \in {"sealClose", "sealDrain", "sealReopen"}
        /\ (\/ mpc' \in {"sealDrain", "sealPoison3", "sealReopen", "raised"}
            \/ mpc' = "snapPoison" /\ call' \in {"seal", "sealProof"})
    BY <1>13 DEF SealClose, SealDrain, SealReopen
  <2> QED BY <2>1 DEF SnapPcs
<1>14. CASE Release \/ Uninstall \/ Unregister
  <2>1. control' = control /\ mpc \in {"release", "uninstall", "unregister"}
        /\ mpc' \in {"uninstall", "unregister", "retire", "raised"}
    BY <1>14 DEF Release, Uninstall, Unregister, shared
  <2> QED BY <2>1 DEF SnapPcs
<1>15. CASE Retire
  <2>1. control'.phase = "released" /\ mpc = "retire" /\ mpc' = "snapPoison"
        /\ call' = "releaseProof"
    BY <1>1, <1>15 DEF Retire, Snapshot
  <2> QED BY <2>1 DEF Accepting, SnapPcs
<1> QED BY <1>2, <1>3, <1>4, <1>5, <1>6, <1>7, <1>8, <1>9, <1>10, <1>11, <1>12, <1>13,
     <1>14, <1>15 DEF MainStep

LEMMA MainKeepsBack ==
  ASSUME SealProofInv, BackInv, MainStep
  PROVE  BackInv'
<1>1. SUFFICES ASSUME Accepting(control)', Activated' \/ GateSeenFree', NEW h \in Handlers
               PROVE  pc'[h] # "backOut"
  BY DEF BackInv
<1>2. TypeOK /\ CountersInv BY DEF SealProofInv, CountersInv
<1>3. pc' = pc BY <1>2, MainFrame
<1>4. Accepting(control)
  BY <1>1, MainOpens DEF Activated, GateSeenFree, SnapPcs
<1>5. Activated \/ GateSeenFree \/ (mpc = "snapGate1" /\ gate = 0)
  BY <1>1, <1>4, MainOpens
<1>6. CASE mpc = "snapGate1" /\ gate = 0
  <2>1. pc[h] \notin GatePcs BY <1>2, <1>6, GateFacts DEF ExclusivePcs
  <2> QED BY <1>3, <2>1 DEF GatePcs
<1> QED BY <1>3, <1>4, <1>5, <1>6 DEF BackInv

\* The reads of try_begin_work and of the cutover.
LEMMA MainKeepsRefusal ==
  ASSUME SealProofInv, RefusalInv, MainStep
  PROVE  RefusalInv'
<1>1. /\ TypeOK /\ CountersInv
      /\ view \in [control : Control, gate : Int, inFlight : Int, inFlight2 : Int,
                  ready : {-1, 0, 1}, observation : Handlers \union {None}, gate2 : Int]
  BY DEF SealProofInv, CountersInv, TypeOK, Views
<1>2. control'.latched = control.latched BY <1>1, MainFrame
<1>3. Doomed => Doomed' BY <1>1, MainKeepsDoomed
<1>4. mpc \in WorkPcs \union {"workGate1", "cutGate"} /\ gate # 0 => Doomed
  BY <1>1, GateFacts DEF WorkPcs, ExclusivePcs
<1> USE DEF Goto
<1>5. CASE ReadWord
  <2>1. control' = control /\ outcome' = outcome BY <1>5 DEF ReadWord, shared
  <2>2. CASE mpc = "workGate1"
    <3>1. mpc' = "workControl1" /\ view'.gate = gate
      BY <1>1, <1>5, <2>2 DEF ReadWord
    <3> QED BY <1>3, <1>4, <2>2, <3>1 DEF RefusalInv
  <2>3. CASE mpc = "workControl1"
    <3>1. mpc' = "workControl2" /\ view'.gate = view.gate /\ view'.control = control
      BY <1>1, <1>5, <2>3 DEF ReadWord
    <3>2. Accepting(control) BY <2>3, OpenWhereRefused DEF WorkPcs
    <3> QED BY <1>3, <2>1, <2>3, <3>1, <3>2 DEF RefusalInv, Accepting
  <2>4. CASE mpc = "workGate2"
    <3>1. /\ mpc' = "workPoison2" /\ view'.gate = view.gate /\ view'.control = view.control
          /\ view'.gate2 = gate
      BY <1>1, <1>5, <2>4 DEF ReadWord
    <3>2. gate # 0 => Doomed BY <1>4, <2>4 DEF WorkPcs
    <3> QED BY <1>2, <1>3, <2>1, <2>4, <3>1, <3>2 DEF RefusalInv, Accepting
  <2>5. CASE mpc \notin {"workGate1", "workControl1", "workGate2"}
    <3>1. mpc' \in SnapPcs BY <1>5, <2>5 DEF ReadWord, SnapPcs
    <3> QED BY <3>1 DEF RefusalInv, SnapPcs
  <2> QED BY <2>2, <2>3, <2>4, <2>5
<1>6. CASE WorkControlMoved
  <2>1. /\ mpc = "workControl2" /\ mpc' = "workGate2" /\ view' = view /\ control' = control
        /\ outcome' = IF view.control = control THEN "same" ELSE "moved"
    BY <1>6 DEF WorkControlMoved, shared
  <2>2. view.control # control => Doomed BY <2>1 DEF RefusalInv, Doomed
  <2> QED BY <1>3, <2>1, <2>2 DEF RefusalInv, Accepting
<1>7. CASE ExcludeGate
  <2>1. mpc' \in {"cutPoison2", "cutBusy", "sealPoison2", "snapPoison"}
        /\ (mpc' = "cutBusy" => mpc = "cutGate" /\ gate # 0)
    BY <1>7 DEF ExcludeGate
  <2> QED BY <1>3, <1>4, <2>1 DEF RefusalInv
<1>8. CASE ReadPoisonExcluded
  <2>1. mpc' \in {"cutReopen", "cutControl", "sealReopen", "sealControl"}
        /\ (mpc' = "cutReopen" => outcome' # "no")
    BY <1>8 DEF ReadPoisonExcluded
  <2> QED BY <2>1 DEF RefusalInv
<1>9. CASE CutControl
  <2>1. mpc = "cutControl" BY <1>9 DEF CutControl
  <2>2. control.phase = "pre_id"
    BY <2>1, OpenWhereRefused DEF SealProofInv, PhaseInv, CutPcs, Accepting
  <2>3. control.generation # 0 => control.latched
    BY <1>1 DEF CountersInv, GenerationCountsAccepted, TypeOK, Control
  <2>4. \/ mpc' = "cutPoison3"
        \/ mpc' = "cutReopen" /\ control' = control /\ control.latched
    BY <1>9, <2>2, <2>3 DEF CutControl
  <2> QED BY <1>2, <2>4 DEF RefusalInv
<1>10. CASE ~ReadWord /\ ~WorkControlMoved /\ ~ExcludeGate /\ ~ReadPoisonExcluded /\ ~CutControl
  <2>1. mpc' \notin WorkPcs \union {"cutBusy", "cutReopen"}
    BY <1>1, <1>10 DEF MainStep, Arm, FlagRegistered, EnterArmed, Activate, Observe, BeginWork,
       CutOver, SealReport, ReadPoison, PoisonReads, SnapshotRetry, SnapshotReturn,
       AfterSnapshot, WorkVerdict, CutReopen, SealControl, SealClose, SealDrain, SealReopen,
       Release, Uninstall, Unregister, Retire, WorkPcs, TypeOK, Calls
  <2> QED BY <2>1 DEF RefusalInv, WorkPcs
<1> QED BY <1>5, <1>6, <1>7, <1>8, <1>9, <1>10

\* Refused work, a busy gate and a refused cutover come from a doomed command.
LEMMA RefusedIsDoomed ==
  ASSUME SealProofInv, RefusalInv, MainStep, refused' # refused
  PROVE  Activated /\ Doomed
<1>1. TypeOK /\ view.control \in Control /\ gate \in Int
  BY DEF SealProofInv, CountersInv, TypeOK, Views
<1>2. \/ WorkVerdict /\ mpc = "workPoison2"
      \/ ReadPoison /\ mpc = "cutBusy"
      \/ CutReopen /\ mpc = "cutReopen" /\ outcome = "no"
  BY <1>1 DEF MainStep, Arm, FlagRegistered, EnterArmed, Activate, Observe, BeginWork, CutOver,
     SealReport, ReadPoison, ReadWord, SnapshotRetry, SnapshotReturn, WorkControlMoved,
     WorkVerdict, ExcludeGate, ReadPoisonExcluded, CutControl, CutReopen, SealControl,
     SealClose, SealDrain, SealReopen, Release, Uninstall, Unregister, Retire, Goto, Snapshot,
     Bookkeeping, TypeOK
<1>3. CASE WorkVerdict /\ mpc = "workPoison2"
  <2>1. \/ view.gate # 0 \/ view.gate2 # 0 \/ outcome # "same"
        \/ ~Accepting(view.control) \/ view.control.latched
    BY <1>1, <1>3 DEF WorkVerdict, TypeOK
  <2> QED BY <1>3, <2>1, OpenWhereRefused DEF RefusalInv, Doomed, WorkPcs
<1>4. CASE mpc = "cutBusy" BY <1>4, OpenWhereRefused DEF RefusalInv
<1>5. CASE mpc = "cutReopen" /\ outcome = "no"
  BY <1>5 DEF RefusalInv, Doomed, Activated, SnapPcs
<1> QED BY <1>2, <1>3, <1>4, <1>5

LEMMA MainKeepsRefused ==
  ASSUME SealProofInv, RefusalInv, RefusedInv, MainStep
  PROVE  RefusedInv'
<1>1. TypeOK /\ CountersInv BY DEF SealProofInv, CountersInv
<1>2. SUFFICES ASSUME refused', mpc' # "raised"
               PROVE  /\ Activated'
                      /\ Doomed'
                      /\ ~Accepting(control)' => poisoned' \/ control'.latched
  BY DEF RefusedInv
<1>3. mpc # "raised"
  BY <1>1 DEF MainStep, Arm, FlagRegistered, EnterArmed, Activate, Observe, BeginWork, CutOver,
     SealReport, ReadPoison, PoisonReads, ReadWord, SnapshotRetry, SnapshotReturn,
     WorkControlMoved, WorkVerdict, ExcludeGate, ReadPoisonExcluded, CutControl, CutReopen,
     SealControl, SealClose, SealDrain, SealReopen, Release, Uninstall, Unregister, Retire, Goto
<1>4. Activated /\ Doomed
  BY <1>2, <1>3, RefusedIsDoomed DEF RefusedInv, Doomed, TypeOK
<1>5. Activated' BY <1>2, <1>4, MainOpens
<1>6. Doomed' BY <1>1, <1>4, MainKeepsDoomed
<1>7. ASSUME ~Accepting(control)' PROVE poisoned' \/ control'.latched
  <2>1. (poisoned => poisoned') /\ control'.latched = control.latched BY <1>1, MainFrame
  <2>2. CASE ~Accepting(control)
    <3>1. refused \/ refused' # refused BY <1>2
    <3>2. CASE refused BY <1>3, <2>1, <2>2, <3>2 DEF RefusedInv
    <3>3. CASE refused' # refused
      <4>1. mpc \in {"workPoison2", "cutBusy"} \/ (mpc = "cutReopen" /\ outcome = "no")
        BY <1>1, <3>3
        DEF MainStep, Arm, FlagRegistered, EnterArmed, Activate, Observe, BeginWork, CutOver,
            SealReport, ReadPoison, ReadWord, SnapshotRetry, SnapshotReturn, WorkControlMoved,
            WorkVerdict, ExcludeGate, ReadPoisonExcluded, CutControl, CutReopen, SealControl,
            SealClose, SealDrain, SealReopen, Release, Uninstall, Unregister, Retire, Goto,
            Snapshot, Bookkeeping, TypeOK
      <4> QED BY <2>1, <2>2, <4>1, OpenWhereRefused DEF RefusalInv, WorkPcs
    <3> QED BY <3>1, <3>2, <3>3
  <2>3. CASE Accepting(control)
    <3>1. mpc = "sealControl"
      BY <1>1, <1>7, <2>3
      DEF MainStep, Arm, FlagRegistered, EnterArmed, Activate, Observe, BeginWork, CutOver,
          SealReport, ReadPoison, ReadWord, SnapshotRetry, SnapshotReturn, WorkControlMoved,
          WorkVerdict, ExcludeGate, ReadPoisonExcluded, CutControl, CutReopen, SealControl,
          SealClose, SealDrain, SealReopen, Release, Uninstall, Unregister, Retire, Goto,
          shared, Accepting, SealProofInv, PhaseInv, TypeOK, Control
    <3>2. \A h \in Handlers : pc[h] \notin GatePcs
      BY <1>1, <3>1, CountZero DEF CountersInv, CountersAreExact, ExclusivePcs
    <3> QED BY <1>4, <2>1, <3>2 DEF Doomed
  <2> QED BY <2>2, <2>3
<1> QED BY <1>5, <1>6, <1>7

LEMMA RefusedInvariant == Spec => [](BackInv /\ RefusalInv /\ RefusedInv)
<1>1. Init => BackInv /\ RefusalInv /\ RefusedInv
  BY DEF Init, Outside, BackInv, Accepting, RefusalInv, RefusedInv
<1>2. SealProofInv /\ BackInv /\ RefusalInv /\ RefusedInv /\ [Next]_vars
        => BackInv' /\ RefusalInv' /\ RefusedInv'
  <2> SUFFICES ASSUME SealProofInv, BackInv, RefusalInv, RefusedInv, [Next]_vars
               PROVE  BackInv' /\ RefusalInv' /\ RefusedInv'
    OBVIOUS
  <2>1. TypeOK BY DEF SealProofInv, CountersInv
  <2>2. CASE MainStep BY <2>2, MainKeepsBack, MainKeepsRefusal, MainKeepsRefused
  <2>3. ASSUME NEW h \in Handlers, HandlerMoves(h)
        PROVE  BackInv' /\ RefusalInv' /\ RefusedInv'
    BY <2>1, <2>3, HandlersKeepBack, HandlersKeepRefusal, HandlersKeepRefused
  <2>4. CASE UNCHANGED vars
    BY <2>4 DEF vars, shared, locals, BackInv, RefusalInv, RefusedInv, Activated, GateSeenFree,
       Doomed, Accepting
  <2> QED BY <2>2, <2>3, <2>4 DEF Next, HandlerMoves
<1> QED BY <1>1, <1>2, SealProofInvariant, PTL DEF Spec

\* ask() is interrupted only by a Ctrl+C that the sealed report then tells of: what made
\* the gate busy or moved the words latches, poisons, or was gone before activation.
THEOREM NoPhantom == Spec => []NoPhantomInterruption
<1>1. SealProofInv /\ RefusedInv => NoPhantomInterruption
  <2> SUFFICES ASSUME SealProofInv, RefusedInv, SealReturned, refused
               PROVE  control.latched
    BY DEF NoPhantomInterruption
  <2>1. ~poisoned /\ mpc # "raised"
    BY DEF SealProofInv, SealInv, Quiet, SealReturned, SnapPcs
  <2>2. ~Accepting(control) BY DEF SealProofInv, PhaseInv, Accepting
  <2> QED BY <2>1, <2>2 DEF RefusedInv
<1> QED BY <1>1, SealProofInvariant, RefusedInvariant, PTL

============================================================================
