------------------------- MODULE CancellationLatch -------------------------
(***************************************************************************)
(* The native Ctrl+C latch of native/knowledge_cancellation and the Python *)
(* bridge that drives it (_knowledge_cancellation.py, run_ask's seal loop).*)
(*                                                                         *)
(* Windows runs the console control handler on a new thread for every      *)
(* Ctrl+C.  Each element of Handlers is one such delivery.  The main       *)
(* thread drives the phases; all of them share lock-free words.  Every     *)
(* action is one interlocked operation (a load and the CAS that succeeds   *)
(* on the loaded value are one step: a CAS that loses just loads again).   *)
(*                                                                         *)
(* A bounded spin of the code may give up whenever the condition it waits  *)
(* for was false at its last look; losing 4096 CAS races in a row would    *)
(* need over a thousand simultaneous handlers and is not modelled.         *)
(***************************************************************************)
EXTENDS Integers, FiniteSets

CONSTANTS
  Handlers,        \* Ctrl+C deliveries, each on its own thread
  MaxGeneration,   \* GEZHI_MAX_GENERATION, 2^28 - 1 in the code
  MaxToken,        \* candidate tokens, 2^32 - 1 in the code
  None             \* no observation published

ASSUME LatchAssumption ==
  /\ IsFiniteSet(Handlers)
  /\ None \notin Handlers
  /\ MaxGeneration \in Nat \ {0}
  /\ MaxToken \in Nat \ {0}

VARIABLES
  control,      \* gezhi_control: phase, latch bit, generation, candidate token
  gate,         \* gezhi_admission_gate: holders, or -1 when main excludes them
  observers,    \* gezhi_admission_observer_state: closed, failed, count
  inFlight,     \* gezhi_accepted_in_flight
  ready,        \* gezhi_publication_ready: 0, -1 (being published), 1
  observation,  \* gezhi_observed_ns, as the delivery that stamped it
  poisoned,     \* gezhi_poisoned
  installed,    \* the handler is in the console's handler list
  registered,   \* gezhi_registered
  pc,           \* where each delivery's thread is
  mpc,          \* where the main thread is
  call,         \* why main takes its current snapshot
  view,         \* what main's current call has read so far
  snap,         \* the snapshot run_ask built its candidate report from
  token,        \* run_ask's candidate_token
  outcome,      \* the result main will return after it reopens the gate
  refused,      \* work or the Answer ID was refused: ask() reports interrupted
  idFormed      \* the Answer ID cutover succeeded

shared == <<control, gate, observers, inFlight, ready, observation, poisoned>>
os     == <<installed, registered>>
locals == <<mpc, call, view, snap, token, outcome, refused, idFormed>>
vars   == <<shared, os, pc, locals>>

Phases == {"outside", "armed", "pre_id", "post_id", "sealed", "released"}
Accepting(c) == c.phase \in {"pre_id", "post_id"}

\* Where a thread can be: while it is registered as an observer, holds the
\* gate, and is counted in flight.
ObserverPcs == {"gateTop", "gateRead", "gatePhase", "gateFail", "gatePoison",
                "leaveDeclined", "leaveAdmitted"}
FlightPcs   == {"claim", "stamp", "confirm", "publish", "await", "awaitPoison",
                "latchCheck", "latch", "landed", "aborted"}
GatePcs     == {"leaveAdmitted", "inGate", "backOut", "fly",
                "leaveLanded", "leaveAborted"} \union FlightPcs
CountedPcs  == {"landed", "leaveLanded", "accepted"}
HandlerPcs  == {"idle", "register", "registerPoison", "declined", "accepted",
                "swallowed"} \union ObserverPcs \union GatePcs

MainPcs == {"outside", "installing", "flagged", "armed", "run", "stopping",
            "snapPoison", "snapControl1", "snapGate1", "snapFlight1",
            "snapReady", "snapObservation", "snapFlight2", "snapGate2",
            "snapControl2", "workPoison1", "workGate1", "workControl1",
            "workControl2", "workGate2", "workPoison2", "cutPoison1",
            "cutGate", "cutBusy", "cutPoison2", "cutControl", "cutPoison3",
            "cutReopen", "sealPoison1", "sealGate", "sealPoison2",
            "sealControl", "sealClose", "sealDrain", "sealPoison3",
            "sealReopen", "release", "uninstall", "unregister", "retire",
            "done", "raised"}
Calls == {"activate", "observe", "seal", "sealProof", "releaseProof"}
Outcomes == {"none", "same", "moved", "yes", "no", "fail"}

Control   == [phase : Phases, latched : BOOLEAN,
              generation : 0..MaxGeneration, token : 0..MaxToken]
Snapshots == [phase : Phases, generation : 0..MaxGeneration, latched : BOOLEAN,
              observation : Handlers \union {None}, inFlight : Int,
              ready : BOOLEAN, token : 0..MaxToken]
Views     == [control : Control, gate : Int, inFlight : Int, inFlight2 : Int,
              ready : {-1, 0, 1}, observation : Handlers \union {None}, gate2 : Int]

Outside == [phase |-> "outside", latched |-> FALSE, generation |-> 0, token |-> 0]
NoView  == [control |-> Outside, gate |-> 0, inFlight |-> 0, inFlight2 |-> 0,
            ready |-> 0, observation |-> None, gate2 |-> 0]

InitialSnapshot == [phase |-> "pre_id", generation |-> 0, latched |-> FALSE,
                    observation |-> None, inFlight |-> 0, ready |-> FALSE,
                    token |-> 0]

Init ==
  /\ control = Outside
  /\ gate = 0 /\ inFlight = 0 /\ ready = 0 /\ observation = None
  /\ observers = [closed |-> FALSE, failed |-> FALSE, count |-> 0]
  /\ poisoned = FALSE /\ installed = FALSE /\ registered = FALSE
  /\ pc = [h \in Handlers |-> "idle"]
  /\ mpc = "outside" /\ call = "activate" /\ view = NoView
  /\ snap = InitialSnapshot
  /\ token = 0 /\ outcome = "none" /\ refused = FALSE /\ idFormed = FALSE

-----------------------------------------------------------------------------
(* The handler thread of one Ctrl+C delivery.                              *)

Step(h, from, to) == pc[h] = from /\ pc' = [pc EXCEPT ![h] = to]

\* Windows starts a handler thread while the handler is in the list.
Deliver(h) ==
  /\ installed
  /\ Step(h, "idle", "register")
  /\ UNCHANGED <<shared, os, locals>>

\* gezhi_register_admission_observer
Register(h) ==
  /\ pc[h] = "register"
  /\ IF observers.closed
       THEN Step(h, "register", "declined") /\ UNCHANGED observers
     ELSE IF observers.failed
       THEN Step(h, "register", "registerPoison") /\ UNCHANGED observers
     ELSE /\ observers' = [observers EXCEPT !.count = @ + 1]
          /\ Step(h, "register", "gateTop")
  /\ UNCHANGED <<control, gate, inFlight, ready, observation, poisoned, os, locals>>

\* It saw the failed bit, or gezhi_fail_admission_observer found no closed bit.
Poison(h) ==
  /\ \/ Step(h, "registerPoison", "declined")
     \/ Step(h, "gatePoison", "leaveDeclined")
     \/ Step(h, "awaitPoison", "latchCheck")
  /\ poisoned' = TRUE
  /\ UNCHANGED <<control, gate, observers, inFlight, ready, observation, os, locals>>

\* gezhi_try_enter_admission_gate: the spin for a non-negative gate.
GateTop(h) ==
  /\ Step(h, "gateTop", IF observers.closed THEN "leaveDeclined" ELSE "gateRead")
  /\ UNCHANGED <<shared, os, locals>>

\* Mutant: the spin enters a gate that main has excluded.
GateReadBarges(h) ==
  /\ Step(h, "gateRead", "leaveAdmitted") /\ gate' = gate + 1
  /\ UNCHANGED <<control, observers, inFlight, ready, observation, poisoned, os, locals>>

GateRead(h) ==
  /\ IF gate < 0
       THEN Step(h, "gateRead", "gatePhase") /\ UNCHANGED gate
       ELSE Step(h, "gateRead", "leaveAdmitted") /\ gate' = gate + 1
  /\ UNCHANGED <<control, observers, inFlight, ready, observation, poisoned, os, locals>>

\* The gate is excluded: decline if nothing is accepting, else spin or give up.
GatePhase(h) ==
  /\ IF Accepting(control)
       THEN \E next \in {"gateTop", "gateFail"} : Step(h, "gatePhase", next)
       ELSE Step(h, "gatePhase", "leaveDeclined")
  /\ UNCHANGED <<shared, os, locals>>

\* gezhi_fail_admission_observer: the Or of the failed bit.
GateFail(h) ==
  /\ observers' = [observers EXCEPT !.failed = TRUE]
  /\ Step(h, "gateFail", IF observers.closed THEN "leaveDeclined" ELSE "gatePoison")
  /\ UNCHANGED <<control, gate, inFlight, ready, observation, poisoned, os, locals>>

\* gezhi_leave_admission_observer
LeaveObserver(h) ==
  /\ \/ Step(h, "leaveDeclined", "declined")
     \/ Step(h, "leaveAdmitted", "inGate")
  /\ IF observers.count = 0
       THEN poisoned' = TRUE /\ UNCHANGED observers
       ELSE observers' = [observers EXCEPT !.count = @ - 1] /\ UNCHANGED poisoned
  /\ UNCHANGED <<control, gate, inFlight, ready, observation, os, locals>>

\* gezhi_handler looks at the phase once it is inside the gate.
CheckPhase(h) ==
  /\ Step(h, "inGate", IF Accepting(control) THEN "fly" ELSE "backOut")
  /\ UNCHANGED <<shared, os, locals>>

\* gezhi_leave_admission_gate; the handler then returns FALSE or TRUE.
LeaveGate(h) ==
  /\ \/ Step(h, "backOut", "declined")
     \/ Step(h, "leaveLanded", "accepted")
     \/ Step(h, "leaveAborted", "swallowed")
  /\ gate' = gate - 1
  /\ poisoned' = (poisoned \/ gate - 1 < 0)
  /\ UNCHANGED <<control, observers, inFlight, ready, observation, os, locals>>

Fly(h) ==
  /\ Step(h, "fly", "claim")
  /\ inFlight' = inFlight + 1
  /\ UNCHANGED <<control, gate, observers, ready, observation, poisoned, os, locals>>

\* Mutant: a delivery does not wait for the one that is still publishing.
ClaimImpatient(h) ==
  /\ \/ ready = 0 /\ Step(h, "claim", "stamp") /\ ready' = -1
     \/ ready # 0 /\ Step(h, "claim", "latchCheck") /\ UNCHANGED ready
  /\ UNCHANGED <<control, gate, observers, inFlight, observation, poisoned, os, locals>>

\* Mutant: a repeated Ctrl+C stamps the observation again.
ClaimRestamps(h) ==
  /\ \/ ready # -1 /\ Step(h, "claim", "stamp") /\ ready' = -1
     \/ ready = -1 /\ Step(h, "claim", "await") /\ UNCHANGED ready
  /\ UNCHANGED <<control, gate, observers, inFlight, observation, poisoned, os, locals>>

\* The first delivery claims the publication, the others wait for it.
Claim(h) ==
  /\ \/ ready = 0  /\ Step(h, "claim", "stamp") /\ ready' = -1
     \/ ready = -1 /\ Step(h, "claim", "await") /\ UNCHANGED ready
     \/ ready = 1  /\ Step(h, "claim", "latchCheck") /\ UNCHANGED ready
  /\ UNCHANGED <<control, gate, observers, inFlight, observation, poisoned, os, locals>>

\* Mutant: a failing clock gives the Ctrl+C up instead of poisoning.
StampForgives(h) ==
  /\ \/ Step(h, "stamp", "confirm") /\ observation' = h /\ UNCHANGED ready
     \/ Step(h, "stamp", "aborted") /\ ready' = 0 /\ UNCHANGED observation
  /\ UNCHANGED <<control, gate, observers, inFlight, poisoned, os, locals>>

\* QueryPerformanceCounter and gezhi_observation_ns, either of which may fail.
Stamp(h) ==
  /\ \/ Step(h, "stamp", "confirm") /\ observation' = h /\ UNCHANGED poisoned
     \/ Step(h, "stamp", "latchCheck") /\ poisoned' = TRUE /\ UNCHANGED observation
  /\ UNCHANGED <<control, gate, observers, inFlight, ready, os, locals>>

Confirm(h) ==
  /\ Step(h, "confirm", IF poisoned THEN "latchCheck" ELSE "publish")
  /\ UNCHANGED <<shared, os, locals>>

Publish(h) ==
  /\ Step(h, "publish", "latchCheck")
  /\ ready' = 1
  /\ UNCHANGED <<control, gate, observers, inFlight, observation, poisoned, os, locals>>

\* The bounded wait for the publication: it ends with ready = 1 or gives up.
Await(h) ==
  /\ Step(h, "await", IF ready = 1 THEN "latchCheck" ELSE "awaitPoison")
  /\ UNCHANGED <<shared, os, locals>>

LatchCheck(h) ==
  /\ Step(h, "latchCheck", IF poisoned THEN "aborted" ELSE "latch")
  /\ UNCHANGED <<shared, os, locals>>

\* Mutants: the count runs past its field; the count stops at the field's
\* maximum and the delivery is swallowed.
LatchUnbounded(h) ==
  /\ Step(h, "latch", "landed")
  /\ control' = [control EXCEPT !.latched = TRUE, !.generation = @ + 1]
  /\ UNCHANGED <<gate, observers, inFlight, ready, observation, poisoned, os, locals>>
LatchSaturates(h) ==
  /\ Step(h, "latch", "landed")
  /\ control' = [control EXCEPT !.latched = TRUE,
                  !.generation = IF @ < MaxGeneration THEN @ + 1 ELSE @]
  /\ UNCHANGED <<gate, observers, inFlight, ready, observation, poisoned, os, locals>>

\* The CAS that sets the latch bit and counts this delivery.
Latch(h) ==
  /\ IF Accepting(control) /\ control.generation < MaxGeneration
       THEN /\ Step(h, "latch", "landed")
            /\ control' = [control EXCEPT !.latched = TRUE, !.generation = @ + 1]
            /\ UNCHANGED poisoned
       ELSE /\ Step(h, "latch", "aborted")
            /\ poisoned' = TRUE
            /\ UNCHANGED control
  /\ UNCHANGED <<gate, observers, inFlight, ready, observation, os, locals>>

Land(h) ==
  /\ \/ Step(h, "landed", "leaveLanded")
     \/ Step(h, "aborted", "leaveAborted")
  /\ inFlight' = inFlight - 1
  /\ UNCHANGED <<control, gate, observers, ready, observation, poisoned, os, locals>>

HandlerStep(h) ==
  \/ Register(h) \/ Poison(h) \/ GateTop(h) \/ GateRead(h) \/ GatePhase(h)
  \/ GateFail(h) \/ LeaveObserver(h) \/ CheckPhase(h) \/ LeaveGate(h)
  \/ Fly(h) \/ Claim(h) \/ Stamp(h) \/ Confirm(h) \/ Publish(h) \/ Await(h)
  \/ LatchCheck(h) \/ Latch(h) \/ Land(h)

-----------------------------------------------------------------------------
(* The main thread: run_ask and the native calls of the bridge it makes.   *)

Goto(from, to) == mpc = from /\ mpc' = to
Bookkeeping == <<call, view, snap, token, outcome, refused, idFormed>>

\* gezhi_cancel_v1_arm: SetConsoleCtrlHandler may fail.
Arm ==
  /\ \/ Goto("outside", "installing") /\ installed' = TRUE
     \/ Goto("outside", "raised") /\ UNCHANGED installed
  /\ UNCHANGED <<shared, registered, pc, Bookkeeping>>

FlagRegistered ==
  /\ Goto("installing", "flagged")
  /\ registered' = TRUE
  /\ UNCHANGED <<shared, installed, pc, Bookkeeping>>

EnterArmed ==
  /\ Goto("flagged", "armed")
  /\ control' = [control EXCEPT !.phase = "armed"]
  /\ UNCHANGED <<gate, observers, inFlight, ready, observation, poisoned,
                 os, pc, Bookkeeping>>

\* Normalizing the inherited ignore may fail; gezhi_cancel_v1_activate.
Activate ==
  /\ \/ /\ Goto("armed", "snapPoison")
        /\ control' = [control EXCEPT !.phase = "pre_id"]
        /\ call' = "activate" /\ view' = NoView
     \/ Goto("armed", "raised") /\ UNCHANGED <<control, call, view>>
  /\ UNCHANGED <<gate, observers, inFlight, ready, observation, poisoned,
                 os, pc, snap, token, outcome, refused, idFormed>>

\* ask() is between two calls of the bridge: it observes the cancellation,
\* asks to begin its next piece of work, or has its report and seals it.
Snapshot(c) == call' = c /\ view' = NoView /\ UNCHANGED <<snap, token, outcome, refused, idFormed>>

Observe   == Goto("run", "snapPoison") /\ Snapshot("observe")
             /\ UNCHANGED <<shared, os, pc>>
BeginWork == Goto("run", "workPoison1") /\ view' = NoView
             /\ UNCHANGED <<shared, os, pc, call, snap, token, outcome, refused, idFormed>>
CutOver   == ~idFormed /\ Goto("run", "cutPoison1")
             /\ UNCHANGED <<shared, os, pc, Bookkeeping>>
SealReport == (\E from \in {"run", "stopping"} : Goto(from, "snapPoison")) /\ Snapshot("seal")
             /\ UNCHANGED <<shared, os, pc>>

\* A read of gezhi_poisoned at the head of a call.
PoisonReads == [snapPoison |-> "snapControl1", workPoison1 |-> "workGate1",
                cutPoison1 |-> "cutGate", cutBusy |-> "stopping",
                sealPoison1 |-> "sealGate"]
ReadPoison ==
  /\ \E from \in DOMAIN PoisonReads :
       Goto(from, IF poisoned THEN "raised" ELSE PoisonReads[from])
  /\ refused' = (refused \/ (mpc = "cutBusy" /\ ~poisoned))
  /\ UNCHANGED <<shared, os, pc, call, view, snap, token, outcome, idFormed>>

\* gezhi_cancel_v1_snapshot and gezhi_cancel_v1_try_begin_work read the words
\* one by one into locals.
ReadWord ==
  /\ \/ Goto("snapControl1", "snapGate1") /\ view' = [view EXCEPT !.control = control]
     \/ Goto("snapGate1", "snapFlight1") /\ view' = [view EXCEPT !.gate = gate]
     \/ Goto("snapFlight1", "snapReady") /\ view' = [view EXCEPT !.inFlight = inFlight]
     \/ Goto("snapReady", "snapObservation") /\ view' = [view EXCEPT !.ready = ready]
     \/ Goto("snapObservation", "snapFlight2")
        /\ view' = [view EXCEPT !.observation = observation]
     \/ Goto("snapFlight2", "snapGate2") /\ view' = [view EXCEPT !.inFlight2 = inFlight]
     \/ Goto("snapGate2", "snapControl2") /\ view' = [view EXCEPT !.gate2 = gate]
     \/ Goto("workGate1", "workControl1") /\ view' = [view EXCEPT !.gate = gate]
     \/ Goto("workControl1", "workControl2") /\ view' = [view EXCEPT !.control = control]
     \/ Goto("workGate2", "workPoison2") /\ view' = [view EXCEPT !.gate2 = gate]
  /\ UNCHANGED <<shared, os, pc, call, snap, token, outcome, refused, idFormed>>

\* The coherence tests of the snapshot loop, on the last of the eight reads.
ViewIsCoherent ==
  /\ view.control = control /\ view.inFlight = view.inFlight2
  /\ view.gate = view.gate2 /\ view.gate = 0
  /\ view.inFlight >= 0 /\ view.ready >= 0
  /\ view.control.latched => view.ready # 0

Taken == [phase |-> view.control.phase, generation |-> view.control.generation,
          latched |-> view.control.latched,
          observation |-> IF view.control.latched THEN view.observation ELSE None,
          inFlight |-> view.inFlight, ready |-> view.ready # 0,
          token |-> view.control.token]

\* _validated_native_snapshot_v1
SnapshotIsValid(s) ==
  /\ s.latched = s.ready /\ s.latched = (s.generation > 0)
  /\ s.phase \in {"outside", "armed"} => ~s.latched
  /\ s.phase \notin {"pre_id", "post_id"} => s.inFlight = 0
  /\ (s.phase \in {"sealed", "released"}) = (s.token > 0)

\* What the bridge requires of the snapshot it asked for, and where it goes.
SnapshotProves(s) ==
  CASE call = "activate"     -> s = InitialSnapshot
    [] call = "sealProof"    -> s.phase = "sealed" /\ s.token = token
    [] call = "releaseProof" -> s.phase = "released" /\ s.token = token /\ s.inFlight = 0
    [] call = "seal"         -> token < MaxToken
    [] OTHER                 -> TRUE
AfterSnapshot == [activate |-> "run", observe |-> "run", seal |-> "sealPoison1",
                  sealProof |-> "release", releaseProof |-> "done"]

SnapshotRetry ==
  /\ ~ViewIsCoherent
  /\ \E to \in {"snapPoison", "raised"} : Goto("snapControl2", to)
  /\ view' = NoView
  /\ UNCHANGED <<shared, os, pc, call, snap, token, outcome, refused, idFormed>>

\* Mutant: a new candidate keeps the first one's observations.
SnapshotReturnKeeps ==
  /\ ViewIsCoherent
  /\ IF SnapshotIsValid(Taken) /\ SnapshotProves(Taken)
       THEN /\ Goto("snapControl2", AfterSnapshot[call])
            /\ IF call = "seal" THEN /\ snap' = IF token = 0 THEN Taken ELSE snap
                                     /\ token' = token + 1
                                ELSE UNCHANGED <<snap, token>>
       ELSE Goto("snapControl2", "raised") /\ UNCHANGED <<snap, token>>
  /\ view' = NoView
  /\ UNCHANGED <<shared, os, pc, call, outcome, refused, idFormed>>

SnapshotReturn ==
  /\ ViewIsCoherent
  /\ IF SnapshotIsValid(Taken) /\ SnapshotProves(Taken)
       THEN /\ Goto("snapControl2", AfterSnapshot[call])
            /\ IF call = "seal" THEN snap' = Taken /\ token' = token + 1
                                ELSE UNCHANGED <<snap, token>>
       ELSE Goto("snapControl2", "raised") /\ UNCHANGED <<snap, token>>
  /\ view' = NoView
  /\ UNCHANGED <<shared, os, pc, call, outcome, refused, idFormed>>

\* The second look of gezhi_cancel_v1_try_begin_work at control: the work is
\* refused when the words moved, a delivery is in the gate or has latched.
WorkControlMoved ==
  /\ Goto("workControl2", "workGate2")
  /\ outcome' = IF view.control = control THEN "same" ELSE "moved"
  /\ UNCHANGED <<shared, os, pc, call, view, snap, token, refused, idFormed>>

WorkVerdict ==
  LET begin == /\ view.gate = 0 /\ view.gate2 = 0 /\ outcome = "same"
               /\ Accepting(view.control) /\ ~view.control.latched
  IN /\ Goto("workPoison2", IF poisoned THEN "raised"
                            ELSE IF begin THEN "run" ELSE "stopping")
     /\ refused' = (refused \/ (~poisoned /\ ~begin))
     /\ view' = NoView /\ outcome' = "none"
     /\ UNCHANGED <<shared, os, pc, call, snap, token, idFormed>>

\* Main excludes the deliveries from the gate, for the cutover and the seal.
ExcludeGate ==
  /\ \/ gate = 0 /\ Goto("cutGate", "cutPoison2") /\ gate' = -1 /\ UNCHANGED <<call, view>>
     \/ gate # 0 /\ Goto("cutGate", "cutBusy") /\ UNCHANGED <<gate, call, view>>
     \/ gate = 0 /\ Goto("sealGate", "sealPoison2") /\ gate' = -1 /\ UNCHANGED <<call, view>>
     \/ gate # 0 /\ Goto("sealGate", "snapPoison") /\ call' = "seal" /\ view' = NoView
        /\ UNCHANGED gate
  /\ UNCHANGED <<control, observers, inFlight, ready, observation, poisoned,
                 os, pc, snap, token, outcome, refused, idFormed>>

\* A read of gezhi_poisoned while the gate is excluded.
ReadPoisonExcluded ==
  /\ \/ Goto("cutPoison2", IF poisoned THEN "cutReopen" ELSE "cutControl")
        /\ outcome' = IF poisoned THEN "fail" ELSE outcome
     \/ Goto("cutPoison3", "cutReopen")
        /\ outcome' = IF poisoned THEN "fail" ELSE "yes"
     \/ Goto("sealPoison2", IF poisoned THEN "sealReopen" ELSE "sealControl")
        /\ outcome' = IF poisoned THEN "fail" ELSE outcome
     \/ Goto("sealPoison3", "sealReopen")
        /\ outcome' = IF poisoned THEN "fail" ELSE "yes"
  /\ UNCHANGED <<shared, os, pc, call, view, snap, token, refused, idFormed>>

\* gezhi_cancel_v1_try_answer_id_cutover, once it has the gate.
CutControl ==
  /\ IF control.phase = "pre_id" /\ ~control.latched /\ control.generation = 0
       THEN /\ Goto("cutControl", "cutPoison3")
            /\ control' = [control EXCEPT !.phase = "post_id"]
            /\ UNCHANGED outcome
       ELSE Goto("cutControl", "cutReopen") /\ outcome' = "no" /\ UNCHANGED control
  /\ UNCHANGED <<gate, observers, inFlight, ready, observation, poisoned,
                 os, pc, call, view, snap, token, refused, idFormed>>

CutReopen ==
  /\ Goto("cutReopen", IF outcome = "yes" THEN "run"
                       ELSE IF outcome = "no" THEN "stopping" ELSE "raised")
  /\ gate' = 0
  /\ idFormed' = (outcome = "yes")
  /\ refused' = (refused \/ outcome = "no")
  /\ outcome' = "none"
  /\ UNCHANGED <<control, observers, inFlight, ready, observation, poisoned,
                 os, pc, call, view, snap, token>>

\* Mutant: the seal compares no generation.
SealControlStale ==
  /\ Goto("sealControl", "sealClose")
  /\ control' = [control EXCEPT !.phase = "sealed", !.token = token]
  /\ UNCHANGED <<gate, observers, inFlight, ready, observation, poisoned,
                 os, pc, call, view, snap, token, outcome, refused, idFormed>>

\* gezhi_cancel_v1_conditional_seal, once it has the gate.
SealControl ==
  /\ IF /\ Accepting(control) /\ control.generation = snap.generation
        /\ control.latched => ready = 1
       THEN /\ Goto("sealControl", "sealClose")
            /\ control' = [control EXCEPT !.phase = "sealed", !.token = token]
            /\ UNCHANGED outcome
       ELSE Goto("sealControl", "sealReopen") /\ outcome' = "no" /\ UNCHANGED control
  /\ UNCHANGED <<gate, observers, inFlight, ready, observation, poisoned,
                 os, pc, call, view, snap, token, refused, idFormed>>

SealClose ==
  /\ Goto("sealClose", "sealDrain")
  /\ observers' = [observers EXCEPT !.closed = TRUE]
  /\ poisoned' = (poisoned \/ observers.closed \/ observers.failed)
  /\ UNCHANGED <<control, gate, inFlight, ready, observation, os, pc, Bookkeeping>>

\* Mutant: the seal does not wait for the observers.
SealDrainSkips ==
  /\ Goto("sealDrain", "sealPoison3")
  /\ UNCHANGED <<shared, os, pc, Bookkeeping>>

\* gezhi_drain_admission_observers waits, or gives up and poisons.
SealDrain ==
  /\ \/ observers.count = 0 /\ Goto("sealDrain", "sealPoison3")
        /\ UNCHANGED <<poisoned, outcome>>
     \/ observers.count # 0 /\ Goto("sealDrain", "sealReopen")
        /\ poisoned' = TRUE /\ outcome' = "fail"
  /\ UNCHANGED <<control, gate, observers, inFlight, ready, observation,
                 os, pc, call, view, snap, token, refused, idFormed>>

\* Mutant: the gate stays excluded when the seal is refused.
SealReopenForgets ==
  /\ Goto("sealReopen", IF outcome = "fail" THEN "raised" ELSE "snapPoison")
  /\ call' = IF outcome = "yes" THEN "sealProof" ELSE "seal"
  /\ view' = NoView /\ outcome' = "none"
  /\ gate' = IF outcome = "no" THEN -1 ELSE 0
  /\ UNCHANGED <<control, observers, inFlight, ready, observation, poisoned,
                 os, pc, snap, token, refused, idFormed>>

\* conditional_seal_v1 proves its token; run_ask seals again when it was told no.
SealReopen ==
  /\ Goto("sealReopen", IF outcome = "fail" THEN "raised" ELSE "snapPoison")
  /\ call' = IF outcome = "yes" THEN "sealProof" ELSE "seal"
  /\ view' = NoView /\ outcome' = "none"
  /\ gate' = 0
  /\ UNCHANGED <<control, observers, inFlight, ready, observation, poisoned,
                 os, pc, snap, token, refused, idFormed>>

\* gezhi_cancel_v1_release: wait for the deliveries in flight, then remove.
Release ==
  /\ \/ inFlight = 0 /\ control.phase = "sealed" /\ control.token # 0 /\ registered
        /\ Goto("release", "uninstall") /\ UNCHANGED poisoned
     \/ inFlight = 0 /\ ~(control.phase = "sealed" /\ control.token # 0 /\ registered)
        /\ Goto("release", "raised") /\ UNCHANGED poisoned
     \/ inFlight # 0 /\ Goto("release", "raised") /\ poisoned' = TRUE
  /\ UNCHANGED <<control, gate, observers, inFlight, ready, observation,
                 os, pc, Bookkeeping>>

Uninstall ==
  /\ \/ Goto("uninstall", "unregister") /\ installed' = FALSE /\ UNCHANGED poisoned
     \/ Goto("uninstall", "raised") /\ poisoned' = TRUE /\ UNCHANGED installed
  /\ UNCHANGED <<control, gate, observers, inFlight, ready, observation,
                 registered, pc, Bookkeeping>>

Unregister ==
  /\ Goto("unregister", "retire")
  /\ registered' = FALSE
  /\ UNCHANGED <<shared, installed, pc, Bookkeeping>>

\* Mutant: the released word is written afresh.
RetireWipes ==
  /\ Goto("retire", "snapPoison")
  /\ control' = [Outside EXCEPT !.phase = "released"]
  /\ Snapshot("releaseProof")
  /\ UNCHANGED <<gate, observers, inFlight, ready, observation, poisoned, os, pc>>

Retire ==
  /\ Goto("retire", "snapPoison")
  /\ control' = [control EXCEPT !.phase = "released"]
  /\ Snapshot("releaseProof")
  /\ UNCHANGED <<gate, observers, inFlight, ready, observation, poisoned, os, pc>>

MainStep ==
  \/ Arm \/ FlagRegistered \/ EnterArmed \/ Activate \/ Observe \/ BeginWork
  \/ CutOver \/ SealReport \/ ReadPoison \/ ReadWord \/ SnapshotRetry
  \/ SnapshotReturn \/ WorkControlMoved \/ WorkVerdict \/ ExcludeGate
  \/ ReadPoisonExcluded \/ CutControl \/ CutReopen \/ SealControl \/ SealClose
  \/ SealDrain \/ SealReopen \/ Release \/ Uninstall \/ Unregister \/ Retire

Next == MainStep \/ \E h \in Handlers : Deliver(h) \/ HandlerStep(h)

Spec == Init /\ [][Next]_vars

\* Windows schedules every thread.  ask() is free to go on working for ever,
\* so nothing here obliges it to reach the seal.
Fairness == WF_vars(MainStep) /\ \A h \in Handlers : WF_vars(HandlerStep(h))

FairSpec == Spec /\ Fairness

-----------------------------------------------------------------------------
(* Properties.                                                             *)

Count(pcs) == Cardinality({h \in Handlers : pc[h] \in pcs})
ExclusivePcs == {"cutPoison2", "cutControl", "cutPoison3", "cutReopen",
                 "sealPoison2", "sealControl", "sealClose", "sealDrain",
                 "sealPoison3", "sealReopen"}
SnapPcs == {"snapPoison", "snapControl1", "snapGate1", "snapFlight1", "snapReady",
            "snapObservation", "snapFlight2", "snapGate2", "snapControl2"}
\* gezhi_cancel_v1_conditional_seal has returned 1.
SealReturned == \/ mpc \in {"release", "uninstall", "unregister", "retire", "done"}
                \/ (mpc \in SnapPcs /\ call \in {"sealProof", "releaseProof"})

TypeOK ==
  /\ control \in Control
  /\ gate \in Int /\ inFlight \in Int /\ ready \in {-1, 0, 1}
  /\ observers \in [closed : BOOLEAN, failed : BOOLEAN, count : Nat]
  /\ observation \in Handlers \union {None}
  /\ poisoned \in BOOLEAN /\ installed \in BOOLEAN /\ registered \in BOOLEAN
  /\ pc \in [Handlers -> HandlerPcs]
  /\ mpc \in MainPcs /\ call \in Calls
  /\ view \in Views
  /\ snap \in Snapshots
  /\ token \in 0..MaxToken
  /\ outcome \in Outcomes
  /\ refused \in BOOLEAN /\ idFormed \in BOOLEAN

\* The three lock-free counters never lose or gain a thread, whatever the
\* interleaving of enters, leaves, exclusions and give-ups: the gate holds
\* exactly the threads inside it, or main alone, so that no decrement
\* underflows (the poisoning of leave_admission_gate and
\* leave_admission_observer is unreachable).
CountersAreExact ==
  /\ gate = (IF mpc \in ExclusivePcs THEN -1 ELSE Count(GatePcs))
  /\ mpc \in ExclusivePcs => Count(GatePcs) = 0
  /\ observers.count = Count(ObserverPcs)
  /\ inFlight = Count(FlightPcs)

\* Every Ctrl+C the handler swallowed for the command is counted once in the
\* generation the seal compares, and none else is: a delivery that is passed on
\* to the next handler has left no trace in control.
GenerationCountsAccepted ==
  /\ control.generation = Count(CountedPcs)
  /\ control.latched = (control.generation > 0)

\* A reader that sees the latch bit finds the observation published: the first
\* accepted delivery stamps before any delivery latches.
LatchedIsPublished ==
  control.latched => ready = 1 /\ observation # None

\* Once the seal has returned 1 no handler thread is, or will be, between its
\* registration as an observer and the end of its work: none can still touch
\* the words or poison them while the report is presented.
SealedIsQuiet ==
  SealReturned =>
    /\ ~poisoned /\ gate = 0
    /\ \A h \in Handlers : pc[h] \in {"idle", "register", "declined", "accepted"}

\* The report that run_ask sealed was built from the cancellation state that
\* was sealed: no delivery is accepted between the snapshot and the seal
\* without the candidate being rebuilt.
SealedReportIsCurrent ==
  control.phase \in {"sealed", "released"} =>
    /\ snap.generation = control.generation
    /\ snap.latched = control.latched
    /\ snap.latched => snap.observation = observation
    /\ token = control.token

\* ask() was refused work or the Answer ID only because of a real Ctrl+C: when
\* the command ends in order after a refusal, the sealed state is cancelled,
\* although a refusal needs only a delivery inside the gate.
NoPhantomInterruption ==
  SealReturned /\ refused => control.latched

\* The observation that dates the cancellation is written once: a repeated
\* Ctrl+C never moves it (ADR 0098).
FirstObservationStands ==
  [][observation # None => observation' = observation]_vars

\* The sealed words are immutable: whatever deliveries still arrive, the latch,
\* generation, observation and token do not change after the seal.
SealIsFinal ==
  [][control.phase \in {"sealed", "released"} =>
       /\ [control' EXCEPT !.phase = 0] = [control EXCEPT !.phase = 0]
       /\ observation' = observation /\ ready' = ready
       /\ control'.phase \in {"sealed", "released"}]_vars

\* Once sealed, the command fails only if Windows refuses to remove the handler:
\* no proof snapshot, drain or late delivery can turn a sealed report into an
\* error.
SealedFailsOnlyAtRemoval ==
  [][SealReturned /\ mpc' = "raised" => mpc = "uninstall"]_vars

\* The latch implements the abstract cancellation window.
Window == INSTANCE CancellationWindow WITH
  Deliveries <- Handlers,
  phase <- CASE control.phase \in {"outside", "armed"} -> "closed"
             [] control.phase \in {"pre_id", "post_id"} -> "open"
             [] OTHER -> "sealed",
  accepted <- {h \in Handlers : pc[h] \in CountedPcs},
  first <- IF control.latched THEN observation ELSE None,
  idFormed <- idFormed \/ control.phase = "post_id",
  report <- IF control.phase \in {"sealed", "released"}
              THEN [cancelled |-> snap.latched, by |-> snap.observation]
              ELSE None
ImplementsWindow == Window!WindowSpec

\* The handler thread of every delivery returns to Windows.
DeliveriesReturn ==
  \A h \in Handlers : pc[h] = "register" ~> pc[h] \in {"declined", "accepted", "swallowed"}

\* Sealing terminates: with every thread scheduled, run_ask's retry loop ends in
\* a released window or in a fault.  Neither does it wait for ever on a delivery
\* that waits on it, nor is it refused again and again: each refusal is owed to a
\* delivery of its own, so the loop never ends by running out of tokens.
SealingEnds ==
  call = "seal" /\ mpc \in SnapPcs
    ~> mpc = "done" \/ (mpc = "raised" /\ token < MaxToken)

\* An accepted delivery makes the command report a cancellation; it is never
\* taken for a failure to activate.
AcceptedIsNotAFault ==
  [][(mpc = "snapControl2" /\ call = "activate" /\ mpc' = "raised")
       => (poisoned \/ ~control.latched)]_vars

=============================================================================
