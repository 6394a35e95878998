------------------------ MODULE MCCancellationLatch ------------------------
(* Small instances of CancellationLatch for TLC. *)
EXTENDS CancellationLatch, TLC

\* The window is open, and ask() has its report: what is left to schedule is the
\* deliveries and the seal.  The run that checks liveness starts here.  One
\* delivery is over: it came before the window opened, or it has been counted.
WindowOpen ==
  LET h == CHOOSE x \in Handlers : TRUE
  IN \E counted \in BOOLEAN :
       /\ control = [Outside EXCEPT !.phase = "pre_id", !.latched = counted,
                       !.generation = IF counted THEN 1 ELSE 0]
       /\ ready = IF counted THEN 1 ELSE 0
       /\ observation = IF counted THEN h ELSE None
       /\ pc = [g \in Handlers |-> IF g # h THEN "idle"
                                   ELSE IF counted THEN "accepted" ELSE "declined"]
       /\ gate = 0 /\ inFlight = 0
       /\ observers = [closed |-> FALSE, failed |-> FALSE, count |-> 0]
       /\ poisoned = FALSE /\ installed = TRUE /\ registered = TRUE
       /\ mpc = "run" /\ call = "activate" /\ view = NoView
       /\ snap = InitialSnapshot
       /\ token = 0 /\ outcome = "none" /\ refused = FALSE /\ idFormed = FALSE

SealingNext ==
  \/ SealReport \/ ReadPoison \/ ReadWord \/ SnapshotRetry \/ SnapshotReturn
  \/ ExcludeGate \/ ReadPoisonExcluded \/ SealControl \/ SealClose \/ SealDrain
  \/ SealReopen \/ Release \/ Uninstall \/ Unregister \/ Retire
  \/ \E h \in Handlers : Deliver(h) \/ HandlerStep(h)

SealingSpec == WindowOpen /\ [][SealingNext]_vars /\ Fairness

=============================================================================
