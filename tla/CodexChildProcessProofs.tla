---------------------- MODULE CodexChildProcessProofs ----------------------
(***************************************************************************)
(* What is proved of one Codex attempt, for every length of the prompt and *)
(* the output, every timeout and every shared deadline: the inductive      *)
(* invariant of CodexChildProcess step by step, the safety properties that *)
(* follow from it, and that the attempt implements CodexAttempt, with one  *)
(* lemma per step that names the abstract action it takes.                 *)
(***************************************************************************)
EXTENDS CodexChildProcess, TLAPS

(********************* each step keeps the invariant **********************)

LEMMA PrepareStep == ASSUME IInv, Prepare PROVE IInv'
<1>1. TypeOK'
  <2>1. /\ assigned' \in BOOLEAN /\ killed' \in BOOLEAN /\ duplicates' \in BOOLEAN
        /\ structural' \in BOOLEAN /\ unsafe' \in BOOLEAN
        /\ stopped' \in BOOLEAN /\ stopFailed' \in BOOLEAN
    BY DEF IInv, Prepare, TypeOK, treeVars, threadVars, stopVars
  <2> QED BY <2>1 DEF IInv, Prepare, TypeOK, treeVars, threadVars, stopVars, timeVars, endVars
<1>2. EarlyInv'
  BY DEF IInv, Prepare, EarlyInv, RootInv, treeVars, threadVars, stopVars, timeVars, endVars
<1>3. RootInv'
  BY DEF IInv, Prepare, RootInv, EarlyInv, treeVars, threadVars, stopVars, timeVars, endVars
<1>4. TellInv'
  BY DEF IInv, Prepare, TellInv, treeVars, threadVars, stopVars
<1>5. SeenInv'
  BY DEF IInv, Prepare, SeenInv, EarlyInv, RootInv, treeVars, threadVars, stopVars, timeVars,
     endVars, Reached, Alive, JobEmpty, PipesOpen, TreeAlive
<1>6. CauseInv'
  BY DEF IInv, Prepare, CauseInv, treeVars, threadVars, stopVars, timeVars, endVars, Reached,
     Alive, JobEmpty, PipesOpen, TreeAlive
<1>7. OutputInv'
  BY DEF IInv, Prepare, OutputInv, treeVars, threadVars, stopVars, Told
<1>8. OrdinaryExitIsComplete'
  BY <1>6 DEF IInv, CauseInv, OrdinaryExitIsComplete, Attempt!Ordinary, Prepare
<1> QED BY <1>1, <1>2, <1>3, <1>4, <1>5, <1>6, <1>7, <1>8 DEF IInv

LEMMA GateStep == ASSUME IInv, Gate PROVE IInv'
<1>1. TypeOK'
  <2>1. /\ assigned' \in BOOLEAN /\ killed' \in BOOLEAN /\ duplicates' \in BOOLEAN
        /\ structural' \in BOOLEAN /\ unsafe' \in BOOLEAN
        /\ stopped' \in BOOLEAN /\ stopFailed' \in BOOLEAN
    BY DEF IInv, Gate, TypeOK, treeVars, stopVars
  <2> QED BY <2>1 DEF IInv, Gate, TypeOK, treeVars, stopVars, timeVars, endVars
<1>2. EarlyInv'
  BY DEF IInv, Gate, EarlyInv, RootInv, treeVars, stopVars, timeVars, endVars
<1>3. RootInv'
  BY DEF IInv, Gate, RootInv, EarlyInv, treeVars, stopVars, timeVars, endVars
<1>4. TellInv'
  BY DEF IInv, Gate, TellInv, treeVars, stopVars
<1>5. SeenInv'
  BY DEF IInv, Gate, SeenInv, EarlyInv, RootInv, Reached, timeVars, endVars, Alive, JobEmpty,
     PipesOpen, TreeAlive
<1>6. CauseInv'
  BY DEF IInv, Gate, CauseInv, Reached, treeVars, stopVars, timeVars, endVars, Alive, JobEmpty,
     PipesOpen, TreeAlive
<1>7. OutputInv'
  BY DEF IInv, Gate, OutputInv, Told
<1>8. OrdinaryExitIsComplete'
  BY <1>6 DEF IInv, CauseInv, OrdinaryExitIsComplete, Attempt!Ordinary, Gate
<1> QED BY <1>1, <1>2, <1>3, <1>4, <1>5, <1>6, <1>7, <1>8 DEF IInv

LEMMA CleanupStep == ASSUME IInv, Cleanup PROVE IInv'
<1>1. TypeOK'
  BY DEF IInv, Cleanup, TypeOK, treeVars, pipeVars, threadVars, stopVars, timeVars, endVars
<1>2. EarlyInv'
  BY DEF IInv, Cleanup, EarlyInv, RootInv, treeVars, pipeVars, threadVars, stopVars, timeVars,
     endVars
<1>3. RootInv'
  BY DEF IInv, Cleanup, RootInv, EarlyInv, treeVars, pipeVars, threadVars, stopVars, timeVars,
     endVars
<1>4. TellInv'
  BY DEF IInv, Cleanup, TellInv, treeVars, pipeVars, threadVars, stopVars
<1>5. SeenInv'
  BY DEF IInv, Cleanup, SeenInv, EarlyInv, RootInv, treeVars, pipeVars, threadVars, stopVars,
     timeVars, endVars, Reached, Alive, JobEmpty, PipesOpen, TreeAlive
<1>6. CauseInv'
  BY DEF IInv, Cleanup, CauseInv, treeVars, pipeVars, threadVars, stopVars, timeVars, endVars,
     Reached, Alive, JobEmpty, PipesOpen, TreeAlive
<1>7. OutputInv'
  BY DEF IInv, Cleanup, OutputInv, treeVars, pipeVars, threadVars, stopVars, Told
<1>8. OrdinaryExitIsComplete'
  BY <1>6 DEF IInv, CauseInv, OrdinaryExitIsComplete, Attempt!Ordinary, Cleanup
<1> QED BY <1>1, <1>2, <1>3, <1>4, <1>5, <1>6, <1>7, <1>8 DEF IInv

LEMMA CreateStep == ASSUME IInv, Create PROVE IInv'
<1>1. TypeOK'
  <2>1. /\ assigned' \in BOOLEAN /\ killed' \in BOOLEAN /\ duplicates' \in BOOLEAN
        /\ structural' \in BOOLEAN /\ unsafe' \in BOOLEAN
        /\ stopped' \in BOOLEAN /\ stopFailed' \in BOOLEAN
    BY DEF IInv, Create, TypeOK, pipeVars
  <2> QED BY <2>1 DEF IInv, Create, TypeOK, pipeVars, timeVars, endVars
<1>2. EarlyInv'
  BY DEF IInv, Create, EarlyInv, RootInv
<1>3. RootInv'
  BY DEF IInv, Create, RootInv, EarlyInv, timeVars, endVars
<1>4. TellInv'
  BY DEF IInv, Create, TellInv
<1>5. SeenInv'
  BY DEF IInv, Create, SeenInv, EarlyInv, RootInv, timeVars, endVars, Reached, Alive, JobEmpty,
     PipesOpen, TreeAlive
<1>6. CauseInv'
  BY DEF IInv, Create, CauseInv, timeVars, endVars, Reached, Alive, JobEmpty, PipesOpen, TreeAlive
<1>7. OutputInv'
  BY DEF IInv, Create, OutputInv, EarlyInv, RootInv, pipeVars, Told
<1>8. OrdinaryExitIsComplete'
  BY <1>6 DEF IInv, CauseInv, OrdinaryExitIsComplete, Attempt!Ordinary, Create
<1> QED BY <1>1, <1>2, <1>3, <1>4, <1>5, <1>6, <1>7, <1>8 DEF IInv

LEMMA AssignStep == ASSUME IInv, Assign PROVE IInv'
<1>1. TypeOK'
  BY DEF IInv, Assign, TypeOK, pipeVars, threadVars, timeVars, endVars
<1>2. EarlyInv'
  BY DEF IInv, Assign, EarlyInv, RootInv, pipeVars, threadVars
<1>3. RootInv'
  BY DEF IInv, Assign, RootInv, EarlyInv, pipeVars, threadVars, timeVars, endVars
<1>4. TellInv'
  BY DEF IInv, Assign, TellInv, pipeVars, threadVars
<1>5. SeenInv'
  BY DEF IInv, Assign, SeenInv, EarlyInv, RootInv, pipeVars, threadVars, timeVars, endVars,
     Reached, Alive, JobEmpty, PipesOpen, TreeAlive
<1>6. CauseInv'
  BY DEF IInv, Assign, CauseInv, timeVars, endVars, Reached, Alive, JobEmpty, PipesOpen, TreeAlive
<1>7. OutputInv'
  BY DEF IInv, Assign, OutputInv, pipeVars, threadVars, Told
<1>8. OrdinaryExitIsComplete'
  BY <1>6 DEF IInv, CauseInv, OrdinaryExitIsComplete, Attempt!Ordinary, Assign
<1> QED BY <1>1, <1>2, <1>3, <1>4, <1>5, <1>6, <1>7, <1>8 DEF IInv

LEMMA CloseDuplicatesStep == ASSUME IInv, CloseDuplicates PROVE IInv'
<1>1. TypeOK'
  <2>1. /\ assigned' \in BOOLEAN /\ killed' \in BOOLEAN /\ duplicates' \in BOOLEAN
        /\ structural' \in BOOLEAN /\ unsafe' \in BOOLEAN
        /\ stopped' \in BOOLEAN /\ stopFailed' \in BOOLEAN
    BY DEF IInv, CloseDuplicates, TypeOK, treeVars
  <2> QED BY <2>1 DEF IInv, CloseDuplicates, TypeOK, treeVars, timeVars, endVars
<1>2. EarlyInv'
  BY DEF IInv, CloseDuplicates, EarlyInv, RootInv
<1>3. RootInv'
  BY DEF IInv, CloseDuplicates, RootInv, EarlyInv, treeVars, timeVars, endVars
<1>4. TellInv'
  BY DEF IInv, CloseDuplicates, TellInv, EarlyInv, RootInv, treeVars
<1>5. SeenInv'
  BY DEF IInv, CloseDuplicates, SeenInv, EarlyInv, RootInv, treeVars, timeVars, endVars, Reached,
     Alive, JobEmpty, PipesOpen, TreeAlive
<1>6. CauseInv'
  BY DEF IInv, CloseDuplicates, CauseInv, timeVars, endVars
<1>7. OutputInv'
  BY DEF IInv, CloseDuplicates, OutputInv, Told
<1>8. OrdinaryExitIsComplete'
  BY <1>6 DEF IInv, CauseInv, OrdinaryExitIsComplete, Attempt!Ordinary, CloseDuplicates
<1> QED BY <1>1, <1>2, <1>3, <1>4, <1>5, <1>6, <1>7, <1>8 DEF IInv

LEMMA KillRootStep == ASSUME IInv, KillRoot PROVE IInv'
<1>1. TypeOK'
  <2>1. /\ assigned' \in BOOLEAN /\ killed' \in BOOLEAN /\ duplicates' \in BOOLEAN
        /\ structural' \in BOOLEAN /\ unsafe' \in BOOLEAN
        /\ stopped' \in BOOLEAN /\ stopFailed' \in BOOLEAN
    BY DEF IInv, KillRoot, TypeOK, pipeVars, threadVars
  <2> QED BY <2>1 DEF IInv, KillRoot, TypeOK, pipeVars, threadVars, timeVars, endVars
<1>2. EarlyInv'
  BY DEF IInv, KillRoot, EarlyInv, RootInv, pipeVars, threadVars
<1>3. RootInv'
  BY DEF IInv, KillRoot, RootInv, EarlyInv, pipeVars, threadVars, timeVars, endVars
<1>4. TellInv'
  BY DEF IInv, KillRoot, TellInv, pipeVars, threadVars
<1>5. SeenInv'
  BY DEF IInv, KillRoot, SeenInv, EarlyInv, RootInv, pipeVars, threadVars, timeVars, endVars,
     Reached, Alive, JobEmpty, PipesOpen, TreeAlive
<1>6. CauseInv'
  BY DEF IInv, KillRoot, CauseInv, timeVars, endVars, Reached, Alive, JobEmpty, PipesOpen,
     TreeAlive
<1>7. OutputInv'
  BY DEF IInv, KillRoot, OutputInv, pipeVars, threadVars, Told
<1>8. OrdinaryExitIsComplete'
  BY <1>6 DEF IInv, CauseInv, OrdinaryExitIsComplete, Attempt!Ordinary, KillRoot
<1> QED BY <1>1, <1>2, <1>3, <1>4, <1>5, <1>6, <1>7, <1>8 DEF IInv

LEMMA ResumeGateStep == ASSUME IInv, ResumeGate PROVE IInv'
<1>1. TypeOK'
  <2>1. /\ assigned' \in BOOLEAN /\ killed' \in BOOLEAN /\ duplicates' \in BOOLEAN
        /\ structural' \in BOOLEAN /\ unsafe' \in BOOLEAN
        /\ stopped' \in BOOLEAN /\ stopFailed' \in BOOLEAN
    BY DEF IInv, ResumeGate, TypeOK, Refuse, treeVars, pipeVars
  <2>2. signals' \subseteq {"go", "abort"}
    BY DEF IInv, ResumeGate, TypeOK, Refuse
  <2> QED BY <2>1, <2>2 DEF IInv, ResumeGate, TypeOK, Refuse, treeVars, pipeVars, timeVars,
             endVars
<1>2. EarlyInv'
  BY DEF IInv, ResumeGate, EarlyInv, RootInv, Refuse, treeVars, pipeVars
<1>3. RootInv'
  BY DEF IInv, ResumeGate, RootInv, EarlyInv, Refuse, treeVars, pipeVars, timeVars, endVars
<1>4. TellInv'
  BY DEF IInv, ResumeGate, TellInv, Refuse, treeVars, pipeVars
<1>5. SeenInv'
  BY DEF IInv, ResumeGate, SeenInv, EarlyInv, RootInv, Reached, Refuse, timeVars, endVars, Alive,
     JobEmpty, PipesOpen, TreeAlive
<1>6. CauseInv'
  BY DEF IInv, ResumeGate, CauseInv, Reached, Refuse, timeVars, endVars, Alive, JobEmpty,
     PipesOpen, TreeAlive
<1>7. OutputInv'
  BY DEF IInv, ResumeGate, OutputInv, Refuse, treeVars, pipeVars, Told
<1>8. OrdinaryExitIsComplete'
  BY <1>6 DEF IInv, CauseInv, OrdinaryExitIsComplete, Attempt!Ordinary, ResumeGate, Refuse
<1> QED BY <1>1, <1>2, <1>3, <1>4, <1>5, <1>6, <1>7, <1>8 DEF IInv

LEMMA ResumeStep == ASSUME IInv, Resume PROVE IInv'
<1>1. TypeOK'
  <2>1. /\ assigned' \in BOOLEAN /\ killed' \in BOOLEAN /\ duplicates' \in BOOLEAN
        /\ structural' \in BOOLEAN /\ unsafe' \in BOOLEAN
        /\ stopped' \in BOOLEAN /\ stopFailed' \in BOOLEAN
    BY DEF IInv, Resume, TypeOK, Refuse, pipeVars
  <2>2. signals' \subseteq {"go", "abort"}
    BY DEF IInv, Resume, TypeOK, Refuse
  <2> QED BY <2>1, <2>2 DEF IInv, Resume, TypeOK, Refuse, pipeVars, timeVars, endVars
<1>2. EarlyInv'
  BY DEF IInv, Resume, EarlyInv, RootInv, Refuse, pipeVars
<1>3. RootInv'
  BY DEF IInv, Resume, RootInv, EarlyInv, Refuse, timeVars, endVars
<1>4. TellInv'
  BY DEF IInv, Resume, TellInv, Refuse
<1>5. SeenInv'
  BY DEF IInv, Resume, SeenInv, EarlyInv, RootInv, Refuse, timeVars, endVars, Reached, Alive,
     JobEmpty, PipesOpen, TreeAlive
<1>6. CauseInv'
  BY DEF IInv, Resume, CauseInv, Refuse, timeVars, endVars, Reached, Alive, JobEmpty, PipesOpen,
     TreeAlive
<1>7. OutputInv'
  BY DEF IInv, Resume, OutputInv, Refuse, pipeVars, Told
<1>8. OrdinaryExitIsComplete'
  BY <1>6 DEF IInv, CauseInv, OrdinaryExitIsComplete, Attempt!Ordinary, Resume, Refuse
<1> QED BY <1>1, <1>2, <1>3, <1>4, <1>5, <1>6, <1>7, <1>8 DEF IInv

LEMMA StartStep == ASSUME IInv, Start PROVE IInv'
<1>1. TypeOK'
  <2>1. structural' \in BOOLEAN /\ stopped' \in BOOLEAN
    BY DEF Start, Refuse, IInv, TypeOK
  <2>2. signals' \subseteq {"go", "abort"}
    BY DEF Start, Refuse, IInv, TypeOK
  <2>3. started' \in Nat \union {None} /\ deadline' \in Nat \union {None}
    <3>1. now \in Nat /\ now + Timeout \in Nat
      BY BoundsAssumption DEF IInv, TypeOK
    <3> QED BY <3>1 DEF Start, Date, Earlier, IInv, TypeOK
  <2>4. pc' \in {"observe", "stop"}
    BY DEF Start, Refuse
  <2> QED BY <2>1, <2>2, <2>3, <2>4 DEF Start, IInv, TypeOK, treeVars, pipeVars, timeVars
<1>2. EarlyInv'
  BY DEF IInv, Start, EarlyInv, RootInv, Date, Refuse, treeVars, pipeVars, Earlier
<1>3. RootInv'
  BY BoundsAssumption DEF IInv, Start, RootInv, TypeOK, EarlyInv, Date, Refuse, treeVars,
     pipeVars, Earlier
<1>4. TellInv'
  BY DEF IInv, Start, TellInv, Date, Refuse, treeVars, pipeVars, Earlier
<1>5. SeenInv'
  BY BoundsAssumption DEF IInv, Start, SeenInv, TypeOK, EarlyInv, RootInv, Date, Refuse, treeVars,
     pipeVars, timeVars, Reached, Alive, JobEmpty, PipesOpen, TreeAlive, Earlier
<1>6. CauseInv'
  BY BoundsAssumption DEF IInv, Start, CauseInv, TypeOK, Date, Refuse, timeVars, Reached, Alive,
     JobEmpty, PipesOpen, TreeAlive, Earlier
<1>7. OutputInv'
  BY DEF IInv, Start, OutputInv, Date, Refuse, treeVars, pipeVars, Told, Earlier
<1>8. OrdinaryExitIsComplete'
  BY <1>6 DEF IInv, CauseInv, OrdinaryExitIsComplete, Attempt!Ordinary, Start, Date, Refuse,
     Earlier
<1> QED BY <1>1, <1>2, <1>3, <1>4, <1>5, <1>6, <1>7, <1>8 DEF IInv

LEMMA ObserveStep == ASSUME IInv, Observe PROVE IInv'
<1>1. TypeOK'
  <2>1. /\ assigned' \in BOOLEAN /\ killed' \in BOOLEAN /\ duplicates' \in BOOLEAN
        /\ structural' \in BOOLEAN /\ unsafe' \in BOOLEAN
        /\ stopped' \in BOOLEAN /\ stopFailed' \in BOOLEAN
    BY DEF IInv, Observe, TypeOK, treeVars, pipeVars, threadVars
  <2>2. seen' \in [due : BOOLEAN, workersDone : BOOLEAN, jobEmpty : BOOLEAN, root : BOOLEAN,
                 witness : BOOLEAN]
    BY DEF IInv, Observe, TypeOK
  <2> QED BY <2>1, <2>2 DEF IInv, Observe, TypeOK, treeVars, pipeVars, threadVars, timeVars,
             endVars
<1>2. EarlyInv'
  BY DEF IInv, Observe, EarlyInv, RootInv, treeVars, pipeVars, threadVars
<1>3. RootInv'
  BY DEF IInv, Observe, RootInv, EarlyInv, treeVars, pipeVars, threadVars, timeVars, endVars
<1>4. TellInv'
  BY DEF IInv, Observe, TellInv, treeVars, pipeVars, threadVars
<1>5. SeenInv'
  BY DEF IInv, Observe, SeenInv, TypeOK, EarlyInv, RootInv, Reached, treeVars, pipeVars,
     threadVars, timeVars, endVars, Alive, JobEmpty, PipesOpen, TreeAlive
<1>6. CauseInv'
  BY DEF IInv, Observe, CauseInv, TypeOK, Reached, timeVars, endVars, Alive, JobEmpty, PipesOpen,
     TreeAlive
<1>7. OutputInv'
  BY DEF IInv, Observe, OutputInv, treeVars, pipeVars, threadVars, Told
<1>8. OrdinaryExitIsComplete'
  BY <1>6 DEF IInv, CauseInv, OrdinaryExitIsComplete, Attempt!Ordinary, Observe
<1> QED BY <1>1, <1>2, <1>3, <1>4, <1>5, <1>6, <1>7, <1>8 DEF IInv

LEMMA QueryJobStep == ASSUME IInv, QueryJob PROVE IInv'
<1>1. TypeOK'
  <2>1. /\ assigned' \in BOOLEAN /\ killed' \in BOOLEAN /\ duplicates' \in BOOLEAN
        /\ structural' \in BOOLEAN /\ unsafe' \in BOOLEAN
        /\ stopped' \in BOOLEAN /\ stopFailed' \in BOOLEAN
    BY DEF IInv, QueryJob, TypeOK, treeVars, pipeVars, threadVars
  <2>2. seen' \in [due : BOOLEAN, workersDone : BOOLEAN, jobEmpty : BOOLEAN, root : BOOLEAN,
                 witness : BOOLEAN]
    BY DEF IInv, QueryJob, TypeOK, JobEmpty, TreeAlive, Alive
  <2> QED BY <2>1, <2>2 DEF IInv, QueryJob, TypeOK, treeVars, pipeVars, threadVars, timeVars,
             endVars
<1>2. EarlyInv'
  BY DEF IInv, QueryJob, EarlyInv, RootInv, treeVars, pipeVars, threadVars
<1>3. RootInv'
  BY DEF IInv, QueryJob, RootInv, EarlyInv, treeVars, pipeVars, threadVars, timeVars, endVars
<1>4. TellInv'
  BY DEF IInv, QueryJob, TellInv, treeVars, pipeVars, threadVars
<1>5. SeenInv'
  BY DEF IInv, QueryJob, SeenInv, TypeOK, EarlyInv, RootInv, JobEmpty, treeVars, pipeVars,
     threadVars, timeVars, endVars, Reached, Alive, PipesOpen, TreeAlive
<1>6. CauseInv'
  BY DEF IInv, QueryJob, CauseInv, TypeOK, JobEmpty, timeVars, endVars, Reached, Alive, PipesOpen,
     TreeAlive
<1>7. OutputInv'
  BY DEF IInv, QueryJob, OutputInv, treeVars, pipeVars, threadVars, Told
<1>8. OrdinaryExitIsComplete'
  BY <1>6 DEF IInv, CauseInv, OrdinaryExitIsComplete, Attempt!Ordinary, QueryJob
<1> QED BY <1>1, <1>2, <1>3, <1>4, <1>5, <1>6, <1>7, <1>8 DEF IInv

LEMMA DecideStep == ASSUME IInv, Decide PROVE IInv'
<1>1. TypeOK'
  <2>1. /\ assigned' \in BOOLEAN /\ killed' \in BOOLEAN /\ duplicates' \in BOOLEAN
        /\ structural' \in BOOLEAN /\ unsafe' \in BOOLEAN
        /\ stopped' \in BOOLEAN /\ stopFailed' \in BOOLEAN
    BY DEF IInv, Decide, TypeOK, Remember, DueNow, AllDone, treeVars, pipeVars, HasRun,
       NothingSeen, RootNow
  <2>2. seen' \in [due : BOOLEAN, workersDone : BOOLEAN, jobEmpty : BOOLEAN, root : BOOLEAN,
                 witness : BOOLEAN]
    BY DEF IInv, Decide, Remember, DueNow, AllDone, HasRun, NothingSeen, RootNow
  <2> QED BY <2>1, <2>2 DEF IInv, Decide, TypeOK, Remember, DueNow, AllDone, treeVars, pipeVars,
             timeVars, endVars, HasRun, NothingSeen, RootNow
<1>2. EarlyInv'
  BY DEF IInv, Decide, EarlyInv, RootInv, Remember, DueNow, AllDone, treeVars, pipeVars, HasRun,
     NothingSeen, RootNow
<1>3. RootInv'
  BY DEF IInv, Decide, RootInv, EarlyInv, Remember, DueNow, AllDone, treeVars, pipeVars, timeVars,
     endVars, HasRun, NothingSeen, RootNow
<1>4. TellInv'
  BY DEF IInv, Decide, TellInv, Remember, DueNow, AllDone, treeVars, pipeVars, HasRun,
     NothingSeen, RootNow
<1>5. SeenInv'
  BY DEF IInv, Decide, SeenInv, EarlyInv, RootInv, Remember, DueNow, AllDone, treeVars, pipeVars,
     Reached, Alive, JobEmpty, PipesOpen, TreeAlive, HasRun, NothingSeen, RootNow
<1>6. CauseInv'
  BY DEF IInv, Decide, CauseInv, EarlyInv, RootInv, SeenInv, Remember, DueNow, AllDone, timeVars,
     endVars, Reached, Alive, JobEmpty, PipesOpen, TreeAlive, HasRun, NothingSeen, RootNow
<1>7. OutputInv'
  BY DEF IInv, Decide, OutputInv, Remember, DueNow, AllDone, treeVars, pipeVars, Told, HasRun,
     NothingSeen, RootNow
<1>8. OrdinaryExitIsComplete'
  BY <1>6 DEF IInv, CauseInv, OrdinaryExitIsComplete, Attempt!Ordinary, Decide, Remember, DueNow,
     AllDone, HasRun, NothingSeen, RootNow
<1> QED BY <1>1, <1>2, <1>3, <1>4, <1>5, <1>6, <1>7, <1>8 DEF IInv

LEMMA StopStep == ASSUME IInv, Stop PROVE IInv'
<1>1. TypeOK'
  <2>1. /\ assigned' \in BOOLEAN /\ killed' \in BOOLEAN /\ duplicates' \in BOOLEAN
        /\ structural' \in BOOLEAN /\ unsafe' \in BOOLEAN
        /\ stopped' \in BOOLEAN /\ stopFailed' \in BOOLEAN
    BY DEF IInv, Stop, TypeOK, pipeVars, threadVars
  <2> QED BY <2>1 DEF IInv, Stop, TypeOK, pipeVars, threadVars, timeVars, endVars
<1>2. EarlyInv'
  BY DEF IInv, Stop, EarlyInv, RootInv, pipeVars, threadVars
<1>3. RootInv'
  BY DEF IInv, Stop, RootInv, EarlyInv, pipeVars, threadVars, timeVars, endVars
<1>4. TellInv'
  BY DEF IInv, Stop, TellInv, pipeVars, threadVars
<1>5. SeenInv'
  BY DEF IInv, Stop, SeenInv, EarlyInv, RootInv, pipeVars, threadVars, timeVars, endVars, Reached,
     Alive, JobEmpty, PipesOpen, TreeAlive
<1>6. CauseInv'
  BY DEF IInv, Stop, CauseInv, timeVars, endVars, Reached, Alive, JobEmpty, PipesOpen, TreeAlive
<1>7. OutputInv'
  BY DEF IInv, Stop, OutputInv, pipeVars, threadVars, Told
<1>8. OrdinaryExitIsComplete'
  BY <1>6 DEF IInv, CauseInv, OrdinaryExitIsComplete, Attempt!Ordinary, Stop
<1> QED BY <1>1, <1>2, <1>3, <1>4, <1>5, <1>6, <1>7, <1>8 DEF IInv

LEMMA FinishStep == ASSUME IInv, Finish PROVE IInv'
<1>1. TypeOK'
  <2>1. structural' \in BOOLEAN /\ final' \in {"open", "within", "over"}
    BY DEF Finish, TakeFinal, IInv, TypeOK
  <2>2. ready' \in [at : Nat, cancelled : BOOLEAN] \union {None}
    <3> DEFINE visible == cancel # None
    <3>1. visible \in BOOLEAN
      OBVIOUS
    <3>2. ready' = ready \/ ready' = [at |-> now, cancelled |-> visible]
      BY DEF Finish
    <3> HIDE DEF visible
    <3> QED BY <3>1, <3>2 DEF IInv, TypeOK
  <2>3. pc' \in {"classify", "done"} /\ outcome' \in {outcome, "unsafe"}
    BY DEF Finish
  <2> QED BY <2>1, <2>2, <2>3 DEF Finish, IInv, TypeOK, treeVars, pipeVars, threadVars, timeVars
<1>2. EarlyInv'
  BY DEF IInv, Finish, EarlyInv, RootInv, TakeFinal, EventsAreExact, treeVars, pipeVars,
     threadVars
<1>3. RootInv'
  BY DEF IInv, Finish, RootInv, EarlyInv, TakeFinal, EventsAreExact, treeVars, pipeVars,
     threadVars
<1>4. TellInv'
  BY DEF IInv, Finish, TellInv, TakeFinal, EventsAreExact, treeVars, pipeVars, threadVars
<1>5. SeenInv'
  BY DEF IInv, Finish, SeenInv, EarlyInv, RootInv, TakeFinal, EventsAreExact, treeVars, pipeVars,
     threadVars, timeVars, Reached, Alive, JobEmpty, PipesOpen, TreeAlive
<1>6. CauseInv'
  <2>1. CASE outcome' = "unsafe" /\ pc' = "done" /\ UNCHANGED <<ready, structural, final>>
    BY <2>1 DEF Finish, IInv, CauseInv, timeVars
  <2>2. CASE /\ TakeFinal /\ ready' = [at |-> now, cancelled |-> cancel # None]
             /\ structural' \in {structural, TRUE} /\ pc' = "classify" /\ UNCHANGED outcome
    <3>1. ready' # None /\ ready'.at = now /\ (ready'.cancelled <=> cancel # None)
      <4> DEFINE visible == cancel # None
      <4>1. visible \in BOOLEAN
        OBVIOUS
      <4>2. ready' = [at |-> now, cancelled |-> visible]
        BY <2>2
      <4> HIDE DEF visible
      <4>3. ready' # None /\ ready'.at = now /\ (ready'.cancelled <=> visible)
        BY <4>1, <4>2, BoundsAssumption DEF IInv, TypeOK
      <4> QED BY <4>3 DEF visible
    <3>2. cancel' = cancel /\ now' = now /\ deadline' = deadline /\ stopped' = stopped
      BY DEF Finish, timeVars
    <3>3. stopped => structural' \/ final' = "over" \/ cancel # None \/ Reached(deadline)
      <4>1. structural => structural'
        BY <2>2
      <4>2. seen.witness => final' = "over"
        BY <2>2 DEF TakeFinal
      <4>3. pc = "finish"
        BY DEF Finish
      <4> QED BY <4>1, <4>2, <4>3 DEF IInv, CauseInv
    <3> QED BY <2>2, <3>1, <3>2, <3>3 DEF Finish, Reached, IInv, CauseInv
  <2> QED BY <2>1, <2>2 DEF Finish
<1>7. OutputInv'
  BY DEF IInv, Finish, OutputInv, TakeFinal, EventsAreExact, treeVars, pipeVars, threadVars, Told
<1>8. OrdinaryExitIsComplete'
  BY <1>6 DEF IInv, CauseInv, OrdinaryExitIsComplete, Attempt!Ordinary, Finish, TakeFinal,
     EventsAreExact
<1> QED BY <1>1, <1>2, <1>3, <1>4, <1>5, <1>6, <1>7, <1>8 DEF IInv

LEMMA ClassifyStep == ASSUME IInv, Classify PROVE IInv'
<1>1. TypeOK'
  <2>1. outcome' \in Attempt!Outcomes \union {"unsafe"}
    BY DEF Classify, OutcomeAt, Attempt!MechanicalOutcome, Attempt!Outcomes, Attempt!Ordinary
  <2> QED BY <2>1 DEF Classify, IInv, TypeOK, treeVars, pipeVars, threadVars, stopVars, timeVars
<1>2. EarlyInv'
  BY DEF IInv, Classify, EarlyInv, RootInv, OutcomeAt, treeVars, pipeVars, threadVars, stopVars
<1>3. RootInv'
  BY DEF IInv, Classify, RootInv, EarlyInv, OutcomeAt, treeVars, pipeVars, threadVars, stopVars
<1>4. TellInv'
  BY DEF IInv, Classify, TellInv, OutcomeAt, treeVars, pipeVars, threadVars, stopVars
<1>5. SeenInv'
  BY DEF IInv, Classify, SeenInv, EarlyInv, RootInv, OutcomeAt, treeVars, pipeVars, threadVars,
     stopVars, timeVars, Reached, Alive, JobEmpty, PipesOpen, TreeAlive
<1>6. CauseInv'
  BY DEF IInv, Classify, CauseInv, OutcomeAt, timeVars
<1>7. OutputInv'
  BY DEF IInv, Classify, OutputInv, OutcomeAt, treeVars, pipeVars, threadVars, stopVars, Told
<1>8. OrdinaryExitIsComplete'
  <2> SUFFICES ASSUME outcome' \in Attempt!Ordinary
               PROVE  ~stopped /\ sent = Prompt /\ kept = written /\ final # "over"
    BY DEF Classify, pipeVars, stopVars, OrdinaryExitIsComplete
  <2>1. PICK code : outcome' = OutcomeAt(cancel, code)
    BY DEF Classify, Attempt!Ordinary
  <2>2. /\ ~(structural \/ facts # {} \/ final = "over")
        /\ ~(Attempt!Reached(cancel, ready.at) /\ (deadline = None \/ cancel <= deadline))
        /\ ~Attempt!Reached(deadline, ready.at)
    BY <2>1 DEF OutcomeAt, Attempt!MechanicalOutcome, Attempt!Ordinary
  <2>3. ~stopped
    <3>1. ready # None /\ ready.at \in Nat
      BY DEF Classify, IInv, CauseInv, TypeOK
    <3>2. ready.cancelled => Attempt!Reached(deadline, ready.at)
      BY <2>2, <3>1 DEF Attempt!Reached, Classify, IInv, CauseInv, TypeOK
    <3> QED BY <2>2, <3>2 DEF Attempt!Reached, Classify, IInv, CauseInv
  <2>4. ~Told
    BY <2>2, <2>3 DEF Told, Classify, IInv, TellInv, EarlyInv
  <2> QED BY <2>2, <2>3, <2>4 DEF Classify, IInv, SeenInv, OutputInv
<1> QED BY <1>1, <1>2, <1>3, <1>4, <1>5, <1>6, <1>7, <1>8 DEF IInv

LEMMA WriteChunkStep == ASSUME IInv, WriteChunk PROVE IInv'
<1>1. TypeOK'
  BY BoundsAssumption DEF IInv, WriteChunk, TypeOK, MayWrite, treeVars, threadVars, stopVars,
     timeVars, endVars, Told
<1>2. EarlyInv'
  BY DEF IInv, WriteChunk, EarlyInv, RootInv, MayWrite, treeVars, threadVars, stopVars, Told
<1>3. RootInv'
  BY DEF IInv, WriteChunk, RootInv, EarlyInv, MayWrite, treeVars, threadVars, stopVars, timeVars,
     endVars, Told
<1>4. TellInv'
  BY DEF IInv, WriteChunk, TellInv, MayWrite, treeVars, threadVars, stopVars, Told
<1>5. SeenInv'
  BY DEF IInv, WriteChunk, SeenInv, EarlyInv, RootInv, MayWrite, PipesOpen, treeVars, threadVars,
     stopVars, timeVars, endVars, Reached, Alive, JobEmpty, TreeAlive, Told
<1>6. CauseInv'
  BY DEF IInv, WriteChunk, CauseInv, MayWrite, PipesOpen, treeVars, threadVars, stopVars,
     timeVars, endVars, Reached, Alive, JobEmpty, TreeAlive, Told
<1>7. OutputInv'
  BY DEF IInv, WriteChunk, OutputInv, MayWrite, treeVars, threadVars, stopVars, Told
<1>8. OrdinaryExitIsComplete'
  BY <1>6 DEF IInv, CauseInv, SeenInv, OrdinaryExitIsComplete, Attempt!Ordinary, WriteChunk,
     MayWrite, Told
<1> QED BY <1>1, <1>2, <1>3, <1>4, <1>5, <1>6, <1>7, <1>8 DEF IInv

LEMMA WriteFailsStep == ASSUME IInv, WriteFails PROVE IInv'
<1>1. TypeOK'
  BY DEF IInv, WriteFails, TypeOK, MayWrite, treeVars, pipeVars, stopVars, timeVars, endVars, Told
<1>2. EarlyInv'
  BY DEF IInv, WriteFails, EarlyInv, RootInv, MayWrite, treeVars, pipeVars, stopVars, Told
<1>3. RootInv'
  BY DEF IInv, WriteFails, RootInv, EarlyInv, MayWrite, treeVars, pipeVars, stopVars, timeVars,
     endVars, Told
<1>4. TellInv'
  BY DEF IInv, WriteFails, TellInv, MayWrite, treeVars, pipeVars, stopVars, Told
<1>5. SeenInv'
  BY DEF IInv, WriteFails, SeenInv, EarlyInv, RootInv, MayWrite, PipesOpen, treeVars, pipeVars,
     stopVars, timeVars, endVars, Reached, Alive, JobEmpty, TreeAlive, Told
<1>6. CauseInv'
  BY DEF IInv, WriteFails, CauseInv, MayWrite, PipesOpen, treeVars, pipeVars, stopVars, timeVars,
     endVars, Reached, Alive, JobEmpty, TreeAlive, Told
<1>7. OutputInv'
  BY DEF IInv, WriteFails, OutputInv, MayWrite, treeVars, pipeVars, stopVars, Told
<1>8. OrdinaryExitIsComplete'
  BY <1>6 DEF IInv, CauseInv, OrdinaryExitIsComplete, Attempt!Ordinary, WriteFails, MayWrite,
     treeVars, pipeVars, stopVars, timeVars, endVars, Told
<1> QED BY <1>1, <1>2, <1>3, <1>4, <1>5, <1>6, <1>7, <1>8 DEF IInv

LEMMA WriterEndsStep == ASSUME IInv, WriterEnds PROVE IInv'
<1>1. TypeOK'
  BY DEF IInv, WriterEnds, TypeOK, Told, treeVars, pipeVars, stopVars, timeVars, endVars
<1>2. EarlyInv'
  BY BoundsAssumption DEF IInv, WriterEnds, EarlyInv, RootInv, Told, treeVars, pipeVars, stopVars,
     timeVars, endVars
<1>3. RootInv'
  BY DEF IInv, WriterEnds, RootInv, EarlyInv, Told, treeVars, pipeVars, stopVars, timeVars,
     endVars
<1>4. TellInv'
  BY DEF IInv, WriterEnds, TellInv, Told, treeVars, pipeVars, stopVars
<1>5. SeenInv'
  BY DEF IInv, WriterEnds, SeenInv, EarlyInv, RootInv, Told, PipesOpen, treeVars, pipeVars,
     stopVars, timeVars, endVars, Reached, Alive, JobEmpty, TreeAlive
<1>6. CauseInv'
  BY DEF IInv, WriterEnds, CauseInv, Told, PipesOpen, treeVars, pipeVars, stopVars, timeVars,
     endVars, Reached, Alive, JobEmpty, TreeAlive
<1>7. OutputInv'
  BY DEF IInv, WriterEnds, OutputInv, Told, treeVars, pipeVars, stopVars
<1>8. OrdinaryExitIsComplete'
  BY <1>6 DEF IInv, CauseInv, OrdinaryExitIsComplete, Attempt!Ordinary, WriterEnds, Told,
     treeVars, pipeVars, stopVars, timeVars, endVars
<1> QED BY <1>1, <1>2, <1>3, <1>4, <1>5, <1>6, <1>7, <1>8 DEF IInv

LEMMA DrainStep == ASSUME IInv, Drain PROVE IInv'
<1>1. TypeOK'
  <2> PICK size \in 1..2 : LET over == IF KeepOf(size) < size THEN {"overflow"} ELSE {} IN
       /\ written + size <= MaxOut /\ written' = written + size
       /\ kept' \in {kept, kept + KeepOf(size)}
       /\ facts' \subseteq facts \union over \union {"collector_failure"}
    BY DEF Drain
  <2>1. kept + KeepOf(size) \in 0..EventsCap /\ written' \in 0..MaxOut
    BY BoundsAssumption DEF KeepOf, IInv, TypeOK
  <2>2. facts' \subseteq {"writer_failure", "collector_failure", "overflow"}
    BY DEF IInv, TypeOK
  <2> QED BY <2>1, <2>2 DEF Drain, IInv, TypeOK, treeVars, stopVars, timeVars, endVars
<1>2. EarlyInv'
  BY DEF IInv, Drain, EarlyInv, RootInv, KeepOf, DrainOnly, treeVars, stopVars
<1>3. RootInv'
  BY DEF IInv, Drain, RootInv, EarlyInv, KeepOf, DrainOnly, treeVars, stopVars, timeVars, endVars
<1>4. TellInv'
  BY DEF IInv, Drain, TellInv, KeepOf, DrainOnly, treeVars, stopVars
<1>5. SeenInv'
  BY DEF IInv, Drain, SeenInv, EarlyInv, RootInv, KeepOf, DrainOnly, treeVars, stopVars, timeVars,
     endVars, Reached, Alive, JobEmpty, PipesOpen, TreeAlive
<1>6. CauseInv'
  BY DEF IInv, Drain, CauseInv, KeepOf, DrainOnly, treeVars, stopVars, timeVars, endVars, Reached,
     Alive, JobEmpty, PipesOpen, TreeAlive
<1>7. OutputInv'
  BY BoundsAssumption DEF IInv, Drain, OutputInv, TypeOK, KeepOf, DrainOnly, Told
<1>8. OrdinaryExitIsComplete'
  BY <1>6 DEF IInv, CauseInv, SeenInv, OrdinaryExitIsComplete, Attempt!Ordinary, Drain, KeepOf,
     DrainOnly
<1> QED BY <1>1, <1>2, <1>3, <1>4, <1>5, <1>6, <1>7, <1>8 DEF IInv

LEMMA EndOfStreamStep == ASSUME IInv, EndOfStream PROVE IInv'
<1>1. TypeOK'
  BY DEF IInv, EndOfStream, TypeOK, treeVars, pipeVars, stopVars, timeVars, endVars
<1>2. EarlyInv'
  BY DEF IInv, EndOfStream, EarlyInv, RootInv, treeVars, pipeVars, stopVars, timeVars, endVars
<1>3. RootInv'
  BY DEF IInv, EndOfStream, RootInv, EarlyInv, treeVars, pipeVars, stopVars, timeVars, endVars
<1>4. TellInv'
  BY DEF IInv, EndOfStream, TellInv, treeVars, pipeVars, stopVars
<1>5. SeenInv'
  BY DEF IInv, EndOfStream, SeenInv, EarlyInv, RootInv, PipesOpen, treeVars, pipeVars, stopVars,
     timeVars, endVars, Reached, Alive, JobEmpty, TreeAlive
<1>6. CauseInv'
  BY DEF IInv, EndOfStream, CauseInv, PipesOpen, treeVars, pipeVars, stopVars, timeVars, endVars,
     Reached, Alive, JobEmpty, TreeAlive
<1>7. OutputInv'
  BY DEF IInv, EndOfStream, OutputInv, treeVars, pipeVars, stopVars, Told
<1>8. OrdinaryExitIsComplete'
  BY <1>6 DEF IInv, CauseInv, OrdinaryExitIsComplete, Attempt!Ordinary, EndOfStream, treeVars,
     pipeVars, stopVars, timeVars, endVars
<1> QED BY <1>1, <1>2, <1>3, <1>4, <1>5, <1>6, <1>7, <1>8 DEF IInv

LEMMA ReadPromptStep == ASSUME IInv, ReadPrompt PROVE IInv'
<1>1. TypeOK'
  BY DEF IInv, ReadPrompt, TypeOK, MayAct, treeVars, threadVars, stopVars, timeVars, endVars
<1>2. EarlyInv'
  BY DEF IInv, ReadPrompt, EarlyInv, RootInv, MayAct, treeVars, threadVars, stopVars
<1>3. RootInv'
  BY DEF IInv, ReadPrompt, RootInv, EarlyInv, MayAct, treeVars, threadVars, stopVars, timeVars,
     endVars
<1>4. TellInv'
  BY DEF IInv, ReadPrompt, TellInv, MayAct, treeVars, threadVars, stopVars
<1>5. SeenInv'
  BY DEF IInv, ReadPrompt, SeenInv, EarlyInv, RootInv, MayAct, treeVars, threadVars, stopVars,
     timeVars, endVars, Reached, Alive, JobEmpty, PipesOpen, TreeAlive
<1>6. CauseInv'
  BY DEF IInv, ReadPrompt, CauseInv, MayAct, treeVars, threadVars, stopVars, timeVars, endVars,
     Reached, Alive, JobEmpty, PipesOpen, TreeAlive
<1>7. OutputInv'
  BY DEF IInv, ReadPrompt, OutputInv, MayAct, treeVars, threadVars, stopVars, Told
<1>8. OrdinaryExitIsComplete'
  BY <1>6 DEF IInv, CauseInv, OrdinaryExitIsComplete, Attempt!Ordinary, ReadPrompt, MayAct,
     treeVars, threadVars, stopVars, timeVars, endVars
<1> QED BY <1>1, <1>2, <1>3, <1>4, <1>5, <1>6, <1>7, <1>8 DEF IInv

LEMMA WriteOutStep == ASSUME IInv, WriteOut PROVE IInv'
<1>1. TypeOK'
  BY DEF IInv, WriteOut, TypeOK, TreeActs, treeVars, threadVars, stopVars, timeVars, endVars,
     MayAct
<1>2. EarlyInv'
  BY DEF IInv, WriteOut, EarlyInv, RootInv, TreeActs, treeVars, threadVars, stopVars, MayAct
<1>3. RootInv'
  BY DEF IInv, WriteOut, RootInv, EarlyInv, TreeActs, treeVars, threadVars, stopVars, timeVars,
     endVars, MayAct
<1>4. TellInv'
  BY DEF IInv, WriteOut, TellInv, TreeActs, treeVars, threadVars, stopVars, MayAct
<1>5. SeenInv'
  BY DEF IInv, WriteOut, SeenInv, EarlyInv, RootInv, TreeActs, treeVars, threadVars, stopVars,
     timeVars, endVars, Reached, Alive, JobEmpty, PipesOpen, TreeAlive, MayAct
<1>6. CauseInv'
  BY DEF IInv, WriteOut, CauseInv, TreeActs, treeVars, threadVars, stopVars, timeVars, endVars,
     Reached, Alive, JobEmpty, PipesOpen, TreeAlive, MayAct
<1>7. OutputInv'
  BY DEF IInv, WriteOut, OutputInv, TreeActs, treeVars, threadVars, stopVars, Told, MayAct
<1>8. OrdinaryExitIsComplete'
  BY <1>6 DEF IInv, CauseInv, OrdinaryExitIsComplete, Attempt!Ordinary, WriteOut, TreeActs,
     treeVars, threadVars, stopVars, timeVars, endVars, MayAct
<1> QED BY <1>1, <1>2, <1>3, <1>4, <1>5, <1>6, <1>7, <1>8 DEF IInv

LEMMA ExitsStep == ASSUME IInv, Exits PROVE IInv'
<1>1. TypeOK'
  BY DEF IInv, Exits, TypeOK, pipeVars, threadVars, stopVars, timeVars, endVars
<1>2. EarlyInv'
  BY DEF IInv, Exits, EarlyInv, RootInv, pipeVars, threadVars, stopVars
<1>3. RootInv'
  BY DEF IInv, Exits, RootInv, EarlyInv, pipeVars, threadVars, stopVars, timeVars, endVars
<1>4. TellInv'
  BY DEF IInv, Exits, TellInv, pipeVars, threadVars, stopVars
<1>5. SeenInv'
  BY DEF IInv, Exits, SeenInv, EarlyInv, RootInv, pipeVars, threadVars, stopVars, timeVars,
     endVars, Reached, Alive, JobEmpty, PipesOpen, TreeAlive
<1>6. CauseInv'
  BY DEF IInv, Exits, CauseInv, pipeVars, threadVars, stopVars, timeVars, endVars, Reached, Alive,
     JobEmpty, PipesOpen, TreeAlive
<1>7. OutputInv'
  BY DEF IInv, Exits, OutputInv, pipeVars, threadVars, stopVars, Told
<1>8. OrdinaryExitIsComplete'
  BY <1>6 DEF IInv, CauseInv, OrdinaryExitIsComplete, Attempt!Ordinary, Exits, pipeVars,
     threadVars, stopVars, timeVars, endVars
<1> QED BY <1>1, <1>2, <1>3, <1>4, <1>5, <1>6, <1>7, <1>8 DEF IInv

LEMMA TickStep == ASSUME IInv, Tick PROVE IInv'
<1>1. TypeOK'
  BY DEF IInv, Tick, TypeOK, treeVars, pipeVars, threadVars, stopVars, endVars
<1>2. EarlyInv'
  BY DEF IInv, Tick, EarlyInv, RootInv, treeVars, pipeVars, threadVars, stopVars, endVars
<1>3. RootInv'
  BY DEF IInv, Tick, RootInv, EarlyInv, treeVars, pipeVars, threadVars, stopVars, endVars
<1>4. TellInv'
  BY DEF IInv, Tick, TellInv, treeVars, pipeVars, threadVars, stopVars
<1>5. SeenInv'
  BY DEF IInv, Tick, SeenInv, TypeOK, EarlyInv, RootInv, treeVars, pipeVars, threadVars, stopVars,
     endVars, Reached, Alive, JobEmpty, PipesOpen, TreeAlive
<1>6. CauseInv'
  BY DEF IInv, Tick, CauseInv, TypeOK, treeVars, pipeVars, threadVars, stopVars, endVars, Reached,
     Alive, JobEmpty, PipesOpen, TreeAlive
<1>7. OutputInv'
  BY DEF IInv, Tick, OutputInv, treeVars, pipeVars, threadVars, stopVars, Told
<1>8. OrdinaryExitIsComplete'
  BY <1>6 DEF IInv, CauseInv, OrdinaryExitIsComplete, Attempt!Ordinary, Tick
<1> QED BY <1>1, <1>2, <1>3, <1>4, <1>5, <1>6, <1>7, <1>8 DEF IInv

LEMMA CancelStep == ASSUME IInv, Cancel PROVE IInv'
<1>1. TypeOK'
  BY DEF IInv, Cancel, TypeOK, treeVars, pipeVars, threadVars, stopVars, endVars
<1>2. EarlyInv'
  BY DEF IInv, Cancel, EarlyInv, RootInv, treeVars, pipeVars, threadVars, stopVars, endVars
<1>3. RootInv'
  BY DEF IInv, Cancel, RootInv, EarlyInv, treeVars, pipeVars, threadVars, stopVars, endVars
<1>4. TellInv'
  BY DEF IInv, Cancel, TellInv, treeVars, pipeVars, threadVars, stopVars
<1>5. SeenInv'
  BY DEF IInv, Cancel, SeenInv, EarlyInv, RootInv, treeVars, pipeVars, threadVars, stopVars,
     endVars, Reached, Alive, JobEmpty, PipesOpen, TreeAlive
<1>6. CauseInv'
  BY DEF IInv, Cancel, CauseInv, treeVars, pipeVars, threadVars, stopVars, endVars, Reached,
     Alive, JobEmpty, PipesOpen, TreeAlive
<1>7. OutputInv'
  BY DEF IInv, Cancel, OutputInv, treeVars, pipeVars, threadVars, stopVars, Told
<1>8. OrdinaryExitIsComplete'
  BY <1>6 DEF IInv, CauseInv, OrdinaryExitIsComplete, Attempt!Ordinary, Cancel
<1> QED BY <1>1, <1>2, <1>3, <1>4, <1>5, <1>6, <1>7, <1>8 DEF IInv


(******************** the invariant and what follows *********************)

LEMMA InitIInv == Init => IInv
<1> SUFFICES ASSUME Init PROVE IInv
  OBVIOUS
<1>1. TypeOK
  <2>1. seen \in [due : BOOLEAN, workersDone : BOOLEAN, jobEmpty : BOOLEAN, root : BOOLEAN,
                 witness : BOOLEAN]
    BY DEF Init, NothingSeen
  <2>2. deadline \in Nat \union {None}
    <3>1. deadline \in Shared
      BY DEF Init
    <3>2. deadline \in Shared \ {None} \/ deadline = None
      BY <3>1
    <3>3. deadline \in Nat \/ deadline = None
      BY <3>2, BoundsAssumption
    <3> QED BY <3>3
  <2>3. sent \in 0..Prompt /\ written \in 0..MaxOut /\ kept \in 0..EventsCap
    BY BoundsAssumption DEF Init
  <2>4. /\ now \in Nat /\ cancel \in Nat \union {None} /\ started \in Nat \union {None}
        /\ ready \in [at : Nat, cancelled : BOOLEAN] \union {None}
    BY DEF Init
  <2>5. /\ assigned \in BOOLEAN /\ killed \in BOOLEAN /\ duplicates \in BOOLEAN
        /\ structural \in BOOLEAN /\ unsafe \in BOOLEAN
        /\ stopped \in BOOLEAN /\ stopFailed \in BOOLEAN
    BY Zenon DEF Init
  <2>6. /\ pc = "prepare" /\ release = "held" /\ signals = {} /\ root = "none"
        /\ descendant = "none" /\ stdin = 0 /\ stdout = 0 /\ writer = "open"
        /\ collector = "open" /\ facts = {} /\ final = "open" /\ outcome = "none"
    BY DEF Init
  <2> QED BY <2>1, <2>2, <2>3, <2>4, <2>5, <2>6 DEF TypeOK
<1>2. EarlyInv /\ RootInv /\ TellInv /\ OutputInv
  BY DEF Init, EarlyInv, RootInv, TellInv, OutputInv, NothingSeen
<1>3. SeenInv /\ CauseInv
  BY DEF Init, SeenInv, CauseInv, NothingSeen
<1>4. OrdinaryExitIsComplete
  BY DEF Init, OrdinaryExitIsComplete, Attempt!Ordinary
<1> QED BY <1>1, <1>2, <1>3, <1>4 DEF IInv

LEMMA StutterStep == ASSUME IInv, UNCHANGED vars PROVE IInv'
<1>1. TypeOK' /\ EarlyInv' /\ RootInv' /\ TellInv'
  BY DEF vars, treeVars, pipeVars, threadVars, stopVars, timeVars, endVars, IInv, TypeOK,
     EarlyInv, RootInv, TellInv
<1>2. SeenInv' /\ CauseInv' /\ OutputInv' /\ OrdinaryExitIsComplete'
  BY DEF vars, treeVars, pipeVars, threadVars, stopVars, timeVars, endVars, IInv, SeenInv,
     CauseInv, OutputInv, OrdinaryExitIsComplete, Alive, TreeAlive, PipesOpen, JobEmpty, Reached,
     Told
<1> QED BY <1>1, <1>2 DEF IInv

LEMMA StepIInv == IInv /\ [Next]_vars => IInv'
<1> SUFFICES ASSUME IInv, [Next]_vars PROVE IInv'
  OBVIOUS
<1>1. CASE UNCHANGED vars
  BY <1>1, StutterStep
<1>2. CASE Supervisor
  BY <1>2, PrepareStep, GateStep, CleanupStep, CreateStep, AssignStep, CloseDuplicatesStep,
     KillRootStep, ResumeGateStep, ResumeStep, StartStep, ObserveStep, QueryJobStep, DecideStep,
     StopStep, FinishStep, ClassifyStep DEF Supervisor
<1>3. CASE Writer \/ Collector
  BY <1>3, WriteChunkStep, WriteFailsStep, WriterEndsStep, DrainStep, EndOfStreamStep DEF Writer,
     Collector
<1>4. CASE Tree \/ Tick \/ Cancel
  BY <1>4, ReadPromptStep, WriteOutStep, ExitsStep, TickStep, CancelStep DEF Tree
<1> QED BY <1>1, <1>2, <1>3, <1>4 DEF Next

LEMMA Invariance == Spec => []IInv
BY InitIInv, StepIInv, PTL DEF Spec

\* Every variable keeps its type.
THEOREM TypeCorrect == Spec => []TypeOK
<1>1. IInv => TypeOK
  BY DEF IInv
<1> QED BY <1>1, Invariance, PTL

\* Whatever the outcome, the caller gets it with no process of the tree left, both workers
\* ended and the child's pipe ends closed.
THEOREM NothingIsLeft == Spec => []TreeIsGone
<1>1. IInv => TreeIsGone
  BY DEF IInv, EarlyInv, SeenInv, TreeIsGone, TreeAlive, Alive, PipesOpen, JobEmpty
<1> QED BY <1>1, Invariance, PTL

\* An ordinary exit is that of an attempt nobody stopped, with the whole prompt delivered and
\* the whole output kept.
THEOREM OrdinaryIsComplete == Spec => []OrdinaryExitIsComplete
<1>1. IInv => OrdinaryExitIsComplete
  BY DEF IInv
<1> QED BY <1>1, Invariance, PTL

\* The writer never reports a failed delivery that the termination of the tree caused.
THEOREM FailureIsGenuine == Spec => DeliveryFailureIsGenuine
<1>1. IInv => [WriteFails => ~killed]_vars
  BY DEF IInv, TellInv, WriteFails, MayWrite, Told
<1> QED BY <1>1, Invariance, PTL DEF Spec, DeliveryFailureIsGenuine

(******************** each step is one of the attempt's *********************)

LEMMA PrepareRefines ==
  ASSUME IInv, Prepare PROVE Attempt!Reject \/ UNCHANGED Attempt!attemptVars
BY DEF Prepare, treeVars, threadVars, stopVars, timeVars, endVars, Attempt!attemptVars,
   Attempt!Reject, IInv, CauseInv

LEMMA GateRefines ==
  ASSUME IInv, Gate PROVE Attempt!Reject \/ Attempt!Commit \/ UNCHANGED Attempt!attemptVars
BY DEF Gate, treeVars, stopVars, timeVars, endVars, Attempt!attemptVars, Attempt!Reject,
   Attempt!Commit, IInv, EarlyInv, RootInv, SeenInv, CauseInv

LEMMA CleanupRefines ==
  ASSUME IInv, Cleanup PROVE UNCHANGED Attempt!attemptVars
BY DEF Cleanup, treeVars, pipeVars, threadVars, stopVars, timeVars, endVars, Attempt!attemptVars,
   IInv, CauseInv

LEMMA CreateRefines ==
  ASSUME IInv, Create PROVE Attempt!Launch \/ UNCHANGED Attempt!attemptVars
BY DEF Create, pipeVars, timeVars, endVars, Attempt!attemptVars, Attempt!Launch, IInv, EarlyInv,
   RootInv, SeenInv, CauseInv

LEMMA AssignRefines ==
  ASSUME IInv, Assign PROVE UNCHANGED Attempt!attemptVars
BY DEF Assign, pipeVars, threadVars, timeVars, endVars, Attempt!attemptVars, IInv, CauseInv

LEMMA CloseDuplicatesRefines ==
  ASSUME IInv, CloseDuplicates PROVE UNCHANGED Attempt!attemptVars
BY DEF CloseDuplicates, treeVars, timeVars, endVars, Attempt!attemptVars, IInv, CauseInv

LEMMA KillRootRefines ==
  ASSUME IInv, KillRoot PROVE UNCHANGED Attempt!attemptVars
BY DEF KillRoot, pipeVars, threadVars, timeVars, endVars, Attempt!attemptVars, IInv, CauseInv

LEMMA ResumeGateRefines ==
  ASSUME IInv, ResumeGate PROVE UNCHANGED Attempt!attemptVars
BY DEF ResumeGate, Refuse, treeVars, pipeVars, timeVars, endVars, Attempt!attemptVars, IInv,
   CauseInv

LEMMA ResumeRefines ==
  ASSUME IInv, Resume PROVE UNCHANGED Attempt!attemptVars
BY DEF Resume, Refuse, pipeVars, timeVars, endVars, Attempt!attemptVars, IInv, EarlyInv, RootInv,
   SeenInv, CauseInv

LEMMA StartRefines ==
  ASSUME IInv, Start PROVE Attempt!Begin \/ UNCHANGED Attempt!attemptVars
BY DEF Start, Date, Refuse, treeVars, pipeVars, timeVars, Earlier, Attempt!attemptVars,
   Attempt!Begin, IInv, EarlyInv, RootInv, SeenInv, CauseInv

LEMMA ObserveRefines ==
  ASSUME IInv, Observe PROVE UNCHANGED Attempt!attemptVars
BY DEF Observe, treeVars, pipeVars, threadVars, timeVars, endVars, Attempt!attemptVars, IInv,
   CauseInv

LEMMA QueryJobRefines ==
  ASSUME IInv, QueryJob PROVE UNCHANGED Attempt!attemptVars
BY DEF QueryJob, treeVars, pipeVars, threadVars, timeVars, endVars, Attempt!attemptVars, IInv,
   CauseInv

LEMMA DecideRefines ==
  ASSUME IInv, Decide PROVE UNCHANGED Attempt!attemptVars
BY DEF Decide, Remember, DueNow, AllDone, treeVars, pipeVars, timeVars, endVars, HasRun,
   NothingSeen, RootNow, Attempt!attemptVars, IInv, CauseInv

LEMMA StopRefines ==
  ASSUME IInv, Stop PROVE UNCHANGED Attempt!attemptVars
BY DEF Stop, pipeVars, threadVars, timeVars, endVars, Attempt!attemptVars, IInv, CauseInv

LEMMA WriteChunkRefines ==
  ASSUME IInv, WriteChunk PROVE Attempt!Deliver \/ UNCHANGED Attempt!attemptVars
BY DEF WriteChunk, MayWrite, PipesOpen, treeVars, threadVars, stopVars, timeVars, endVars, Told,
   Alive, Attempt!attemptVars, Attempt!Deliver, IInv, EarlyInv, RootInv, SeenInv, CauseInv,
   Reached,
   JobEmpty, TreeAlive

LEMMA WriteFailsRefines ==
  ASSUME IInv, WriteFails PROVE UNCHANGED Attempt!attemptVars
BY DEF WriteFails, MayWrite, treeVars, pipeVars, stopVars, timeVars, endVars, Told,
   Attempt!attemptVars, IInv, CauseInv

LEMMA WriterEndsRefines ==
  ASSUME IInv, WriterEnds PROVE UNCHANGED Attempt!attemptVars
BY DEF WriterEnds, Told, treeVars, pipeVars, stopVars, timeVars, endVars, Attempt!attemptVars,
   IInv, CauseInv

LEMMA DrainRefines ==
  ASSUME IInv, Drain PROVE UNCHANGED Attempt!attemptVars
BY DEF Drain, KeepOf, DrainOnly, treeVars, stopVars, timeVars, endVars, Attempt!attemptVars, IInv,
   CauseInv

LEMMA EndOfStreamRefines ==
  ASSUME IInv, EndOfStream PROVE UNCHANGED Attempt!attemptVars
BY DEF EndOfStream, treeVars, pipeVars, stopVars, timeVars, endVars, Attempt!attemptVars, IInv,
   CauseInv

LEMMA ReadPromptRefines ==
  ASSUME IInv, ReadPrompt PROVE UNCHANGED Attempt!attemptVars
BY DEF ReadPrompt, MayAct, treeVars, threadVars, stopVars, timeVars, endVars, Attempt!attemptVars,
   IInv, CauseInv

LEMMA WriteOutRefines ==
  ASSUME IInv, WriteOut PROVE UNCHANGED Attempt!attemptVars
BY DEF WriteOut, TreeActs, treeVars, threadVars, stopVars, timeVars, endVars, MayAct,
   Attempt!attemptVars, IInv, CauseInv

LEMMA ExitsRefines ==
  ASSUME IInv, Exits PROVE Attempt!Expire \/ UNCHANGED Attempt!attemptVars
BY DEF Exits, pipeVars, threadVars, stopVars, timeVars, endVars, Attempt!attemptVars,
   Attempt!Expire, IInv, CauseInv

LEMMA TickRefines ==
  ASSUME IInv, Tick PROVE UNCHANGED Attempt!attemptVars
BY DEF Tick, treeVars, pipeVars, threadVars, stopVars, endVars, Attempt!attemptVars, IInv,
   CauseInv

LEMMA CancelRefines ==
  ASSUME IInv, Cancel PROVE Attempt!Cancel \/ UNCHANGED Attempt!attemptVars
BY DEF Cancel, treeVars, pipeVars, threadVars, stopVars, endVars, Attempt!attemptVars,
   Attempt!Cancel, IInv, CauseInv

LEMMA FinishRefines ==
  ASSUME IInv, Finish PROVE Attempt!Capture \/ Attempt!Hold
<1>1. /\ pc = "finish" /\ root \in {"none", "exited"} /\ descendant = "none"
      /\ ready = None /\ outcome = "none"
  BY DEF Finish, IInv, TypeOK, SeenInv, CauseInv, TreeAlive, Alive
<1>2. UNCHANGED <<root, descendant, sent, cancel, started>>
  BY DEF Finish, treeVars, pipeVars, timeVars
<1>3. CASE outcome' = "unsafe" /\ pc' = "done" /\ UNCHANGED <<ready, structural, final>>
  BY <1>1, <1>2, <1>3 DEF Attempt!Hold
<1>4. CASE /\ ready' = [at |-> now, cancelled |-> cancel # None]
           /\ pc' = "classify" /\ UNCHANGED outcome
  <2> DEFINE visible == cancel # None
  <2>1. visible \in BOOLEAN /\ ready' = [at |-> now, cancelled |-> visible]
    BY <1>4
  <2> HIDE DEF visible
  <2>2. ready' # None /\ ready'.cancelled = visible
    BY <2>1, BoundsAssumption DEF IInv, TypeOK
  <2>3. (ready' # None /\ ready'.cancelled) = (cancel # None)
    BY <2>2 DEF visible
  <2> QED BY <1>1, <1>2, <1>4, <2>3 DEF Attempt!Capture
<1> QED BY <1>3, <1>4 DEF Finish

LEMMA ClassifyRefines ==
  ASSUME IInv, Classify PROVE Attempt!End
<1>1. /\ pc = "classify" /\ pc' = "done" /\ ready # None /\ ready.at \in Nat
      /\ ready.cancelled => cancel # None /\ cancel <= ready.at
      /\ cancel \in Nat \union {None} /\ deadline \in Nat \union {None}
  BY DEF Classify, IInv, TypeOK, CauseInv
<1>2. UNCHANGED <<root, descendant, sent, cancel, started, ready>>
  BY DEF Classify, treeVars, pipeVars, timeVars
<1>3. outcome' \in Attempt!Outcomes \union {"unsafe"}
  BY DEF Classify, OutcomeAt, Attempt!MechanicalOutcome, Attempt!Outcomes, Attempt!Ordinary
<1>4. ASSUME outcome' \in Attempt!Ordinary PROVE sent = Prompt /\ ~ready.cancelled
  <2>1. OrdinaryExitIsComplete'
    BY ClassifyStep DEF IInv
  <2>2. PICK code : outcome' = OutcomeAt(cancel, code)
    BY <1>4 DEF Classify, Attempt!Ordinary
  <2>3. /\ ~(Attempt!Reached(cancel, ready.at) /\ (deadline = None \/ cancel <= deadline))
        /\ ~Attempt!Reached(deadline, ready.at)
    BY <1>4, <2>2 DEF OutcomeAt, Attempt!MechanicalOutcome, Attempt!Ordinary
  <2>4. ~ready.cancelled
    BY <1>1, <2>3 DEF Attempt!Reached
  <2> QED BY <1>2, <1>4, <2>1, <2>4 DEF OrdinaryExitIsComplete
<1>5. ASSUME outcome' = "interrupted" PROVE cancel # None
  <2>1. PICK code : outcome' = OutcomeAt(cancel, code)
    BY <1>5 DEF Classify
  <2> QED BY <1>5, <2>1 DEF OutcomeAt, Attempt!MechanicalOutcome, Attempt!Reached
<1> QED BY <1>1, <1>2, <1>3, <1>4, <1>5 DEF Attempt!End

LEMMA InitIsAttemptInit == Init => Attempt!AttemptInit
BY DEF Init, Attempt!AttemptInit

LEMMA StepRefines ==
  IInv /\ [Next]_vars => [Attempt!AttemptNext]_(Attempt!attemptVars)
<1> SUFFICES ASSUME IInv, [Next]_vars
             PROVE  Attempt!AttemptNext \/ UNCHANGED Attempt!attemptVars
  OBVIOUS
<1>1. CASE UNCHANGED vars
  BY <1>1 DEF vars, treeVars, pipeVars, timeVars, endVars, Attempt!attemptVars
<1>2. CASE Supervisor
  BY <1>2, PrepareRefines, GateRefines, CleanupRefines, CreateRefines, AssignRefines,
     CloseDuplicatesRefines, KillRootRefines, ResumeGateRefines, ResumeRefines, StartRefines,
     ObserveRefines, QueryJobRefines, DecideRefines, StopRefines, FinishRefines,
     ClassifyRefines DEF
     Supervisor, Attempt!AttemptNext
<1>3. CASE Writer \/ Collector
  BY <1>3, WriteChunkRefines, WriteFailsRefines, WriterEndsRefines, DrainRefines,
     EndOfStreamRefines DEF Writer, Collector, Attempt!AttemptNext
<1>4. CASE Tree \/ Tick \/ Cancel
  BY <1>4, ReadPromptRefines, WriteOutRefines, ExitsRefines, TickRefines, CancelRefines DEF Tree,
     Attempt!AttemptNext
<1> QED BY <1>1, <1>2, <1>3, <1>4 DEF Next

\* The attempt implements what it promises its caller: it is refused or ends exactly once, with no
\* process left, and neither an early cancellation nor a missing piece of the prompt ever
\* comes out as an ordinary exit.
THEOREM AttemptImplemented == Spec => ImplementsAttempt
<1>1. Init => Attempt!AttemptInit
  BY InitIsAttemptInit
<1>2. IInv /\ [Next]_vars => [Attempt!AttemptNext]_(Attempt!attemptVars)
  BY StepRefines
<1> QED BY <1>1, <1>2, Invariance, PTL DEF Spec, ImplementsAttempt, Attempt!AttemptSpec

=============================================================================
