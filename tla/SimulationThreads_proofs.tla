---------------------- MODULE SimulationThreads_proofs ----------------------
(***************************************************************************)
(* Theorems about SimulationThreads for any set of nodes with any steps.   *)
(* Type correctness needs no hypothesis.  That the threads stay in step    *)
(* holds for the first run of a server that is paused only while no thread *)
(* is about to read mCyclePaused; without either of the two TLC finds      *)
(* threads out of step.                                                    *)
(***************************************************************************)
EXTENDS SimulationThreads, TLAPS

(* The clock operators stay within the natural numbers.                    *)
LEMMA ClockTypes ==
  ASSUME NEW s \in Nat, NEW a \in [Nodes -> Nat]
  PROVE  /\ TimeLeft(s) \in Nat
         /\ CatchUp(a, StepsTaken(s) * SimStep) \in [Nodes -> Nat]
         /\ SyncedSums(s) \subseteq Nat
<1>1. TimeLeft(s) \in Nat
  BY ClockAssumption DEF TimeLeft
<1>2. StepsTaken(s) * SimStep \in Int
  <2>1. StepsTaken(s) \in Int
    BY ClockAssumption DEF StepsTaken
  <2> QED
    BY <2>1, ClockAssumption
<1>3. ASSUME NEW t \in Int
      PROVE  CatchUp(a, t) \in [Nodes -> Nat]
  BY DEF CatchUp
<1>4. SyncedSums(s) \subseteq Nat
  BY ClockAssumption DEF SyncedSums
<1> QED
  BY <1>1, <1>2, <1>3, <1>4

(* Positions of the main thread between the first and the last barrier of  *)
(* a cycle: no node's thread is at the top of its loop then.               *)
SettledPositions ==
  {"started", "wait2", "stepping", "stepped", "rendering", "wait3",
   "pausing", "waitP2"}

(* Where the node threads can be while the main thread is in its place.    *)
TopWait == IF exitThreads THEN "gone" ELSE IF paused THEN "waitP1" ELSE "wait1"

Aligned ==
  /\ mpc = "idle" => \A n \in Nodes : npc[n] = "none"
  /\ mpc \in {"created", "top", "wait1", "waitP1", "join"} =>
       \A n \in Nodes : npc[n] \in {"ended", "ending", "top", TopWait}
  /\ mpc \in {"started", "wait2"} =>
       \A n \in Nodes : npc[n] \in {"due", "acting", "wait2"}
  /\ mpc \in {"stepping", "stepped", "rendering", "wait3"} =>
       \A n \in Nodes : npc[n] = "wait3"
  /\ mpc \in {"pausing", "waitP2"} =>
       \A n \in Nodes : npc[n] \in {"idling", "waiting", "waitP2"}

FlagsFit ==
  /\ mpc \in {"created", "wait1"} => ~paused
  /\ mpc = "waitP1" => paused
  /\ mpc \in {"created", "wait1", "waitP1", "started", "pausing"} => ~exitThreads
  /\ mpc = "join" => exitThreads
  /\ runs = 0 => mpc = "idle" /\ ~exitThreads

(* Which nodes have an EndCycle outstanding.                               *)
OpenFits ==
  /\ \A n \in Nodes \ {RenderControl} :
       /\ npc[n] \in {"wait2", "wait3", "ended"} => (n \in open <=> newCycle[n])
       /\ npc[n] = "acting" => n \notin open /\ newCycle[n]
       /\ npc[n] = "ending" => n \in open
       /\ n \in open => npc[n] \in {"wait2", "wait3", "ended", "ending"}
  /\ RenderControl \in Nodes =>
       /\ mpc \in {"stepping", "stepped", "rendering"} => RenderControl \in open
       /\ mpc \notin {"stepped", "rendering"} =>
            (RenderControl \in open <=> ahead[RenderControl] > 0)
       /\ mpc = "rendering" => ahead[RenderControl] = 0
       /\ npc[RenderControl] = "acting" => ahead[RenderControl] = 0
       /\ npc[RenderControl] = "wait2" => ahead[RenderControl] > 0
       /\ npc[RenderControl] # "ending"

InStep == TypeOK /\ Aligned /\ FlagsFit /\ OpenFits
-----------------------------------------------------------------------------
(* Every step keeps the types.                                             *)
LEMMA TypeStep == TypeOK /\ [Next]_vars => TypeOK'
<1> SUFFICES ASSUME TypeOK, [Next]_vars PROVE TypeOK'
  OBVIOUS
<1> USE DEF TypeOK, MainPositions, NodePositions, Waits, flags, clock
<1>1. CASE StartRun
  <2>1. /\ exit' \in BOOLEAN /\ paused' \in BOOLEAN
        /\ continue' \in BOOLEAN /\ exitThreads' \in BOOLEAN
    BY <1>1, Zenon DEF StartRun
  <2>2. newCycle' \in [Nodes -> BOOLEAN] /\ npc' \in [Nodes -> NodePositions]
    BY <1>1 DEF StartRun
  <2>3. /\ runs' \in 0..MaxRuns /\ mpc' \in MainPositions
        /\ facade' \in {"INITIALIZED", "RUNNING", "PAUSED"}
    BY <1>1, RunsAssumption DEF StartRun
  <2>4. ahead' = ahead /\ sum' = sum /\ open' = open
    BY <1>1 DEF StartRun
  <2> QED
    BY <2>1, <2>2, <2>3, <2>4
<1>2. CASE EnterLoop
  BY <1>2 DEF EnterLoop
<1>3. CASE MainTop
  BY <1>3 DEF MainTop
<1>4. CASE MainStarted
  BY <1>4 DEF MainStarted
<1>5. CASE Step
  BY <1>5, ClockTypes DEF Step
<1>6. CASE Sync
  BY <1>6, ClockTypes DEF Sync
<1>7. CASE RenderEnd
  BY <1>7 DEF RenderEnd
<1>8. CASE MainPausing
  <2>1. sum' \in Nat
    BY <1>8, ClockTypes DEF MainPausing
  <2> QED
    BY <1>8, <2>1 DEF MainPausing
<1>9. CASE Join
  BY <1>9 DEF Join
<1>10. ASSUME NEW n \in Nodes, NodeThread(n)
       PROVE  TypeOK'
  <2> USE DEF Goto
  <2>1. CASE NodeTop(n)
    BY <2>1 DEF NodeTop
  <2>2. CASE NodeDue(n)
    BY <2>2 DEF NodeDue, Due
  <2>3. CASE FinishAct(n)
    BY <2>3, ClockAssumption DEF FinishAct
  <2>4. CASE NodeEnded(n)
    BY <2>4 DEF NodeEnded
  <2>5. CASE FinishEnd(n)
    BY <2>5 DEF FinishEnd
  <2>6. CASE BeginWait(n)
    BY <2>6 DEF BeginWait
  <2>7. CASE FinishWait(n)
    BY <2>7 DEF FinishWait
  <2> QED
    BY <1>10, <2>1, <2>2, <2>3, <2>4, <2>5, <2>6, <2>7 DEF NodeThread
<1>11. CASE Barrier
  BY <1>11 DEF Barrier, MainAfter, NodeAfter
<1>12. CASE Quit \/ Pause \/ Continue
  BY <1>12 DEF Quit, Pause, Continue
<1>13. CASE Terminated \/ UNCHANGED vars
  BY <1>13 DEF Terminated, vars
<1> QED
  BY <1>1, <1>2, <1>3, <1>4, <1>5, <1>6, <1>7, <1>8, <1>9, <1>10, <1>11,
     <1>12, <1>13 DEF Next, MainThread

(* The types hold of a new server.                                         *)
LEMMA TypeInit == Init => TypeOK
<1> SUFFICES ASSUME Init PROVE TypeOK
  OBVIOUS
<1>1. /\ exit \in BOOLEAN /\ exitThreads \in BOOLEAN
      /\ paused \in BOOLEAN /\ continue \in BOOLEAN
  BY Zenon DEF Init
<1>2. /\ newCycle \in [Nodes -> BOOLEAN]
      /\ npc \in [Nodes -> NodePositions]
  BY DEF Init, NodePositions
<1> QED
  BY <1>1, <1>2, RunsAssumption DEF Init, TypeOK, MainPositions

(* The flags, the positions and the clock keep their types.                *)
THEOREM TypeCorrect == Spec => []TypeOK
  BY TypeInit, TypeStep, PTL DEF Spec
-----------------------------------------------------------------------------
(* The threads move from barrier to barrier together.                      *)
LEMMA AlignedStep ==
  ASSUME PauseWindow \subseteq SettledPositions, MaxRuns = 1,
         InStep, [Next]_vars
  PROVE  Aligned'
<1> USE DEF InStep, TypeOK, Aligned, FlagsFit, TopWait, Waits, flags, clock
<1>1. CASE StartRun
  BY <1>1 DEF StartRun
<1>2. CASE EnterLoop
  BY <1>2 DEF EnterLoop
<1>3. CASE MainTop
  BY <1>3 DEF MainTop
<1>4. CASE MainStarted
  BY <1>4 DEF MainStarted
<1>5. CASE Step
  BY <1>5 DEF Step
<1>6. CASE Sync
  BY <1>6 DEF Sync
<1>7. CASE RenderEnd
  BY <1>7 DEF RenderEnd
<1>8. CASE MainPausing
  BY <1>8 DEF MainPausing
<1>9. CASE Join
  BY <1>9 DEF Join
<1>10. ASSUME NEW n \in Nodes, NodeThread(n)
       PROVE  Aligned'
  <2> USE DEF Goto
  <2>1. CASE NodeTop(n)
    BY <2>1 DEF NodeTop
  <2>2. CASE NodeDue(n)
    BY <2>2 DEF NodeDue, Due
  <2>3. CASE FinishAct(n)
    BY <2>3 DEF FinishAct
  <2>4. CASE NodeEnded(n)
    BY <2>4 DEF NodeEnded
  <2>5. CASE FinishEnd(n)
    BY <2>5 DEF FinishEnd
  <2>6. CASE BeginWait(n)
    BY <2>6 DEF BeginWait
  <2>7. CASE FinishWait(n)
    BY <2>7 DEF FinishWait
  <2> QED
    BY <1>10, <2>1, <2>2, <2>3, <2>4, <2>5, <2>6, <2>7 DEF NodeThread
<1>11. CASE Barrier
  BY <1>11 DEF Barrier, MainAfter, NodeAfter
<1>12. CASE Quit \/ Continue
  BY <1>12 DEF Quit, Continue
<1>13. CASE Pause
  BY <1>13 DEF Pause, SettledPositions
<1>14. CASE Terminated \/ UNCHANGED vars
  BY <1>14 DEF Terminated, vars
<1> QED
  BY <1>1, <1>2, <1>3, <1>4, <1>5, <1>6, <1>7, <1>8, <1>9, <1>10, <1>11, <1>12, <1>13, <1>14 DEF Next, MainThread

(* The flags say the same to every thread that reads them.                 *)
LEMMA FlagsStep ==
  ASSUME PauseWindow \subseteq SettledPositions, MaxRuns = 1,
         InStep, [Next]_vars
  PROVE  FlagsFit'
<1> USE DEF InStep, TypeOK, Aligned, FlagsFit, TopWait, Waits, flags, clock
<1>1. CASE StartRun
  BY <1>1 DEF StartRun
<1>2. CASE EnterLoop
  BY <1>2 DEF EnterLoop
<1>3. CASE MainTop
  BY <1>3 DEF MainTop
<1>4. CASE MainStarted
  BY <1>4 DEF MainStarted
<1>5. CASE Step
  BY <1>5 DEF Step
<1>6. CASE Sync
  BY <1>6 DEF Sync
<1>7. CASE RenderEnd
  BY <1>7 DEF RenderEnd
<1>8. CASE MainPausing
  BY <1>8 DEF MainPausing
<1>9. CASE Join
  BY <1>9 DEF Join
<1>10. ASSUME NEW n \in Nodes, NodeThread(n)
       PROVE  FlagsFit'
  <2> USE DEF Goto
  <2>1. CASE NodeTop(n)
    BY <2>1 DEF NodeTop
  <2>2. CASE NodeDue(n)
    BY <2>2 DEF NodeDue, Due
  <2>3. CASE FinishAct(n)
    BY <2>3 DEF FinishAct
  <2>4. CASE NodeEnded(n)
    BY <2>4 DEF NodeEnded
  <2>5. CASE FinishEnd(n)
    BY <2>5 DEF FinishEnd
  <2>6. CASE BeginWait(n)
    BY <2>6 DEF BeginWait
  <2>7. CASE FinishWait(n)
    BY <2>7 DEF FinishWait
  <2> QED
    BY <1>10, <2>1, <2>2, <2>3, <2>4, <2>5, <2>6, <2>7 DEF NodeThread
<1>11. CASE Barrier
  BY <1>11 DEF Barrier, MainAfter, NodeAfter
<1>12. CASE Quit \/ Continue
  BY <1>12 DEF Quit, Continue
<1>13. CASE Pause
  BY <1>13 DEF Pause, SettledPositions
<1>14. CASE Terminated \/ UNCHANGED vars
  BY <1>14 DEF Terminated, vars
<1> QED
  BY <1>1, <1>2, <1>3, <1>4, <1>5, <1>6, <1>7, <1>8, <1>9, <1>10, <1>11, <1>12, <1>13, <1>14 DEF Next, MainThread

(* Every act is followed by one EndCycle, which one thread calls.          *)
LEMMA OpenStep ==
  ASSUME PauseWindow \subseteq SettledPositions, MaxRuns = 1,
         InStep, [Next]_vars
  PROVE  OpenFits'
<1> USE DEF InStep, TypeOK, Aligned, FlagsFit, OpenFits, TopWait, Waits, flags, clock
<1>1. CASE StartRun
  BY <1>1 DEF StartRun
<1>2. CASE EnterLoop
  BY <1>2 DEF EnterLoop
<1>3. CASE MainTop
  BY <1>3 DEF MainTop
<1>4. CASE MainStarted
  BY <1>4 DEF MainStarted
<1>5. CASE Step
  BY <1>5, TypeStep DEF Step
<1>6. CASE Sync
  BY <1>6 DEF Sync, Due
<1>7. CASE RenderEnd
  BY <1>7 DEF RenderEnd
<1>8. CASE MainPausing
  BY <1>8 DEF MainPausing
<1>9. CASE Join
  BY <1>9 DEF Join
<1>10. ASSUME NEW n \in Nodes, NodeThread(n)
       PROVE  OpenFits'
  <2> USE DEF Goto
  <2>1. CASE NodeTop(n)
    BY <2>1 DEF NodeTop
  <2>2. CASE NodeDue(n)
    <3>1. \A m \in Nodes \ {n} :
            /\ npc'[m] = npc[m]
            /\ newCycle'[m] = newCycle[m]
            /\ ahead'[m] = ahead[m]
            /\ m \in open' <=> m \in open
      BY <2>2 DEF NodeDue, Due
    <3>2. CASE n = RenderControl
      BY <2>2, <3>1, <3>2 DEF NodeDue, Due
    <3>3. CASE n # RenderControl
      BY <2>2, <3>1, <3>3 DEF NodeDue, Due
    <3> QED
      BY <3>2, <3>3
  <2>3. CASE FinishAct(n)
    <3>1. \A m \in Nodes \ {n} :
            /\ npc'[m] = npc[m]
            /\ newCycle'[m] = newCycle[m]
            /\ ahead'[m] = ahead[m]
            /\ m \in open' <=> m \in open
      BY <2>3 DEF FinishAct
    <3>2. CASE n = RenderControl
      <4>1. /\ ahead'[n] > 0 /\ n \in open'
            /\ npc'[n] = "wait2" /\ mpc' = mpc
        <5>1. NodeStep[n] > 0
          BY ClockAssumption
        <5>2. ahead'[n] = NodeStep[n]
          BY <2>3 DEF FinishAct
        <5>3. n \in open' /\ npc'[n] = "wait2" /\ mpc' = mpc
          BY <2>3 DEF FinishAct
        <5> QED
          BY <5>1, <5>2, <5>3
      <4>2. mpc \in {"started", "wait2"}
        BY <2>3 DEF FinishAct, MainPositions
      <4> HIDE DEF TypeOK, Aligned, FlagsFit
      <4> QED
        BY <3>1, <3>2, <4>1, <4>2
    <3>3. CASE n # RenderControl
      BY <2>3, <3>1, <3>3, ClockAssumption DEF FinishAct
    <3> QED
      BY <3>2, <3>3
  <2>4. CASE NodeEnded(n)
    BY <2>4 DEF NodeEnded
  <2>5. CASE FinishEnd(n)
    <3>1. \A m \in Nodes \ {n} :
            /\ npc'[m] = npc[m]
            /\ newCycle'[m] = newCycle[m]
            /\ ahead'[m] = ahead[m]
            /\ m \in open' <=> m \in open
      BY <2>5 DEF FinishEnd
    <3>2. CASE n = RenderControl
      BY <2>5, <3>1, <3>2 DEF FinishEnd
    <3>3. CASE n # RenderControl
      BY <2>5, <3>1, <3>3 DEF FinishEnd
    <3> QED
      BY <3>2, <3>3
  <2>6. CASE BeginWait(n)
    BY <2>6 DEF BeginWait
  <2>7. CASE FinishWait(n)
    BY <2>7 DEF FinishWait
  <2> QED
    BY <1>10, <2>1, <2>2, <2>3, <2>4, <2>5, <2>6, <2>7 DEF NodeThread
<1>11. CASE Barrier
  BY <1>11 DEF Barrier, MainAfter, NodeAfter
<1>12. CASE Quit \/ Continue
  BY <1>12 DEF Quit, Continue
<1>13. CASE Pause
  BY <1>13 DEF Pause, SettledPositions
<1>14. CASE Terminated \/ UNCHANGED vars
  BY <1>14 DEF Terminated, vars
<1> QED
  BY <1>1, <1>2, <1>3, <1>4, <1>5, <1>6, <1>7, <1>8, <1>9, <1>10, <1>11, <1>12, <1>13, <1>14 DEF Next, MainThread

(* On the first run of a server that is paused at settled positions only,  *)
(* all threads are in the same part of the same kind of cycle, and every   *)
(* node has at most one EndCycle outstanding.                              *)
THEOREM ThreadsInStep ==
  ASSUME PauseWindow \subseteq SettledPositions, MaxRuns = 1
  PROVE  Spec => []InStep
<1>1. Init => InStep
  <2> SUFFICES ASSUME Init PROVE InStep
    OBVIOUS
  <2>1. TypeOK
    BY TypeInit
  <2>2. Aligned /\ FlagsFit
    BY DEF Init, Aligned, FlagsFit
  <2>3. OpenFits
    BY DEF Init, OpenFits
  <2> QED
    BY <2>1, <2>2, <2>3 DEF InStep
<1>2. InStep /\ [Next]_vars => InStep'
  BY TypeStep, AlignedStep, FlagsStep, OpenStep DEF InStep
<1> QED
  BY <1>1, <1>2, PTL DEF Spec

(* The scene is never stepped while a node acts, ends its cycle or waits.  *)
THEOREM PhysicsIsAlone ==
  ASSUME PauseWindow \subseteq SettledPositions, MaxRuns = 1
  PROVE  Spec => []PhysicsAlone
<1>1. InStep => PhysicsAlone
  BY DEF InStep, Aligned, PhysicsAlone, Doing
<1> QED
  BY <1>1, ThreadsInStep, PTL

(* No thread waits for a thread that has left its loop.                    *)
THEOREM ThreadsLeaveTogether ==
  ASSUME PauseWindow \subseteq SettledPositions, MaxRuns = 1
  PROVE  Spec => []LeaveTogether
<1>1. InStep => LeaveTogether
  BY DEF InStep, TypeOK, Aligned, FlagsFit, TopWait, LeaveTogether, Waits
<1> QED
  BY <1>1, ThreadsInStep, PTL

(* A paused server does nothing.                                           *)
THEOREM PausedServerIdles ==
  ASSUME PauseWindow \subseteq SettledPositions, MaxRuns = 1
  PROVE  Spec => []PausedIdles
<1>1. InStep => PausedIdles
  BY DEF InStep, Aligned, PausedIdles
<1> QED
  BY <1>1, ThreadsInStep, PTL
-----------------------------------------------------------------------------
(* The run loop implements the cycle it promises its nodes.                *)

Doings == [n \in Nodes |-> Doing(n)]

(* A step after which every node is in the handler it was in, and the      *)
(* scene is as it was, is a stuttering step of the abstract cycle.         *)
LEMMA Stutters ==
  ASSUME Doings' = Doings, open' = open, (mpc' = "stepping") = (mpc = "stepping")
  PROVE  UNCHANGED Cycle!vars
BY DEF Cycle!vars, Doings

(* A step of a node's thread changes what this node is doing, if anything. *)
LEMMA NodeDoes ==
  ASSUME NEW n \in Nodes, mpc' = mpc, \A m \in Nodes \ {n} : npc'[m] = npc[m]
  PROVE  Doings' = [Doings EXCEPT ![n] = Doing(n)']
<1>1. \A m \in Nodes \ {n} : Doing(m)' = Doing(m)
  BY DEF Doing
<1> QED
  BY <1>1 DEF Doings

(* A thread that enters a handler while the scene is not being stepped.    *)
LEMMA Enters ==
  ASSUME NEW n \in Nodes, NEW h, mpc' = mpc, mpc # "stepping", open' = open,
         \A m \in Nodes \ {n} : npc'[m] = npc[m],
         Doing(n) = "nothing", Doing(n)' = h
  PROVE  Cycle!Enter(n, h)
BY NodeDoes DEF Cycle!Enter, Doings

(* A thread that leaves a handler.                                         *)
LEMMA Leaves ==
  ASSUME NEW n \in Nodes, NEW h, mpc' = mpc,
         \A m \in Nodes \ {n} : npc'[m] = npc[m],
         Doing(n) = h, Doing(n)' = "nothing"
  PROVE  Cycle!Leave(n, h)
BY NodeDoes DEF Cycle!Leave, Doings

(* Every step of a node's thread is a step of the abstract cycle.          *)
LEMMA NodeStepOfCycle ==
  ASSUME InStep, InStep', NEW n \in Nodes, NodeThread(n)
  PROVE  [Cycle!Next]_Cycle!vars
<1> USE DEF Goto, Doing
<1>1. npc \in [Nodes -> NodePositions]
  BY DEF InStep, TypeOK
<1>2. mpc' = mpc /\ (\A m \in Nodes \ {n} : npc'[m] = npc[m])
  BY <1>1 DEF NodeThread, NodeTop, NodeDue, FinishAct, NodeEnded, FinishEnd,
              BeginWait, FinishWait
<1>3. mpc = "rendering" => npc[n] = "wait3"
  BY DEF InStep, Aligned
<1>4. mpc = "stepping" => npc[n] = "wait3"
  BY DEF InStep, Aligned
<1>5. npc'[n] = "acting" => n \notin open'
  <2>1. npc'[n] = "acting" => mpc' \in {"started", "wait2"}
    BY DEF InStep, TypeOK, Aligned, MainPositions, Waits, TopWait
  <2> QED
    BY <2>1 DEF InStep, OpenFits, TypeOK
<1>6. npc'[n] = "ending" => n \in open'
  BY DEF InStep, OpenFits
<1>7. ASSUME open' = open, Doing(n)' = Doing(n)
      PROVE  UNCHANGED Cycle!vars
  <2>1. Doings' = Doings
    BY <1>2, <1>7, NodeDoes DEF Doings
  <2> QED
    BY <1>2, <1>7, <2>1, Stutters
<1>8. CASE NodeTop(n)
  BY <1>1, <1>2, <1>3, <1>7, <1>8 DEF NodeTop
<1>9. CASE NodeDue(n)
  <2>1. CASE npc'[n] = "wait2"
    BY <1>1, <1>2, <1>3, <1>7, <1>9, <2>1 DEF NodeDue
  <2>2. CASE npc'[n] = "acting"
    <3>1. Cycle!Enter(n, "acting")
      BY <1>2, <1>3, <1>4, <1>9, <2>2, Enters DEF NodeDue
    <3>2. Cycle!BeginAct(n)
      BY <1>5, <1>9, <2>2, <3>1 DEF NodeDue, Cycle!BeginAct
    <3> QED
      BY <3>2 DEF Cycle!Next
  <2> QED
    BY <1>1, <1>9, <2>1, <2>2 DEF NodeDue
<1>10. CASE FinishAct(n)
  <2>1. Cycle!Leave(n, "acting")
    BY <1>1, <1>2, <1>3, <1>10, Leaves DEF FinishAct
  <2> QED
    BY <1>10, <2>1 DEF FinishAct, Cycle!FinishAct, Cycle!Next
<1>11. CASE NodeEnded(n)
  <2>1. CASE npc'[n] = "top"
    BY <1>1, <1>2, <1>3, <1>7, <1>11, <2>1 DEF NodeEnded
  <2>2. CASE npc'[n] = "ending"
    <3>1. Cycle!Enter(n, "ending")
      BY <1>2, <1>3, <1>4, <1>11, <2>2, Enters DEF NodeEnded
    <3>2. Cycle!BeginEnd(n)
      BY <1>6, <1>11, <2>2, <3>1 DEF NodeEnded, Cycle!BeginEnd
    <3> QED
      BY <3>2 DEF Cycle!Next
  <2> QED
    BY <1>1, <1>11, <2>1, <2>2 DEF NodeEnded
<1>12. CASE FinishEnd(n)
  <2>1. Cycle!Leave(n, "ending")
    BY <1>1, <1>2, <1>3, <1>12, Leaves DEF FinishEnd
  <2> QED
    BY <1>12, <2>1 DEF FinishEnd, Cycle!FinishEnd, Cycle!Next
<1>13. CASE BeginWait(n)
  <2>1. Cycle!Enter(n, "waiting")
    BY <1>1, <1>2, <1>3, <1>4, <1>13, Enters DEF BeginWait
  <2> QED
    BY <2>1 DEF Cycle!BeginWait, Cycle!Next
<1>14. CASE FinishWait(n)
  <2>1. Cycle!Leave(n, "waiting")
    BY <1>1, <1>2, <1>3, <1>14, Leaves DEF FinishWait
  <2> QED
    BY <1>14, <2>1 DEF FinishWait, Cycle!FinishWait, Cycle!Next
<1> QED
  BY <1>8, <1>9, <1>10, <1>11, <1>12, <1>13, <1>14 DEF NodeThread

(* Every step of the threads is a step of the abstract cycle or a stutter. *)
LEMMA StepOfCycle ==
  ASSUME InStep, InStep', [Next]_vars
  PROVE  [Cycle!Next]_Cycle!vars
<1> USE DEF InStep, TypeOK, Aligned, FlagsFit, TopWait, flags, clock
<1>1. CASE StartRun \/ EnterLoop \/ MainTop \/ MainStarted \/ MainPausing \/ Join
  <2>1. Doings' = Doings
    BY <1>1 DEF StartRun, EnterLoop, MainTop, MainStarted, MainPausing, Join,
                Doings, Doing
  <2>2. open' = open /\ mpc # "stepping" /\ mpc' # "stepping"
    BY <1>1 DEF StartRun, EnterLoop, MainTop, MainStarted, MainPausing, Join
  <2> QED
    BY <2>1, <2>2, Stutters
<1>2. CASE Step
  <2>1. Doings' = Doings
    BY <1>2 DEF Step, Doings, Doing
  <2>2. Cycle!FinishStep
    BY <1>2, <2>1 DEF Step, Cycle!FinishStep, Doings
  <2> QED
    BY <2>2 DEF Cycle!Next
<1>3. CASE Sync
  <2>1. CASE mpc' = "wait3"
    <3>1. Doings' = Doings
      BY <1>3, <2>1 DEF Sync, Doings, Doing
    <3> QED
      BY <1>3, <2>1, <3>1, Stutters DEF Sync
  <2>2. CASE mpc' = "rendering"
    <3>1. RenderControl \in Nodes
      BY <1>3, <2>2 DEF Sync
    <3>2. Doings[RenderControl] = "nothing"
      BY <1>3, <3>1 DEF Sync, Doings, Doing
    <3>3. Doings' = [Doings EXCEPT ![RenderControl] = "ending"]
      BY <1>3, <2>2, <3>1 DEF Sync, Doings, Doing
    <3>4. RenderControl \in open
      BY <1>3, <3>1 DEF Sync, OpenFits
    <3>5. Cycle!BeginEnd(RenderControl)
      BY <1>3, <2>2, <3>2, <3>3, <3>4 DEF Sync, Cycle!BeginEnd, Cycle!Enter, Doings
    <3> QED
      BY <3>1, <3>5 DEF Cycle!Next
  <2> QED
    BY <1>3, <2>1, <2>2 DEF Sync
<1>4. CASE RenderEnd
  <2>1. CASE RenderControl \in Nodes
    <3>1. Doings[RenderControl] = "ending"
      BY <1>4, <2>1 DEF RenderEnd, Doings, Doing
    <3>2. Doings' = [Doings EXCEPT ![RenderControl] = "nothing"]
      BY <1>4, <2>1 DEF RenderEnd, Doings, Doing
    <3>3. Cycle!FinishEnd(RenderControl)
      BY <1>4, <3>1, <3>2 DEF RenderEnd, Cycle!FinishEnd, Cycle!Leave, Doings
    <3> QED
      BY <2>1, <3>3 DEF Cycle!Next
  <2>2. CASE RenderControl \notin Nodes
    <3>1. Doings' = Doings /\ open' = open
      BY <1>4, <2>2 DEF RenderEnd, Doings, Doing
    <3> QED
      BY <1>4, <3>1, Stutters DEF RenderEnd
  <2> QED
    BY <2>1, <2>2
<1>5. ASSUME NEW n \in Nodes, NodeThread(n)
      PROVE  [Cycle!Next]_Cycle!vars
  BY <1>5, NodeStepOfCycle
<1>6. CASE Barrier
  <2>1. \A n \in Nodes : Doing(n) = "nothing" /\ Doing(n)' = "nothing"
    BY <1>6 DEF Barrier, MainAfter, NodeAfter, Waits, Doing
  <2>2. Doings' = Doings /\ mpc # "stepping" /\ open' = open
    BY <1>6, <2>1 DEF Barrier, Doings, Waits
  <2>3. CASE mpc' = "stepping"
    <3>1. Cycle!BeginStep
      BY <2>1, <2>2, <2>3 DEF Cycle!BeginStep, Doings
    <3> QED
      BY <3>1 DEF Cycle!Next
  <2>4. CASE mpc' # "stepping"
    BY <2>2, <2>4, Stutters
  <2> QED
    BY <2>3, <2>4
<1>7. CASE Quit \/ Pause \/ Continue \/ Terminated \/ UNCHANGED vars
  <2>1. mpc' = mpc /\ npc' = npc /\ open' = open
    BY <1>7 DEF Quit, Pause, Continue, Terminated, vars
  <2>2. Doings' = Doings
    BY <2>1 DEF Doings, Doing
  <2> QED
    BY <2>1, <2>2, Stutters
<1> QED
  BY <1>1, <1>2, <1>3, <1>4, <1>5, <1>6, <1>7 DEF Next, MainThread

(* On the first run of a server that is paused at settled positions only,  *)
(* handlers and physics exclude each other and acts and ends alternate.    *)
THEOREM ThreadsImplementCycle ==
  ASSUME PauseWindow \subseteq SettledPositions, MaxRuns = 1
  PROVE  Spec => CycleSpec
<1>1. Init => Cycle!Init
  BY DEF Init, Cycle!Init, Doing
<1>2. InStep /\ InStep' /\ [Next]_vars => [Cycle!Next]_Cycle!vars
  BY StepOfCycle
<1> QED
  BY <1>1, <1>2, ThreadsInStep, PTL DEF Spec, CycleSpec, Cycle!Spec
=============================================================================
