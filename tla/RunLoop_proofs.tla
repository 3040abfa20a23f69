--------------------------- MODULE RunLoop_proofs ---------------------------
(***************************************************************************)
(* The single-threaded loop for every set of nodes, all steps and lags and *)
(* any number of runs: its types, and that acts and ends alternate.        *)
(***************************************************************************)
EXTENDS RunLoop, TLAPS

(* Between two cycles a node that is ahead of the clock is one that acted  *)
(* and had no EndCycle since; from CE_ActAgent to CE_EndCycle all are.     *)
OpenAhead ==
  IF pc \in {"step", "end"} THEN open = Nodes ELSE open = Nodes \ DueNodes(ahead)

IInv == TypeOK /\ OpenAhead

(* A cycle's arithmetic stays within the natural numbers.                  *)
LEMMA SumsNat ==
  ASSUME NEW s \in Nat
  PROVE  TimeLeft(s) \in Nat /\ SyncedSums(s) \subseteq Nat
<1>1. SimStep \in Nat /\ SimStep > 0 /\ Lags \subseteq Nat
  BY ClockAssumption
<1>2. s % SimStep \in Nat
  BY <1>1
<1>3. TimeLeft(s) \in Nat
  BY <1>2 DEF TimeLeft
<1>4. SyncedSums(s) \subseteq Nat
  BY <1>1 DEF SyncedSums
<1> QED BY <1>3, <1>4

LEMMA StepsNat ==
  ASSUME NEW s \in Nat
  PROVE  StepsTaken(s) * SimStep \in Nat
<1>1. SimStep \in Nat /\ SimStep > 0
  BY ClockAssumption
<1>2. s \div SimStep \in Nat
  BY <1>1
<1>3. StepsTaken(s) \in Nat
  BY <1>2 DEF StepsTaken
<1> QED BY <1>1, <1>3

(* The server catches up with its nodes and never leaves one behind.       *)
LEMMA CatchUpType ==
  ASSUME NEW a \in [Nodes -> Nat], NEW t \in Nat
  PROVE  CatchUp(a, t) \in [Nodes -> Nat]
BY DEF CatchUp

LEMMA InitIInv == ASSUME Init PROVE IInv
<1>1. TypeOK
  <2>1. /\ exit \in BOOLEAN /\ running \in BOOLEAN
        /\ paused \in BOOLEAN /\ continue \in BOOLEAN
    BY Zenon DEF Init
  <2>2. sum \in Nat /\ ahead \in [Nodes -> Nat] /\ runs \in 0..MaxRuns
    BY RunsAssumption DEF Init
  <2> QED BY <2>1, <2>2 DEF Init, TypeOK
<1>2. DueNodes(ahead) = Nodes
  BY DEF Init, DueNodes, Due
<1> QED BY <1>1, <1>2 DEF Init, IInv, OpenAhead

(* CE_ActAgent takes the nodes that are due a step ahead of the clock.     *)
LEMMA ActKeeps == ASSUME IInv, Act PROVE IInv'
<1>1. NodeStep \in [Nodes -> Nat]
  BY ClockAssumption
<1>2. ahead' \in [Nodes -> Nat]
  BY <1>1 DEF Act, IInv, TypeOK
<1>3. open = Nodes \ DueNodes(ahead)
  BY DEF Act, IInv, OpenAhead
<1>4. open' = Nodes
  BY <1>3 DEF Act, DueNodes
<1>5. TypeOK'
  BY <1>2, <1>4 DEF Act, IInv, TypeOK, flags
<1> QED BY <1>4, <1>5 DEF Act, IInv, OpenAhead

LEMMA StepKeeps == ASSUME IInv, StepAndSync PROVE IInv'
<1>1. sum \in Nat /\ ahead \in [Nodes -> Nat]
  BY DEF IInv, TypeOK
<1>2. TimeLeft(sum) \in Nat
  BY <1>1, SumsNat
<1>3. sum' \in Nat
  BY <1>2, SumsNat DEF StepAndSync
<1>4. ahead' \in [Nodes -> Nat]
  BY <1>1, StepsNat, CatchUpType DEF StepAndSync
<1>5. TypeOK'
  BY <1>3, <1>4 DEF StepAndSync, IInv, TypeOK, flags
<1> QED BY <1>5 DEF StepAndSync, IInv, OpenAhead

LEMMA EndKeeps == ASSUME IInv, EndCycle PROVE IInv'
<1>1. open' = Nodes \ DueNodes(ahead)
  BY DEF EndCycle, IInv, OpenAhead
<1>2. ahead' = ahead /\ pc' = "loop"
  BY DEF EndCycle
<1>3. TypeOK'
  BY <1>1, <1>2 DEF EndCycle, IInv, TypeOK, flags
<1>4. DueNodes(ahead)' = DueNodes(ahead)
  BY <1>2 DEF DueNodes, Due
<1> QED BY <1>1, <1>2, <1>3, <1>4 DEF IInv, OpenAhead

(* Everything else leaves the nodes alone and stays between two cycles or  *)
(* within one.                                                             *)
LEMMA RestKeeps ==
  ASSUME IInv,
         StartRun \/ EnterLoop \/ BeginCycle \/ PausedCycle \/ LeaveLoop
           \/ Quit \/ Pause \/ Continue \/ UNCHANGED vars
  PROVE  IInv'
<1> DEFINE Inside == pc \in {"step", "end"}
<1>1. ahead' = ahead /\ open' = open /\ (Inside' <=> Inside)
  BY Zenon DEF StartRun, EnterLoop, BeginCycle, PausedCycle, LeaveLoop, Quit, Pause,
     Continue, vars, nodes, flags
<1>2. OpenAhead'
  BY <1>1 DEF IInv, OpenAhead, DueNodes, Due
<1>3. DueNodes(ahead) \subseteq Nodes
  BY DEF DueNodes
<1>4. sum' \in Nat
  <2>1. SyncedSums(0) \subseteq Nat
    BY SumsNat
  <2> QED BY <2>1 DEF IInv, TypeOK, StartRun, EnterLoop, BeginCycle, PausedCycle,
         LeaveLoop, Quit, Pause, Continue, vars, nodes, flags
<1>5. TypeOK'
  <2>1. CASE StartRun
    <3>1. /\ exit' \in BOOLEAN /\ running' \in BOOLEAN
          /\ paused' \in BOOLEAN /\ continue' \in BOOLEAN
      BY <2>1, Zenon DEF StartRun, IInv, TypeOK
    <3>2. runs' \in 0..MaxRuns
      BY <2>1, RunsAssumption DEF StartRun, IInv, TypeOK
    <3>3. live' \subseteq Nodes
      BY <1>3, <2>1 DEF StartRun, IInv, TypeOK
    <3>4. pc' = "init" /\ facade' = "RUNNING" /\ ahead' = ahead /\ open' = open
      BY <2>1 DEF StartRun
    <3>5. ahead \in [Nodes -> Nat] /\ open \subseteq Nodes
      BY DEF IInv, TypeOK
    <3> QED BY <1>4, <3>1, <3>2, <3>3, <3>4, <3>5 DEF TypeOK
  <2>2. CASE EnterLoop \/ BeginCycle \/ PausedCycle \/ LeaveLoop
    BY <1>3, <1>4, <2>2 DEF EnterLoop, BeginCycle, PausedCycle, LeaveLoop, IInv,
       TypeOK, flags, nodes
  <2>3. CASE Quit \/ Pause \/ Continue \/ UNCHANGED vars
    BY <1>4, <2>3 DEF Quit, Pause, Continue, vars, IInv, TypeOK, flags, nodes
  <2> QED BY <2>1, <2>2, <2>3
<1> QED BY <1>2, <1>5 DEF IInv

LEMMA NextIInv == ASSUME IInv, [Next]_vars PROVE IInv'
<1>1. CASE Act
  BY <1>1, ActKeeps
<1>2. CASE StepAndSync
  BY <1>2, StepKeeps
<1>3. CASE EndCycle
  BY <1>3, EndKeeps
<1>4. CASE StartRun \/ EnterLoop \/ BeginCycle \/ PausedCycle \/ LeaveLoop
             \/ Quit \/ Pause \/ Continue \/ UNCHANGED vars
  BY <1>4, RestKeeps
<1> QED BY <1>1, <1>2, <1>3, <1>4 DEF Next, Loop, Terminated

LEMMA Inductive == Spec => []IInv
<1>1. Init => IInv
  BY InitIInv
<1>2. IInv /\ [Next]_vars => IInv'
  BY NextIInv
<1> QED BY <1>1, <1>2, PTL DEF Spec

(* Type correctness of the single-threaded loop.                           *)
THEOREM TypeCorrect == Spec => []TypeOK
<1>1. IInv => TypeOK
  BY DEF IInv
<1> QED BY <1>1, Inductive, PTL

(* SimulationServer::ControlEvent reaches the nodes that are due when it   *)
(* is sent, and time moves on within a cycle; still CE_EndCycle finds only *)
(* nodes that acted, and CE_ActAgent none that waits for its end.          *)
THEOREM Alternate == Spec => []ActsAndEndsAlternate
<1>1. IInv => ActsAndEndsAlternate
  BY DEF IInv, OpenAhead, ActsAndEndsAlternate, DueNodes
<1> QED BY <1>1, Inductive, PTL
=============================================================================
