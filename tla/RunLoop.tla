------------------------------ MODULE RunLoop -------------------------------
(***************************************************************************)
(* The single-threaded run loop of oxygen::SimulationServer (Run, Cycle,   *)
(* ControlEvent, Done) below carbon's SimSpark facade.  One thread calls   *)
(* the handlers of all SimControlNodes and the physics in turn; the only   *)
(* concurrency left is the GUI, which pauses and continues, and whoever    *)
(* calls Quit.                                                             *)
(*                                                                         *)
(* Every control event goes only to the nodes that are not ahead of the    *)
(* simulation time.  That is what gives the nodes their own step sizes,    *)
(* and it holds for Init and Done too.                                     *)
(***************************************************************************)
EXTENDS SimClock

CONSTANT MaxRuns   \* how often SimSpark::Run is called (bound)

ASSUME RunsAssumption == MaxRuns \in Nat

VARIABLES
  pc,         \* position in the run loop
  exit,       \* mExit
  running,    \* mRunning
  paused,     \* mCyclePaused
  continue,   \* mContinueCycle
  facade,     \* mState of carbon's SimSpark
  sum,        \* mSumDeltaTime, in ticks
  ahead,      \* how far each node is ahead of mSimTime, in ticks
  live,       \* nodes between InitSimulation and DoneSimulation
  open,       \* history: nodes that acted and had no EndCycle since
  runs        \* history: calls of SimSpark::Run

flags == <<exit, running, paused, continue, facade>>
nodes == <<ahead, live, open>>
vars == <<pc, flags, sum, nodes, runs>>

TypeOK ==
  /\ pc \in {"idle", "init", "loop", "act", "step", "end", "pausing"}
  /\ exit \in BOOLEAN
  /\ running \in BOOLEAN
  /\ paused \in BOOLEAN
  /\ continue \in BOOLEAN
  /\ facade \in {"INITIALIZED", "RUNNING", "PAUSED"}
  /\ sum \in Nat
  /\ ahead \in [Nodes -> Nat]
  /\ live \subseteq Nodes
  /\ open \subseteq Nodes
  /\ runs \in 0..MaxRuns

Init ==
  /\ pc = "idle"
  /\ exit = FALSE /\ running = FALSE /\ paused = FALSE /\ continue = FALSE
  /\ facade = "INITIALIZED"
  /\ sum = 0
  /\ ahead = [n \in Nodes |-> 0]
  /\ live = {} /\ open = {}
  /\ runs = 0

(* The nodes a control event reaches.                                      *)
DueNodes(a) == {n \in Nodes : Due(a, n)}
-----------------------------------------------------------------------------
(* SimSpark::Run and SimulationServer::Init.                               *)
StartRun ==
  /\ pc = "idle" /\ runs < MaxRuns
  /\ pc' = "init"
  /\ exit' = FALSE /\ running' = FALSE /\ paused' = FALSE
  /\ facade' = "RUNNING"
  /\ live' = live \union DueNodes(ahead)
  /\ runs' = runs + 1
  /\ UNCHANGED <<continue, sum, ahead, open>>

(* The rest of SimulationServer::Run before the loop.                      *)
EnterLoop ==
  /\ pc = "init"
  /\ pc' = "loop"
  /\ running' = TRUE /\ paused' = FALSE /\ continue' = FALSE
  /\ UNCHANGED <<exit, facade, sum, nodes, runs>>

(* The head of the loop and of Cycle.                                      *)
BeginCycle ==
  /\ pc = "loop" /\ ~exit
  /\ pc' = IF paused THEN "pausing" ELSE "act"
  /\ UNCHANGED <<flags, sum, nodes, runs>>

(* CE_StartCycle, CE_SenseAgent and CE_ActAgent, the last with SetSimTime. *)
Act ==
  /\ pc = "act"
  /\ pc' = "step"
  /\ open' = open \union DueNodes(ahead)
  /\ ahead' = [n \in Nodes |-> IF n \in DueNodes(ahead) THEN NodeStep[n]
                                                       ELSE ahead[n]]
  /\ UNCHANGED <<flags, sum, live, runs>>

(* Step and SyncTime.                                                      *)
StepAndSync ==
  /\ pc = "step"
  /\ pc' = "end"
  /\ ahead' = CatchUp(ahead, StepsTaken(sum) * SimStep)
  /\ sum' \in SyncedSums(TimeLeft(sum))
  /\ UNCHANGED <<flags, live, open, runs>>

(* Mutant: a request to quit suppresses the end of the cycle.              *)
EndCycleUnlessQuit ==
  /\ pc = "end"
  /\ pc' = "loop"
  /\ open' = IF exit THEN open ELSE open \ DueNodes(ahead)
  /\ UNCHANGED <<flags, sum, ahead, live, runs>>

(* CE_EndCycle.                                                            *)
EndCycle ==
  /\ pc = "end"
  /\ pc' = "loop"
  /\ open' = open \ DueNodes(ahead)
  /\ UNCHANGED <<flags, sum, ahead, live, runs>>

(* Mutant: a paused cycle ends the pause only when the server quits.       *)
PausedCycleForever ==
  /\ pc = "pausing"
  /\ pc' = "loop"
  /\ sum' \in SyncedSums(0)
  /\ paused' = ~(continue /\ exit)
  /\ continue' = FALSE
  /\ UNCHANGED <<exit, running, facade, nodes, runs>>

(* CE_WaitCycle, WaitStep, SyncTime and the hand-over from mContinueCycle. *)
PausedCycle ==
  /\ pc = "pausing"
  /\ pc' = "loop"
  /\ sum' \in SyncedSums(0)
  /\ paused' = ~continue
  /\ continue' = FALSE
  /\ UNCHANGED <<exit, running, facade, nodes, runs>>

(* The end of Run, Done and the end of SimSpark::Run.                      *)
LeaveLoop ==
  /\ pc = "loop" /\ exit
  /\ pc' = "idle"
  /\ running' = FALSE
  /\ live' = live \ DueNodes(ahead)
  /\ facade' = "INITIALIZED"
  /\ UNCHANGED <<exit, paused, continue, sum, ahead, open, runs>>
-----------------------------------------------------------------------------
Quit ==
  /\ pc # "idle" /\ ~exit
  /\ exit' = TRUE
  /\ UNCHANGED <<pc, running, paused, continue, facade, sum, nodes, runs>>

(* SimSpark::Pause; PauseCycle does nothing before the loop is entered.    *)
Pause ==
  /\ facade = "RUNNING"
  /\ paused' = (paused \/ running)
  /\ facade' = "PAUSED"
  /\ UNCHANGED <<pc, exit, running, continue, sum, nodes, runs>>

(* SimSpark::Continue.                                                     *)
Continue ==
  /\ facade = "PAUSED"
  /\ continue' = (continue \/ running)
  /\ facade' = "RUNNING"
  /\ UNCHANGED <<pc, exit, running, paused, sum, nodes, runs>>

(* After the last run.                                                     *)
Terminated == pc = "idle" /\ runs = MaxRuns /\ UNCHANGED vars
-----------------------------------------------------------------------------
Loop ==
  \/ EnterLoop \/ BeginCycle \/ Act \/ StepAndSync \/ EndCycle \/ PausedCycle
  \/ LeaveLoop

Next == StartRun \/ Loop \/ Quit \/ Pause \/ Continue \/ Terminated

Spec == Init /\ [][Next]_vars

(* Handlers, physics and timer return; nobody has to quit or continue.     *)
FairSpec == Spec /\ WF_vars(Loop)
-----------------------------------------------------------------------------
(* Properties.                                                             *)

(* A node that acts has seen the EndCycle of its last act, and EndCycle    *)
(* goes to a node only after an act, although both reach a node in other   *)
(* cycles than its neighbours, several runs and pauses included.           *)
ActsAndEndsAlternate ==
  /\ pc = "act" => DueNodes(ahead) \intersect open = {}
  /\ pc = "end" => DueNodes(ahead) \subseteq open

(* A Continue the server has not acted on yet ends the pause.              *)
ContinueEndsPause == (paused /\ continue) ~> (~paused \/ ~running)
=============================================================================
