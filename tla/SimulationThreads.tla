------------------------- MODULE SimulationThreads --------------------------
(***************************************************************************)
(* The multi-threaded run loop of oxygen::SimulationServer                 *)
(* (RunMultiThreaded and SimControlThread): the main thread and one thread *)
(* per SimControlNode meet at one boost::barrier, three times in a normal  *)
(* cycle and twice in a paused one.  Each thread decides by itself, from   *)
(* shared flags it reads without a lock, which kind of cycle it is in.     *)
(*                                                                         *)
(* The flags are written by other threads: mCyclePaused and mContinueCycle *)
(* by the thread that calls carbon's SimSpark::Pause/Continue (a GUI), and *)
(* mExit by whoever calls Quit (a trainer command, SIGINT, the GUI).       *)
(***************************************************************************)
EXTENDS SimClock

CONSTANTS
  RenderControl,  \* the node called "RenderControl", or a value not in Nodes
  PauseWindow,    \* main-thread positions at which the GUI may pause
  MaxRuns         \* how often SimSpark::Run is called (bound)

ASSUME RunsAssumption == MaxRuns \in Nat

VARIABLES
  mpc,          \* position of the main thread
  npc,          \* position of each node's thread
  newCycle,     \* the thread's local newCycle
  exit,         \* mExit
  exitThreads,  \* mExitThreads
  paused,       \* mCyclePaused
  continue,     \* mContinueCycle
  facade,       \* mState of carbon's SimSpark
  sum,          \* mSumDeltaTime, in ticks
  ahead,        \* how far each node is ahead of mSimTime, in ticks
  open,         \* history: nodes that acted and had no EndCycle since
  runs          \* history: calls of SimSpark::Run

flags == <<exit, exitThreads, paused, continue, facade>>
clock == <<sum, ahead>>
vars == <<mpc, npc, newCycle, flags, clock, open, runs>>

Waits == {"wait1", "wait2", "wait3", "waitP1", "waitP2"}

MainPositions == Waits \union
  {"idle", "created", "top", "started", "stepping", "stepped", "rendering",
   "pausing", "join"}

NodePositions == Waits \union
  {"none", "top", "due", "acting", "ended", "ending", "idling", "waiting",
   "gone"}

TypeOK ==
  /\ mpc \in MainPositions
  /\ npc \in [Nodes -> NodePositions]
  /\ newCycle \in [Nodes -> BOOLEAN]
  /\ exit \in BOOLEAN
  /\ exitThreads \in BOOLEAN
  /\ paused \in BOOLEAN
  /\ continue \in BOOLEAN
  /\ facade \in {"INITIALIZED", "RUNNING", "PAUSED"}
  /\ sum \in Nat
  /\ ahead \in [Nodes -> Nat]
  /\ open \subseteq Nodes
  /\ runs \in 0..MaxRuns

(* A freshly constructed server.                                           *)
Init ==
  /\ mpc = "idle"
  /\ npc = [n \in Nodes |-> "none"]
  /\ newCycle = [n \in Nodes |-> FALSE]
  /\ exit = FALSE /\ exitThreads = FALSE
  /\ paused = FALSE /\ continue = FALSE
  /\ facade = "INITIALIZED"
  /\ sum = 0
  /\ ahead = [n \in Nodes |-> 0]
  /\ open = {}
  /\ runs = 0

Goto(n, position) == npc' = [npc EXCEPT ![n] = position]
-----------------------------------------------------------------------------
(* The main thread.                                                        *)

(* SimSpark::Run, SimulationServer::Run and Init up to the creation of the *)
(* node threads: the flags of the run are reset, all but mExitThreads.     *)
StartRun ==
  /\ mpc = "idle" /\ runs < MaxRuns
  /\ mpc' = "created"
  /\ npc' = [n \in Nodes |-> "top"]
  /\ newCycle' = [n \in Nodes |-> FALSE]
  /\ exit' = FALSE /\ paused' = FALSE /\ continue' = FALSE
  /\ facade' = "RUNNING"
  /\ runs' = runs + 1
  /\ UNCHANGED <<exitThreads, clock, open>>

(* mExitThreads is reset only now, when the node threads run already.      *)
EnterLoop ==
  /\ mpc = "created"
  /\ mpc' = "top"
  /\ exitThreads' = FALSE
  /\ UNCHANGED <<npc, newCycle, exit, paused, continue, facade, clock, open,
                 runs>>

(* Mutant: the main thread ends a pause at the top of its loop, when the   *)
(* node threads read mCyclePaused too.                                     *)
MainTopResumes ==
  /\ mpc = "top"
  /\ paused' = (paused /\ ~continue)
  /\ continue' = (continue /\ ~paused)
  /\ mpc' = IF exitThreads THEN "join" ELSE IF paused' THEN "waitP1" ELSE "wait1"
  /\ UNCHANGED <<npc, newCycle, exit, exitThreads, facade, clock, open, runs>>

MainTop ==
  /\ mpc = "top"
  /\ mpc' = IF exitThreads THEN "join" ELSE IF paused THEN "waitP1" ELSE "wait1"
  /\ UNCHANGED <<npc, newCycle, flags, clock, open, runs>>

(* Mutant: the main thread does not wait for the acts of the nodes.        *)
MainStartedNoWait ==
  /\ mpc = "started"
  /\ mpc' = "stepping"
  /\ exitThreads' = (exitThreads \/ exit)
  /\ UNCHANGED <<npc, newCycle, exit, paused, continue, facade, clock, open,
                 runs>>

(* mExit becomes mExitThreads between two barriers, so that every thread   *)
(* leaves in the same cycle.                                               *)
MainStarted ==
  /\ mpc = "started"
  /\ mpc' = "wait2"
  /\ exitThreads' = (exitThreads \/ exit)
  /\ UNCHANGED <<npc, newCycle, exit, paused, continue, facade, clock, open,
                 runs>>

(* The end of Step: mSimTime has moved on by the steps taken.              *)
Step ==
  /\ mpc = "stepping"
  /\ mpc' = "stepped"
  /\ sum' = TimeLeft(sum)
  /\ ahead' = CatchUp(ahead, StepsTaken(sum) * SimStep)
  /\ UNCHANGED <<npc, newCycle, flags, open, runs>>

(* SyncTime, and whether the RenderControl's EndCycle is called.           *)
Sync ==
  /\ mpc = "stepped"
  /\ sum' \in SyncedSums(sum)
  /\ mpc' = IF RenderControl \in Nodes /\ Due(ahead, RenderControl)
            THEN "rendering" ELSE "wait3"
  /\ UNCHANGED <<npc, newCycle, flags, ahead, open, runs>>

RenderEnd ==
  /\ mpc = "rendering"
  /\ mpc' = "wait3"
  /\ open' = open \ {RenderControl}
  /\ UNCHANGED <<npc, newCycle, flags, clock, runs>>

(* Mutant: a paused cycle does not look at mExit.                          *)
MainPausingNoExit ==
  /\ mpc = "pausing"
  /\ mpc' = "waitP2"
  /\ sum' \in SyncedSums(0)
  /\ paused' = ~continue
  /\ continue' = FALSE
  /\ UNCHANGED <<npc, newCycle, exit, exitThreads, facade, ahead, open, runs>>

(* WaitStep, SyncTime and the hand-over from mContinueCycle.               *)
MainPausing ==
  /\ mpc = "pausing"
  /\ mpc' = "waitP2"
  /\ exitThreads' = (exitThreads \/ exit)
  /\ sum' \in SyncedSums(0)
  /\ paused' = ~continue
  /\ continue' = FALSE
  /\ UNCHANGED <<npc, newCycle, exit, facade, ahead, open, runs>>

(* join_all, Done and the rest of SimSpark::Run.                           *)
Join ==
  /\ mpc = "join"
  /\ \A n \in Nodes : npc[n] = "gone"
  /\ mpc' = "idle"
  /\ npc' = [n \in Nodes |-> "none"]
  /\ facade' = "INITIALIZED"
  /\ UNCHANGED <<newCycle, exit, exitThreads, paused, continue, clock, open,
                 runs>>
-----------------------------------------------------------------------------
(* The thread of a node.                                                   *)

(* Mutant: the node's thread looks at mExit itself.                        *)
NodeTopExit(n) ==
  /\ npc[n] = "top"
  /\ Goto(n, IF exit THEN "gone" ELSE IF paused THEN "waitP1" ELSE "wait1")
  /\ UNCHANGED <<mpc, newCycle, flags, clock, open, runs>>

NodeTop(n) ==
  /\ npc[n] = "top"
  /\ Goto(n, IF exitThreads THEN "gone" ELSE IF paused THEN "waitP1" ELSE "wait1")
  /\ UNCHANGED <<mpc, newCycle, flags, clock, open, runs>>

NodeDue(n) ==
  /\ npc[n] = "due"
  /\ newCycle' = [newCycle EXCEPT ![n] = Due(ahead, n)]
  /\ Goto(n, IF Due(ahead, n) THEN "acting" ELSE "wait2")
  /\ UNCHANGED <<mpc, flags, clock, open, runs>>

(* StartCycle, SenseAgent and ActAgent are over; SetSimTime.               *)
FinishAct(n) ==
  /\ npc[n] = "acting"
  /\ Goto(n, "wait2")
  /\ ahead' = [ahead EXCEPT ![n] = NodeStep[n]]
  /\ open' = open \union {n}
  /\ UNCHANGED <<mpc, newCycle, flags, sum, runs>>

(* Mutant: the node ends a cycle it has not taken part in.                 *)
NodeEndedAlways(n) ==
  /\ npc[n] = "ended"
  /\ Goto(n, IF n # RenderControl THEN "ending" ELSE "top")
  /\ UNCHANGED <<mpc, newCycle, flags, clock, open, runs>>

NodeEnded(n) ==
  /\ npc[n] = "ended"
  /\ Goto(n, IF n # RenderControl /\ newCycle[n] THEN "ending" ELSE "top")
  /\ UNCHANGED <<mpc, newCycle, flags, clock, open, runs>>

FinishEnd(n) ==
  /\ npc[n] = "ending"
  /\ Goto(n, "top")
  /\ open' = open \ {n}
  /\ UNCHANGED <<mpc, newCycle, flags, clock, runs>>

BeginWait(n) ==
  /\ npc[n] = "idling"
  /\ Goto(n, "waiting")
  /\ UNCHANGED <<mpc, newCycle, flags, clock, open, runs>>

FinishWait(n) ==
  /\ npc[n] = "waiting"
  /\ Goto(n, "waitP2")
  /\ UNCHANGED <<mpc, newCycle, flags, clock, open, runs>>
-----------------------------------------------------------------------------
(* boost::barrier: the last of the threads to arrive releases them all.    *)
(* Where a thread goes on depends on which of its own waits it was in.     *)
MainAfter == [wait1 |-> "started", wait2 |-> "stepping", wait3 |-> "top",
              waitP1 |-> "pausing", waitP2 |-> "top"]

NodeAfter == [wait1 |-> "due", wait2 |-> "wait3", wait3 |-> "ended",
              waitP1 |-> "idling", waitP2 |-> "top"]

Barrier ==
  /\ mpc \in Waits /\ \A n \in Nodes : npc[n] \in Waits
  /\ mpc' = MainAfter[mpc]
  /\ npc' = [n \in Nodes |-> NodeAfter[npc[n]]]
  /\ UNCHANGED <<newCycle, flags, clock, open, runs>>
-----------------------------------------------------------------------------
(* Other threads.                                                          *)

Quit ==
  /\ mpc # "idle" /\ ~exit
  /\ exit' = TRUE
  /\ UNCHANGED <<mpc, npc, newCycle, exitThreads, paused, continue, facade,
                 clock, open, runs>>

(* SimSpark::Pause and PauseCycle(true).                                   *)
Pause ==
  /\ facade = "RUNNING" /\ mpc \in PauseWindow
  /\ paused' = TRUE
  /\ facade' = "PAUSED"
  /\ UNCHANGED <<mpc, npc, newCycle, exit, exitThreads, continue, clock, open,
                 runs>>

(* SimSpark::Continue and PauseCycle(false).                               *)
Continue ==
  /\ facade = "PAUSED"
  /\ continue' = TRUE
  /\ facade' = "RUNNING"
  /\ UNCHANGED <<mpc, npc, newCycle, exit, exitThreads, paused, clock, open,
                 runs>>

(* After the last run.                                                     *)
Terminated == mpc = "idle" /\ runs = MaxRuns /\ UNCHANGED vars
-----------------------------------------------------------------------------
MainThread ==
  \/ EnterLoop \/ MainTop \/ MainStarted \/ Step \/ Sync
  \/ RenderEnd \/ MainPausing \/ Join

NodeThread(n) ==
  \/ NodeTop(n) \/ NodeDue(n) \/ FinishAct(n) \/ NodeEnded(n) \/ FinishEnd(n)
  \/ BeginWait(n) \/ FinishWait(n)

Next ==
  \/ StartRun
  \/ MainThread
  \/ \E n \in Nodes : NodeThread(n)
  \/ Barrier
  \/ Quit \/ Pause \/ Continue
  \/ Terminated

Spec == Init /\ [][Next]_vars

(* Every thread is scheduled, handlers and Step return, and a barrier that *)
(* is complete opens.  Quit, Pause and Continue need not ever happen.      *)
FairSpec ==
  /\ Spec
  /\ WF_vars(MainThread)
  /\ \A n \in Nodes : WF_vars(NodeThread(n))
  /\ WF_vars(Barrier)
-----------------------------------------------------------------------------
(* Properties.                                                             *)

(* The handler a node is inside; the RenderControl's EndCycle runs on the   *)
(* main thread.                                                            *)
Doing(n) ==
  IF n = RenderControl /\ mpc = "rendering" THEN "ending"
  ELSE IF npc[n] \in {"acting", "ending", "waiting"} THEN npc[n]
  ELSE "nothing"

(* The scene is stepped only when every node has acted (or was found not   *)
(* to be due) and none is inside a handler: Step, which the main thread    *)
(* calls after "Wait for SimControlNodes' acts", has the scene for itself. *)
PhysicsAlone ==
  mpc = "stepping" =>
    \A n \in Nodes : Doing(n) = "nothing" /\ npc[n] \notin {"due", "ended"}

(* While the main thread passes the time of a paused cycle no node starts, *)
(* runs or ends a cycle of its own: a paused server does nothing.          *)
PausedIdles ==
  mpc = "pausing" =>
    \A n \in Nodes : npc[n] \notin {"due", "acting", "ended", "ending"}

(* No thread waits at the barrier for a thread that has left its loop: the *)
(* way mExit is copied to mExitThreads makes all of them leave together.   *)
LeaveTogether ==
  /\ mpc \in Waits => \A n \in Nodes : npc[n] # "gone"
  /\ mpc = "join" => \A n \in Nodes : npc[n] \notin Waits

(* The loop implements the cycle it promises its nodes.                    *)
Cycle == INSTANCE SimCycle WITH
           doing <- [n \in Nodes |-> Doing(n)],
           stepping <- mpc = "stepping"

CycleSpec == Cycle!Spec

(* A request to quit ends the run, paused or not.                          *)
QuitEndsRun == (exit /\ mpc # "idle") ~> (mpc = "idle")

(* Every node gets its turn again, however long its own step is, unless    *)
(* the server pauses or quits.                                             *)
NodesServed ==
  \A n \in Nodes : (mpc = "top") ~> (npc[n] = "acting" \/ paused \/ exit)
=============================================================================
