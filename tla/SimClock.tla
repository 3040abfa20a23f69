------------------------------ MODULE SimClock ------------------------------
(***************************************************************************)
(* The clock arithmetic of oxygen::SimulationServer, shared by its two     *)
(* run loops.  Times are counted in ticks of 0.01 s.  The server keeps the *)
(* simulation time and, per SimControlNode, the time up to which the node  *)
(* has been served; only their difference is ever compared, so the models  *)
(* keep ahead[n], how far node n is ahead of the simulation time, clipped  *)
(* at zero (a node that lags is due just as one that is level).            *)
(***************************************************************************)
EXTENDS Integers

CONSTANTS
  Nodes,             \* the SimControlNodes linked below the server
  NodeStep,          \* mStep of every node, in ticks
  SimStep,           \* mSimStep of the server, in ticks
  AdjustSpeed,       \* mAdjustSpeed
  MaxStepsPerCycle,  \* mMaxStepsPerCycle
  Lags               \* ticks by which a cycle may overrun its SimStep;
                     \* {0} is the server's own clock (mAutoTime)

ASSUME ClockAssumption ==
  /\ SimStep \in Nat \ {0}
  /\ NodeStep \in [Nodes -> Nat \ {0}]
  /\ AdjustSpeed \in BOOLEAN
  /\ MaxStepsPerCycle \in Nat \ {0}
  /\ Lags \subseteq Nat
  /\ 0 \in Lags

(* Physics steps one call of Step performs on the accumulated time.  With  *)
(* the speed adjustment a backlog of more than MaxStepsPerCycle steps is   *)
(* dropped after the first one.                                            *)
DropsBacklog(sum) == AdjustSpeed /\ sum > MaxStepsPerCycle * SimStep

StepsTaken(sum) == IF DropsBacklog(sum) THEN 1 ELSE sum \div SimStep

TimeLeft(sum) == IF DropsBacklog(sum) THEN 0 ELSE sum % SimStep

(* Mutant: a node that lags stays behind.                                  *)
CatchUpUnclipped(ahead, t) == [n \in Nodes |-> ahead[n] - t]

(* The simulation time moved on by t: every node is that much less ahead.  *)
CatchUp(ahead, t) ==
  [n \in Nodes |-> IF ahead[n] > t THEN ahead[n] - t ELSE 0]

(* Mutant: the time since the last query is not added.                     *)
SyncedSumsNone(sum) == {sum}

(* SyncTime waits until SimStep has passed since the last query and adds   *)
(* all the time that really passed.                                        *)
SyncedSums(sum) ==
  {(IF sum > SimStep THEN sum ELSE SimStep) + lag : lag \in Lags}

(* A node takes part in a control event unless it is ahead of the clock.   *)
Due(ahead, n) == ahead[n] = 0
=============================================================================
