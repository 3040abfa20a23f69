------------------------ MODULE MCSimulationThreads -------------------------
(* Instances of SimulationThreads for TLC, with the steps spark.rb gives   *)
(* the nodes of a server: agents 0.01 s, monitors and rendering 0.04 s.    *)
EXTENDS SimulationThreads

CONSTANTS agents, monitor, render

TwoNodes == {agents, render}
ThreeNodes == {agents, monitor, render}

Steps == [n \in Nodes |-> IF n = agents THEN 1 ELSE 4]

OnTime == {0}
OnTimeOrLate == {0, 3}

(* Positions of the main thread at which no node's thread is about to read *)
(* mCyclePaused.                                                           *)
Settled == {"started", "wait2", "stepping", "stepped", "rendering", "wait3",
            "pausing", "waitP2"}
Anywhere == MainPositions \ {"idle"}
Never == {}
=============================================================================
