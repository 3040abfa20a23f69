------------------------------ MODULE SimCycle ------------------------------
(***************************************************************************)
(* What a run loop of oxygen::SimulationServer promises to its             *)
(* SimControlNodes and to the physics engine, without threads, barriers or *)
(* clocks:                                                                 *)
(*   - a node's cycle (StartCycle, SenseAgent, ActAgent) and its EndCycle  *)
(*     alternate, and a node is in one handler at a time (WaitCycle, which *)
(*     a paused server calls, may come in between);                        *)
(*   - the scene is stepped while no node is inside a handler.             *)
(***************************************************************************)
CONSTANT Nodes

VARIABLES
  doing,     \* the handler every node is inside
  open,      \* nodes that have acted and have not seen EndCycle since
  stepping   \* the scene is being stepped

vars == <<doing, open, stepping>>

Init == doing = [n \in Nodes |-> "nothing"] /\ open = {} /\ stepping = FALSE

Enter(n, handler) ==
  /\ ~stepping
  /\ doing[n] = "nothing"
  /\ doing' = [doing EXCEPT ![n] = handler]
  /\ UNCHANGED <<open, stepping>>

Leave(n, handler) ==
  /\ doing[n] = handler
  /\ doing' = [doing EXCEPT ![n] = "nothing"]
  /\ UNCHANGED stepping

BeginAct(n)   == n \notin open /\ Enter(n, "acting")
FinishAct(n)  == Leave(n, "acting") /\ open' = open \union {n}

BeginEnd(n)   == n \in open /\ Enter(n, "ending")
FinishEnd(n)  == Leave(n, "ending") /\ open' = open \ {n}

BeginWait(n)  == Enter(n, "waiting")
FinishWait(n) == Leave(n, "waiting") /\ UNCHANGED open

BeginStep ==
  /\ \A n \in Nodes : doing[n] = "nothing"
  /\ ~stepping
  /\ stepping' = TRUE
  /\ UNCHANGED <<doing, open>>

FinishStep ==
  /\ stepping
  /\ stepping' = FALSE
  /\ UNCHANGED <<doing, open>>

Next ==
  \/ \E n \in Nodes :
        \/ BeginAct(n) \/ FinishAct(n)
        \/ BeginEnd(n) \/ FinishEnd(n)
        \/ BeginWait(n) \/ FinishWait(n)
  \/ BeginStep
  \/ FinishStep

Spec == Init /\ [][Next]_vars
=============================================================================
