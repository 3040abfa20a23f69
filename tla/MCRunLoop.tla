----------------------------- MODULE MCRunLoop ------------------------------
(* Instances of RunLoop for TLC, with the steps spark.rb gives the nodes:  *)
(* agents 0.01 s, the default 0.02 s, monitors and rendering 0.04 s.       *)
EXTENDS RunLoop

CONSTANTS agents, input, monitor

AllNodes == {agents, input, monitor}
Steps == [n \in Nodes |-> CASE n = agents -> 1 [] n = input -> 2 [] OTHER -> 4]
OnTimeOrLate == {0, 1, 3}
=============================================================================
