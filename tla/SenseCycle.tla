----------------------------- MODULE SenseCycle -----------------------------
(***************************************************************************)
(* What AgentControl::EndCycle promises to the rest of the server, without *)
(* threads and barriers: senses are generated only between its call and    *)
(* its return, once for every agent, and it returns when the senses of all *)
(* connected agents are there.  Agents come and are lost between the calls.*)
(***************************************************************************)
CONSTANT Agents

VARIABLES
  clients,  \* the connected agents
  busy,     \* EndCycle has been called and has not returned
  served    \* agents whose senses the last call has generated

vars == <<clients, busy, served>>

Init == clients = {} /\ busy = FALSE /\ served = {}

Connect(a) ==
  /\ ~busy
  /\ a \notin clients
  /\ clients' = clients \union {a}
  /\ UNCHANGED <<busy, served>>

(* The connections that were lost are closed; with nobody left EndCycle    *)
(* returns at once.                                                        *)
Call(lost) ==
  /\ ~busy
  /\ clients' = clients \ lost
  /\ served' = {}
  /\ busy' = (clients' # {})

Generate(a) ==
  /\ busy
  /\ a \notin served
  /\ served' = served \union {a}
  /\ UNCHANGED <<clients, busy>>

Return ==
  /\ busy
  /\ clients \subseteq served
  /\ busy' = FALSE
  /\ UNCHANGED <<clients, served>>

Next ==
  \/ \E a \in Agents : Connect(a) \/ Generate(a)
  \/ \E lost \in SUBSET clients : Call(lost)
  \/ Return

Spec == Init /\ [][Next]_vars
=============================================================================
