---------------------------- MODULE AgentThreads ----------------------------
(***************************************************************************)
(* The agent threads of oxygen::AgentControl.  Every connected agent has a *)
(* thread that generates its senses while AgentControl::EndCycle, called   *)
(* by the thread of the AgentControl node (the master), waits: EndCycle    *)
(* meets the agent threads at a barrier before and after their work.       *)
(*                                                                         *)
(* A boost::barrier has a fixed size, so when an agent comes or goes a new *)
(* barrier is left in mThreadBarrierNew, and the next WaitMaster moves     *)
(* every thread from the old one to the new one.  Neither the pointers nor *)
(* nThreads are protected by a lock.                                       *)
(*                                                                         *)
(* Not modelled: the lifetime of the deleted barrier objects.              *)
(***************************************************************************)
EXTENDS Integers, FiniteSets

CONSTANTS
  Agents,       \* connections; one may be used again when its thread is gone
  MaxBarriers,  \* barrier objects that can be in use at once (bound)
  Spaced,       \* "come": no agent connects while a new barrier or a late
                \* thread is pending; "go": at most one is lost in a frame
  Prompt        \* threads come round from one EndCycle to the next in time

ASSUME AgentThreadsAssumption ==
  /\ "master" \notin Agents
  /\ IsFiniteSet(Agents)
  /\ MaxBarriers \in Nat \ {0}
  /\ Spaced \subseteq {"come", "go"} /\ Prompt \in BOOLEAN

Threads == Agents \union {"master"}
Barriers == 1..MaxBarriers

(* The positions of the master, of a running agent thread, and of one that *)
(* leaves, up to its last wait.                                            *)
MasterPlaces == {"frame", "check", "old", "new", "plain", "clear"}
LoopPlaces == {"start", "top", "wait", "compare", "waitNew", "act",
               "wait2", "compare2", "waitNew2"}
ExitPlaces == {"exit", "count", "make", "store"}
Everywhere ==
  MasterPlaces \union LoopPlaces \union ExitPlaces \union {"none", "last"}

VARIABLES
  pc,        \* position of every thread
  parked,    \* the barrier a thread waits at, 0 if none
  size,      \* the size of every barrier
  current,   \* mThreadBarrier
  next,      \* mThreadBarrierNew, 0 for NULL
  mine,      \* currentBarrier of every agent thread
  count,     \* nThreads as a leaving thread has read it to lower it
  made,      \* the barrier a leaving thread has made and not yet stored
  old,       \* oldBarrier of WaitMaster
  round,     \* which of its two WaitMaster calls EndCycle is in
  nThreads,  \* nThreads
  clients,   \* mClients
  closing,   \* mCloseClients
  served     \* history: agents whose senses this EndCycle has generated

barriers == <<size, current, next, mine, old>>
leave == <<count, made>>
vars == <<pc, parked, barriers, leave, round, nThreads, clients, closing,
          served>>

TypeOK ==
  /\ pc \in [Threads -> Everywhere]
  /\ parked \in [Threads -> 0..MaxBarriers]
  /\ size \in [Barriers -> 0..(Cardinality(Agents) + 1)]
  /\ current \in Barriers
  /\ next \in 0..MaxBarriers
  /\ mine \in [Agents -> 0..MaxBarriers]
  /\ count \in [Agents -> 0..Cardinality(Agents)]
  /\ made \in [Agents -> 0..MaxBarriers]
  /\ old \in 0..MaxBarriers
  /\ round \in {0, 1, 2}
  /\ nThreads \in 0..Cardinality(Agents)
  /\ clients \subseteq Agents
  /\ closing \subseteq clients
  /\ served \subseteq Agents

Init ==
  /\ pc = [t \in Threads |-> IF t = "master" THEN "frame" ELSE "none"]
  /\ parked = [t \in Threads |-> 0]
  /\ size = [b \in Barriers |-> IF b = 1 THEN 1 ELSE 0]
  /\ current = 1 /\ next = 0 /\ old = 0
  /\ mine = [a \in Agents |-> 0]
  /\ count = [a \in Agents |-> 0] /\ made = [a \in Agents |-> 0]
  /\ round = 0
  /\ nThreads = 0
  /\ clients = {} /\ closing = {} /\ served = {}
-----------------------------------------------------------------------------
(* boost::barrier.                                                         *)

(* A barrier object nobody refers to any more; allocation reuses it.       *)
Unused(b) ==
  /\ b \notin {current, next, old}
  /\ \A a \in Agents : (pc[a] # "none" => mine[a] # b) /\ made[a] # b
  /\ \A t \in Threads : parked[t] # b

FreshBarrier == CHOOSE b \in Barriers : Unused(b)

(* new barrier(n) is stored at once by ClientConnect.                      *)
NewBarrier(n) ==
  /\ \E b \in Barriers : Unused(b)
  /\ next' = FreshBarrier
  /\ size' = [size EXCEPT ![FreshBarrier] = n]

(* Mutant: a thread that was moved to the new barrier misses its task.     *)
AfterSkips == [old |-> "new", new |-> "clear", plain |-> "frame",
               wait |-> "compare", waitNew |-> "wait2", wait2 |-> "compare2",
               waitNew2 |-> "top", last |-> "none"]

(* Where a thread goes on after each of its waits.                         *)
After == [old |-> "new", new |-> "clear", plain |-> "frame",
          wait |-> "compare", waitNew |-> "act", wait2 |-> "compare2",
          waitNew2 |-> "top", last |-> "none"]

(* wait(): the last of the threads the barrier was made for releases all.  *)
Arrivals(t, b) == {u \in Threads : parked[u] = b} \union {t}

Wait(t, b) ==
  /\ parked[t] = 0 /\ b # 0
  /\ IF Cardinality(Arrivals(t, b)) = size[b]
     THEN /\ parked' = [u \in Threads |->
                          IF u \in Arrivals(t, b) THEN 0 ELSE parked[u]]
          /\ pc' = [u \in Threads |->
                      IF u \in Arrivals(t, b) THEN
                        IF pc[u] = "plain" /\ round = 1 THEN "check" ELSE After[pc[u]]
                      ELSE pc[u]]
          /\ round' = IF \E u \in Arrivals(t, b) : pc[u] = "plain"
                      THEN (round + 1) % 3 ELSE round
     ELSE /\ parked' = [parked EXCEPT ![t] = b]
          /\ UNCHANGED <<pc, round>>
-----------------------------------------------------------------------------
(* The master.                                                             *)

(* Threads that have not yet come to their first wait of the next EndCycle *)
(* or, their agent being gone, to their last wait.                         *)
Behind ==
  {a \in Agents : pc[a] \in {"start", "top", "compare2"} \union ExitPlaces}

(* ClientConnect: the thread starts with whatever mThreadBarrierNew is     *)
(* when it first reads it.  When agents come spaced no leaving thread is   *)
(* between its last accesses meanwhile, so that this is one step.          *)
ClientConnect(a) ==
  /\ pc["master"] = "frame"
  /\ a \notin clients /\ pc[a] = "none"
  /\ "come" \in Spaced => next = 0 /\ Behind = {}
  /\ clients' = clients \union {a}
  /\ nThreads' = nThreads + 1
  /\ NewBarrier(nThreads' + 1)
  /\ pc' = [pc EXCEPT ![a] = "start"]
  /\ UNCHANGED <<parked, current, mine, old, leave, round, closing, served>>

(* A read finds that the agent closed its connection.                      *)
ConnectionLost(a) ==
  /\ pc["master"] = "frame"
  /\ a \in clients \ closing
  /\ "go" \in Spaced => closing = {}
  /\ closing' = closing \union {a}
  /\ UNCHANGED <<pc, parked, barriers, leave, round, nThreads, clients, served>>

(* Mutant: the list of dead connections is not emptied.                    *)
BeginEndCycleKeeps ==
  /\ pc["master"] = "frame"
  /\ Prompt => Behind = {}
  /\ clients' = clients \ closing
  /\ served' = {}
  /\ IF clients' = {}
     THEN UNCHANGED <<pc, round>>
     ELSE pc' = [pc EXCEPT !["master"] = "check"] /\ round' = 1
  /\ UNCHANGED <<parked, barriers, leave, nThreads, closing>>

(* EndCycle up to its first WaitMaster: the dead connections are closed.   *)
BeginEndCycle ==
  /\ pc["master"] = "frame"
  /\ Prompt => Behind = {}
  /\ clients' = clients \ closing
  /\ closing' = {}
  /\ served' = {}
  /\ IF clients' = {}
     THEN UNCHANGED <<pc, round>>
     ELSE pc' = [pc EXCEPT !["master"] = "check"] /\ round' = 1
  /\ UNCHANGED <<parked, barriers, leave, nThreads>>

(* WaitMaster, as far as its first wait.                                   *)
WaitMaster ==
  /\ pc["master"] = "check"
  /\ IF next # 0
     THEN /\ old' = current /\ current' = next
          /\ pc' = [pc EXCEPT !["master"] = "old"]
     ELSE /\ pc' = [pc EXCEPT !["master"] = "plain"]
          /\ UNCHANGED <<old, current>>
  /\ UNCHANGED <<parked, size, next, mine, leave, round, nThreads, clients,
                 closing, served>>

MasterWait ==
  \/ pc["master"] = "old" /\ Wait("master", old)
  \/ pc["master"] \in {"new", "plain"} /\ Wait("master", current)

MasterWaits ==
  /\ MasterWait
  /\ UNCHANGED <<barriers, leave, nThreads, clients, closing, served>>

(* WaitMaster drops the old barrier and the request.                       *)
ClearRequest ==
  /\ pc["master"] = "clear"
  /\ old' = 0 /\ next' = 0
  /\ pc' = [pc EXCEPT !["master"] = IF round = 1 THEN "check" ELSE "frame"]
  /\ round' = (round + 1) % 3
  /\ UNCHANGED <<parked, size, current, mine, leave, nThreads, clients,
                 closing, served>>
-----------------------------------------------------------------------------
(* The thread of an agent.                                                 *)

StartThread(a) ==
  /\ pc[a] = "start"
  /\ mine' = [mine EXCEPT ![a] = next]
  /\ pc' = [pc EXCEPT ![a] = "top"]
  /\ UNCHANGED <<parked, size, current, next, old, leave, round, nThreads,
                 clients, closing, served>>

(* The socket is open as long as the agent is a client.                    *)
LoopTop(a) ==
  /\ pc[a] = "top"
  /\ pc' = [pc EXCEPT ![a] = IF a \in clients THEN "wait" ELSE "exit"]
  /\ UNCHANGED <<parked, barriers, leave, round, nThreads, clients, closing,
                 served>>

AgentWaits(a) ==
  /\ pc[a] \in {"wait", "waitNew", "wait2", "waitNew2", "last"}
  /\ Wait(a, mine[a])
  /\ UNCHANGED <<barriers, leave, nThreads, clients, closing, served>>

(* Mutant: a thread starts to work as soon as the old barrier opens.       *)
WaitSlaveCompareLate(a) ==
  /\ pc[a] \in {"compare", "compare2"}
  /\ mine' = [mine EXCEPT ![a] = current]
  /\ pc' = [pc EXCEPT ![a] =
              IF pc[a] = "compare" THEN "act"
              ELSE IF mine[a] # current THEN "act" ELSE "top"]
  /\ UNCHANGED <<parked, size, current, next, old, leave, round, nThreads,
                 clients, closing, served>>

(* WaitSlave after its first wait: has the barrier been replaced?          *)
WaitSlaveCompare(a) ==
  /\ pc[a] \in {"compare", "compare2"}
  /\ mine' = [mine EXCEPT ![a] = current]
  /\ pc' = [pc EXCEPT ![a] =
              IF mine[a] # current
              THEN IF pc[a] = "compare" THEN "waitNew" ELSE "waitNew2"
              ELSE IF pc[a] = "compare" THEN "act" ELSE "top"]
  /\ UNCHANGED <<parked, size, current, next, old, leave, round, nThreads,
                 clients, closing, served>>

(* EndCycle(client): the senses of this agent.                             *)
AgentEndCycle(a) ==
  /\ pc[a] = "act"
  /\ served' = served \union {a}
  /\ pc' = [pc EXCEPT ![a] = "wait2"]
  /\ UNCHANGED <<parked, barriers, leave, round, nThreads, clients, closing>>

(* A thread whose agent is gone lowers nThreads, makes a new barrier and   *)
(* leaves it in mThreadBarrierNew, all without a lock: each access to what *)
(* the threads share is a step.  (The test of mThreadBarrierNew only logs.) *)
ReadCount(a) ==
  /\ pc[a] = "exit"
  /\ count' = [count EXCEPT ![a] = nThreads]
  /\ pc' = [pc EXCEPT ![a] = "count"]
  /\ UNCHANGED <<parked, barriers, made, round, nThreads, clients, closing,
                 served>>

WriteCount(a) ==
  /\ pc[a] = "count"
  /\ nThreads' = count[a] - 1
  /\ count' = [count EXCEPT ![a] = 0]
  /\ pc' = [pc EXCEPT ![a] = "make"]
  /\ UNCHANGED <<parked, barriers, made, round, clients, closing, served>>

(* Mutant: the new barrier still has room for the thread that leaves.      *)
MakeBarrierRoomy(a) ==
  /\ pc[a] = "make"
  /\ \E b \in Barriers : Unused(b)
  /\ made' = [made EXCEPT ![a] = FreshBarrier]
  /\ size' = [size EXCEPT ![FreshBarrier] = nThreads + 2]
  /\ pc' = [pc EXCEPT ![a] = "store"]
  /\ UNCHANGED <<parked, current, next, mine, old, count, round, nThreads,
                 clients, closing, served>>

MakeBarrier(a) ==
  /\ pc[a] = "make"
  /\ \E b \in Barriers : Unused(b)
  /\ made' = [made EXCEPT ![a] = FreshBarrier]
  /\ size' = [size EXCEPT ![FreshBarrier] = nThreads + 1]
  /\ pc' = [pc EXCEPT ![a] = "store"]
  /\ UNCHANGED <<parked, current, next, mine, old, count, round, nThreads,
                 clients, closing, served>>

StoreBarrier(a) ==
  /\ pc[a] = "store"
  /\ next' = made[a]
  /\ made' = [made EXCEPT ![a] = 0]
  /\ pc' = [pc EXCEPT ![a] = "last"]
  /\ UNCHANGED <<parked, size, current, mine, old, count, round, nThreads,
                 clients, closing, served>>

ExitThread(a) ==
  ReadCount(a) \/ WriteCount(a) \/ MakeBarrier(a) \/ StoreBarrier(a)
-----------------------------------------------------------------------------
MasterStep ==
  BeginEndCycle \/ WaitMaster \/ MasterWaits \/ ClearRequest

AgentStep(a) ==
  \/ StartThread(a) \/ LoopTop(a) \/ AgentWaits(a) \/ WaitSlaveCompare(a)
  \/ AgentEndCycle(a) \/ ExitThread(a)

Next ==
  \/ MasterStep
  \/ \E a \in Agents : AgentStep(a) \/ ClientConnect(a) \/ ConnectionLost(a)

Spec == Init /\ [][Next]_vars
-----------------------------------------------------------------------------
(* Properties.                                                             *)

(* Whatever the barriers, EndCycle keeps its promise: no agent thread      *)
(* works while the master has agents, parser and scene for itself, none    *)
(* works twice in one EndCycle, and when EndCycle returns the senses of    *)
(* every connected agent are fresh.                                        *)
Senses == INSTANCE SenseCycle WITH busy <- (pc["master"] # "frame")
SenseSpec == Senses!Spec

(* The threads never all wait for one another: with agents coming and      *)
(* going, the barriers are never made for more threads than will come.     *)
(* (WaitMaster, WaitSlave and the two places that make a barrier.)         *)
SomebodyRuns == \E t \in Threads : pc[t] # "none" /\ parked[t] = 0

(* The barrier that counts next has room for the master and every thread   *)
(* that will come to it, at every moment of a change.                      *)
BarrierFits ==
  size[IF next # 0 THEN next ELSE current] =
    Cardinality({a \in Agents : pc[a] \notin {"none", "last"}}) + 1
=============================================================================
