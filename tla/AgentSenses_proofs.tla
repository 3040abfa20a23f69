------------------------- MODULE AgentSenses_proofs -------------------------
(***************************************************************************)
(* How agents get their senses, for every set of agents.                   *)
(*                                                                         *)
(* First what they hear, for all capacities that satisfy the assumptions:  *)
(* the shares, and that the first message stays.                           *)
(*                                                                         *)
(* Then the threads that generate the senses.  The barriers work while at  *)
(* most one agent comes and one goes in a frame (Spaced) and threads come  *)
(* round in time (Prompt): nobody waits for ever, and EndCycle implements  *)
(* SenseCycle.  The invariant knows for every barrier the crew it was made *)
(* for, and that no two threads count down at once.                        *)
(***************************************************************************)
EXTENDS HearChannel, AgentThreads, FiniteSetTheorems, TLAPS

(* The capacity and what the messages heard cost add up to no more than    *)
(* the highest capacity, and an ear whose box is full cannot afford        *)
(* another message.                                                        *)
EarOk(e) ==
  /\ cap[e] \in 0..Most
  /\ due[e] \in Nat
  /\ cap[e] + due[e] <= Most
  /\ box[e] => cap[e] + HearDecay <= Most

HearInv == HearTypeOK /\ \A e \in Ears : EarOk(e)

LEMMA Numbers ==
  /\ HearMax \in Nat /\ HearInc \in Nat /\ HearDecay \in Nat /\ Most \in Nat
  /\ HearMax >= 1 /\ HearInc >= 1 /\ HearDecay >= 1
  /\ Most = HearMax + HearInc - 1
  /\ Most < 2 * HearDecay /\ HearDecay <= HearMax
BY HearNumbers, HearShares DEF Most

(* Initially, and in every step, each ear keeps to its account.            *)
LEMMA HearInitially == HearInit => HearInv
<1> SUFFICES ASSUME HearInit PROVE HearInv
  OBVIOUS
<1>1. HearTypeOK
  <2>1. team \in [Players -> Sides \union {"absent", "none"}]
    BY DEF HearInit
  <2> QED BY <2>1, Numbers DEF HearInit, HearTypeOK
<1>2. \A e \in Ears : EarOk(e)
  BY Numbers DEF HearInit, EarOk
<1> QED BY <1>1, <1>2 DEF HearInv

LEMMA SayKeeps ==
  ASSUME HearInv, NEW s \in Players, NEW near, Say(s, near)
  PROVE  HearInv'
<1> USE Numbers
<1>1. HearTypeOK'
  <2>1. team' \in [Players -> Sides \union {"absent", "none"}]
    BY DEF Say, HearInv, HearTypeOK
  <2>2. self' \in [Players -> BOOLEAN]
    BY Zenon DEF Say
  <2>3. box' \in [Ears -> BOOLEAN]
    BY Zenon DEF Say
  <2>4. cap' \in [Ears -> Int] /\ due' \in [Ears -> Nat]
    BY DEF Say, HearInv, HearTypeOK
  <2> QED BY <2>1, <2>2, <2>3, <2>4 DEF HearTypeOK
<1>2. ASSUME NEW e \in Ears PROVE EarOk(e)'
  <2>1. EarOk(e)
    BY DEF HearInv
  <2>2. CASE e \in Accepted(s, near)
    <3>1. cap[e] >= HearDecay
      BY <2>2 DEF Accepted
    <3>2. cap'[e] = cap[e] - HearDecay /\ due'[e] = due[e] + HearDecay
      BY <2>2 DEF Say
    <3> QED BY <2>1, <3>1, <3>2 DEF EarOk
  <2>3. CASE e \notin Accepted(s, near)
    <3>1. cap'[e] = cap[e] /\ due'[e] = due[e]
      BY <2>3 DEF Say
    <3>2. box'[e] = (box[e] \/ e \in Accepted(s, near))
      BY Zenon DEF Say
    <3>3. box'[e] => box[e]
      BY <2>3, <3>2, Zenon
    <3> QED BY <2>1, <3>1, <3>3 DEF EarOk
  <2> QED BY <2>2, <2>3
<1> QED BY <1>1, <1>2 DEF HearInv, Ears

LEMMA SenseKeeps ==
  ASSUME HearInv, NEW p \in Players, Sense(p)
  PROVE  HearInv'
<1> USE Numbers
<1>0. \A e \in Ears : Restored(e) \in Int
  BY DEF HearInv, HearTypeOK, Restored
<1>1. HearTypeOK'
  <2>1. team' \in [Players -> Sides \union {"absent", "none"}]
    BY DEF Sense, HearInv, HearTypeOK
  <2>2. self' \in [Players -> BOOLEAN]
    BY DEF Sense, HearInv, HearTypeOK
  <2>3. box' \in [Ears -> BOOLEAN]
    BY Zenon DEF Sense
  <2>4. cap' \in [Ears -> Int]
    BY <1>0 DEF Sense, HearInv, HearTypeOK
  <2>5. due' \in [Ears -> Nat]
    BY DEF Sense, HearInv, HearTypeOK
  <2> QED BY <2>1, <2>2, <2>3, <2>4, <2>5 DEF HearTypeOK
<1>2. ASSUME NEW e \in Ears PROVE EarOk(e)'
  <2>1. EarOk(e)
    BY DEF HearInv
  <2>2. box'[e] = (box[e] /\ e[1] # p)
    BY Zenon DEF Sense
  <2>3. CASE e[1] = p
    <3>1. ~box'[e]
      BY <2>2, <2>3, Zenon
    <3>2. /\ cap'[e] = Restored(e)
          /\ due'[e] = IF due[e] < HearInc THEN 0 ELSE due[e] - HearInc
      BY <2>3 DEF Sense
    <3> QED BY <2>1, <3>1, <3>2 DEF EarOk, Restored
  <2>4. CASE e[1] # p
    <3>1. cap'[e] = cap[e] /\ due'[e] = due[e]
      BY <2>4 DEF Sense
    <3>2. box'[e] => box[e]
      BY <2>2, Zenon
    <3> QED BY <2>1, <3>1, <3>2 DEF EarOk
  <2> QED BY <2>3, <2>4
<1> QED BY <1>1, <1>2 DEF HearInv, Ears

LEMMA LeaveKeeps ==
  ASSUME HearInv, NEW p \in Players, Leave(p)
  PROVE  HearInv'
<1> USE Numbers
<1>1. HearTypeOK'
  <2>1. team' \in [Players -> Sides \union {"absent", "none"}]
    BY DEF Leave, HearInv, HearTypeOK
  <2>2. self' \in [Players -> BOOLEAN]
    BY DEF Leave, HearInv, HearTypeOK
  <2>3. box' \in [Ears -> BOOLEAN]
    BY Zenon DEF Leave
  <2>4. cap' \in [Ears -> Int] /\ due' \in [Ears -> Nat]
    BY DEF Leave, HearInv, HearTypeOK
  <2> QED BY <2>1, <2>2, <2>3, <2>4 DEF HearTypeOK
<1>2. ASSUME NEW e \in Ears PROVE EarOk(e)'
  <2>1. EarOk(e)
    BY DEF HearInv
  <2>2. box'[e] = (box[e] /\ e[1] # p)
    BY Zenon DEF Leave
  <2>3. CASE e[1] = p
    <3>1. ~box'[e]
      BY <2>2, <2>3, Zenon
    <3>2. cap'[e] = HearMax /\ due'[e] = 0
      BY <2>3 DEF Leave
    <3> QED BY <3>1, <3>2 DEF EarOk
  <2>4. CASE e[1] # p
    <3>1. cap'[e] = cap[e] /\ due'[e] = due[e]
      BY <2>4 DEF Leave
    <3>2. box'[e] => box[e]
      BY <2>2, Zenon
    <3> QED BY <2>1, <3>1, <3>2 DEF EarOk
  <2> QED BY <2>3, <2>4
<1> QED BY <1>1, <1>2 DEF HearInv, Ears

LEMMA HearKeeps == HearInv /\ [HearNext]_hearVars => HearInv'
<1> SUFFICES ASSUME HearInv, [HearNext]_hearVars PROVE HearInv'
  OBVIOUS
<1>1. ASSUME NEW p \in Players, NEW near \in SUBSET Players, Say(p, near) PROVE HearInv'
  BY <1>1, SayKeeps
<1>2. ASSUME NEW p \in Players, Sense(p) PROVE HearInv'
  BY <1>2, SenseKeeps
<1>3. ASSUME NEW p \in Players, Create(p) PROVE HearInv'
  BY <1>3 DEF Create, HearInv, HearTypeOK, EarOk, Ears, Most
<1>4. ASSUME NEW p \in Players, NEW side \in Sides, Register(p, side) PROVE HearInv'
  BY <1>4 DEF Register, HearInv, HearTypeOK, EarOk, Ears, Most
<1>5. ASSUME NEW p \in Players, Leave(p) PROVE HearInv'
  BY <1>5, LeaveKeeps
<1>6. ASSUME UNCHANGED hearVars PROVE HearInv'
  BY <1>6 DEF hearVars, HearInv, HearTypeOK, EarOk, Ears, Most
<1> QED BY <1>1, <1>2, <1>3, <1>4, <1>5, <1>6 DEF HearNext

(* The inductive invariant, for all players and capacities.                *)
THEOREM HearAlways == HearSpec => []HearInv
<1> QED BY HearInitially, HearKeeps, PTL DEF HearSpec

(* The types.                                                              *)
THEOREM HearTypes == HearSpec => []HearTypeOK
<1>1. HearInv => HearTypeOK
  BY DEF HearInv
<1> QED BY <1>1, HearAlways, PTL

(* No player hears more of one team than its share (AddMessage,            *)
(* GetMessage), however the players speak, sense, come and go.             *)
THEOREM Shares == HearSpec => []SharesKept
<1>1. HearInv => SharesKept
  BY Numbers DEF HearInv, EarOk, SharesKept
<1> QED BY <1>1, HearAlways, PTL

(* AddMessage overwrites no message that was not sensed, although it does  *)
(* not look at the box.                                                    *)
THEOREM FirstMessageStays == HearSpec => NothingOverwritten
<1>1. ASSUME HearInv, [HearNext]_hearVars, NEW e \in Ears, cap'[e] < cap[e], team'[e[1]] # "absent"
      PROVE  ~box[e]
  <2> USE Numbers
  <2>1. EarOk(e)
    BY <1>1 DEF HearInv
  <2>2. ASSUME NEW s \in Players, NEW near \in SUBSET Players, Say(s, near) PROVE ~box[e]
    <3>1. e \in Accepted(s, near)
      BY <1>1, <2>1, <2>2 DEF Say, EarOk
    <3> QED BY <2>1, <3>1 DEF Accepted, EarOk
  <2>3. ASSUME NEW p \in Players, Sense(p) PROVE ~box[e]
    BY <1>1, <2>1, <2>3 DEF Sense, Restored, EarOk
  <2>4. ASSUME NEW p \in Players, Leave(p) PROVE ~box[e]
    <3>1. CASE e[1] = p
      BY <1>1, <2>4, <3>1 DEF Leave, HearInv, HearTypeOK, Present
    <3>2. CASE e[1] # p
      BY <1>1, <2>1, <2>4, <3>2 DEF Leave, EarOk
    <3> QED BY <3>1, <3>2
  <2>5. ASSUME UNCHANGED cap PROVE ~box[e]
    BY <1>1, <2>1, <2>5 DEF EarOk
  <2> QED BY <1>1, <2>2, <2>3, <2>4, <2>5 DEF HearNext, Create, Register, hearVars
<1>2. HearInv /\ [HearNext]_hearVars =>
        [\A e \in Ears : cap'[e] < cap[e] /\ team'[e[1]] # "absent" => ~box[e]]_hearVars
  BY <1>1
<1> QED BY <1>2, HearAlways, PTL DEF HearSpec, NothingOverwritten

-----------------------------------------------------------------------------
USE DEF MasterPlaces, LoopPlaces, ExitPlaces, Everywhere

(* The agents with a thread, those whose thread will be there after the    *)
(* next change of barriers, those of them whose agent is gone, those who   *)
(* have lowered nThreads, and those who know their barrier.                *)
Attached == {a \in Agents : pc[a] # "none"}
Staying == {a \in Agents : pc[a] \notin {"none", "last"}}
Leaving == {a \in Staying : a \notin clients}
Counted == {a \in Agents : pc[a] \in {"make", "store"}}
Started == {a \in Agents : pc[a] \notin {"none", "start"}}

(* While a change of barriers is pending or under way, the barrier the     *)
(* threads meet at first, and the agents it was made for.                  *)
Changing == pc["master"] \in {"frame", "check", "old"}
Coming   == IF pc["master"] = "old" THEN old ELSE current
Users(b) == {a \in Started : mine[a] = b}
Crew(b)  == IF Changing /\ b = Coming THEN Users(b) ELSE Staying

(* An agent whose thread has not met the others yet.                       *)
Newcomer(a) == pc[a] = "start" \/ (pc[a] \in {"top", "wait"} /\ mine[a] # current)

(* Where the agent threads can be while the master is in its place.        *)
Places ==
  CASE pc["master"] = "frame" ->
         {"none", "start", "top", "wait", "compare2", "last"} \union ExitPlaces
    [] pc["master"] \in {"check", "old"} /\ round = 1 -> {"none", "wait", "last"}
    [] pc["master"] = "plain" /\ round = 1 -> {"none", "wait"}
    [] pc["master"] = "new" -> {"none", "compare", "waitNew", "wait"}
    [] OTHER -> {"none", "compare", "act", "wait2"}

Positions ==
  /\ pc["master"] \in {"frame", "check", "old", "new", "plain", "clear"}
  /\ pc["master"] = "frame" <=> round = 0
  /\ pc["master"] \in {"old", "new", "clear"} => round = 1
  /\ \A a \in Agents : pc[a] \in Places

Pointers ==
  /\ pc["master"] = "plain" \/ round = 2 => next = 0
  /\ IF pc["master"] \in {"old", "new", "clear"}
     THEN next = current /\ old \in Barriers /\ old # current
     ELSE old = 0 /\ next # current

Mine ==
  /\ \A a \in Started :
       IF pc["master"] = "new" THEN mine[a] = (IF pc[a] = "compare" THEN old ELSE current)
       ELSE \/ mine[a] = Coming
            \/ /\ Changing /\ round # 2
               /\ next # 0 /\ mine[a] = next /\ pc[a] \in {"top", "wait"}
  /\ \A a \in Agents :
       /\ pc[a] = "last" => next # 0 /\ mine[a] = Coming
       /\ pc[a] = "start" => next # 0
       /\ Newcomer(a) => Behind \subseteq {a}
       /\ Newcomer(a) /\ pc[a] \in {"start", "top"} => a \in clients

Sizes ==
  /\ BarrierFits
  /\ Changing => size[Coming] = Cardinality(Users(Coming)) + 1

(* What a leaving thread has read, lowered and made is still right when it *)
(* uses it.                                                                *)
Counting ==
  /\ nThreads = Cardinality(Staying \ Counted)
  /\ \A a \in Agents :
       /\ pc[a] = "count" => count[a] = nThreads
       /\ pc[a] = "store" => /\ made[a] \in Barriers /\ made[a] # current
                             /\ size[made[a]] = Cardinality(Staying)

(* Two threads leave only when no client is left to begin an EndCycle for, *)
(* and a new barrier that is pending keeps others from coming.             *)
Lone ==
  /\ \A a, b \in closing : a = b
  /\ \A a, b \in Leaving : a # b =>
       pc["master"] = "frame" /\ pc[a] = "wait" /\ clients = {} /\ next # 0
  /\ \A a \in Leaving : pc["master"] = "frame" /\ pc[a] = "wait" =>
       clients = {} \/ (next # 0 /\ \A b, c \in clients : b = c)
  /\ pc["master"] # "frame" => clients # {}

(* Who is parked waits at the barrier it goes by; and when the master is   *)
(* parked somebody it waits for is not.                                    *)
Parked ==
  /\ parked["master"] # 0 =>
       /\ pc["master"] \in {"old", "new", "plain"}
       /\ parked["master"] = Coming
       /\ \E a \in Crew(Coming) : parked[a] = 0
  /\ \A a \in Agents : parked[a] # 0 =>
       parked[a] = mine[a] /\ pc[a] \in {"wait", "waitNew", "wait2", "last"}

Work ==
  /\ \A a \in clients : pc[a] \notin {"none", "last"} \union ExitPlaces
  /\ pc["master"] # "frame" =>
       \A a \in Agents :
         /\ pc[a] \in {"wait", "compare", "waitNew", "act"} => a \notin served
         /\ pc[a] = "wait2" => a \in served

BarrierInv ==
  /\ TypeOK /\ Positions /\ Pointers /\ Mine /\ Sizes /\ Counting /\ Lone
  /\ Parked /\ Work

LEMMA Basics ==
  /\ MaxBarriers \in Nat /\ MaxBarriers >= 1
  /\ "master" \notin Agents /\ "master" \in Threads /\ Agents \subseteq Threads
  /\ IsFiniteSet(Agents) /\ Cardinality(Agents) \in Nat
  /\ 0 \notin Barriers /\ Barriers \subseteq Nat
BY AgentThreadsAssumption, FS_CardinalityType DEF Threads, Barriers

LEMMA FiniteAgents ==
  ASSUME NEW S, S \subseteq Agents
  PROVE  IsFiniteSet(S) /\ Cardinality(S) \in Nat /\ Cardinality(S) <= Cardinality(Agents)
BY Basics, FS_Subset, FS_CardinalityType

LEMMA InitBarrierInv == Init => BarrierInv
<1> SUFFICES ASSUME Init PROVE BarrierInv
  OBVIOUS
<1> USE Basics
<1>1. \A a \in Agents : pc[a] = "none" /\ mine[a] = 0 /\ parked[a] = 0
  BY DEF Init
<1>2. /\ pc["master"] = "frame" /\ parked["master"] = 0 /\ round = 0
      /\ next = 0 /\ current = 1 /\ old = 0 /\ nThreads = 0
  BY DEF Init
<1>3. /\ Staying = {} /\ Leaving = {} /\ Counted = {} /\ Users(Coming) = {}
      /\ Behind = {} /\ closing = {}
  BY <1>1 DEF Staying, Leaving, Counted, Started, Users, Behind, Init
<1>4. Cardinality({}) = 0
  BY FS_EmptySet
<1>5. 1 \in Barriers
  BY DEF Barriers
<1>6. size \in [Barriers -> 0..(Cardinality(Agents) + 1)] /\ size[1] = 1
  BY <1>5 DEF Init
<1>7. TypeOK
  BY <1>1, <1>2, <1>5, <1>6 DEF Init, TypeOK
<1>8. Positions /\ Pointers /\ Mine
  BY <1>1, <1>2 DEF Positions, Pointers, Mine, Places, Newcomer, Started
<1>9. Sizes
  BY <1>2, <1>3, <1>4, <1>6 DEF Sizes, BarrierFits, Staying, Coming
<1>10. Parked /\ Work
  BY <1>1, <1>2 DEF Parked, Work, Init
<1>11. Counting /\ Lone
  BY <1>1, <1>2, <1>3, <1>4 DEF Counting, Lone
<1> QED BY <1>7, <1>8, <1>9, <1>10, <1>11 DEF BarrierInv

(* A barrier that is made is one nobody uses.                              *)
LEMMA Fresh ==
  ASSUME TypeOK, NEW n \in 0..(Cardinality(Agents) + 1), NewBarrier(n)
  PROVE  /\ next' \in Barriers /\ next' \notin {current, next, old}
         /\ \A a \in Attached : mine[a] # next'
         /\ \A t \in Threads : parked[t] # next'
         /\ size' \in [Barriers -> 0..(Cardinality(Agents) + 1)]
         /\ size'[next'] = n
         /\ \A b \in Barriers : b # next' => size'[b] = size[b]
<1>1. FreshBarrier \in Barriers /\ Unused(FreshBarrier)
  BY DEF NewBarrier, FreshBarrier
<1> QED BY <1>1 DEF NewBarrier, Unused, TypeOK, Attached

(* Threads leave one at a time; and what a step must not touch for that,   *)
(* and for their counting, to stay so.                                     *)
LEMMA OneLeaves ==
  ASSUME BarrierInv, NEW a \in Agents, pc[a] \in ExitPlaces
  PROVE  /\ pc["master"] = "frame" /\ round = 0 /\ parked["master"] = 0
         /\ Leaving = {a}
         /\ \A b \in Agents : pc[b] \in ExitPlaces => b = a
<1>1. \A b \in Agents : pc[b] \in ExitPlaces => b \in Leaving
  BY DEF BarrierInv, Work, Leaving, Staying
<1>2. Leaving = {a}
  BY <1>1 DEF BarrierInv, Lone
<1>3. pc["master"] = "frame" /\ round = 0 /\ parked["master"] = 0
  BY DEF BarrierInv, Positions, Places, Parked
<1> QED BY <1>1, <1>2, <1>3

LEMMA LoneStep ==
  ASSUME Lone, UNCHANGED <<clients, closing>>, Leaving' \subseteq Leaving,
         pc["master"] = "frame" => pc'["master"] = "frame" /\ (next # 0 => next' # 0),
         \A a \in Leaving : pc["master"] = "frame" /\ pc[a] = "wait" => pc'[a] = "wait",
         \A a \in Leaving' : pc'["master"] = "frame" /\ pc'[a] = "wait" =>
                               pc["master"] = "frame" /\ pc[a] = "wait"
  PROVE  Lone'
BY DEF Lone

LEMMA CountingStep ==
  ASSUME Counting, UNCHANGED <<count, made, nThreads, size>>, Staying' = Staying,
         \A a \in Agents : \/ pc'[a] = pc[a]
                           \/ {pc[a], pc'[a]} \intersect {"count", "make", "store"} = {},
         (\E a \in Agents : pc[a] = "store") => current' = current
  PROVE  Counting'
<1>1. \A a \in Agents, v \in {"count", "make", "store"} : pc'[a] = v <=> pc[a] = v
  OBVIOUS
<1>2. Counted' = Counted
  BY <1>1 DEF Counted
<1> QED BY <1>1, <1>2 DEF Counting

(* A step that leaves threads, barriers and clients alone.                 *)
LEMMA QuietStep ==
  ASSUME BarrierInv,
         UNCHANGED <<pc, parked, barriers, leave, round, nThreads, clients, served>>,
         closing' \subseteq clients', \A a, b \in closing' : a = b
  PROVE  BarrierInv'
<1> USE DEF BarrierInv, barriers, leave
<1>1. TypeOK'
  BY DEF TypeOK
<1>2. Positions' /\ Pointers'
  BY DEF Positions, Pointers, Places
<1>3. Mine' /\ Sizes'
  BY DEF Mine, Sizes, Coming, Changing, Started, Newcomer, Behind, Users, Staying, BarrierFits
<1>4. Parked' /\ Work'
  BY DEF Parked, Work, Crew, Coming, Changing, Started, Users, Staying
<1>5. Counting' /\ Lone'
  BY DEF Counting, Counted, Lone, Leaving, Staying
<1> QED BY <1>1, <1>2, <1>3, <1>4, <1>5

LEMMA LostKeeps ==
  ASSUME BarrierInv, "go" \in Spaced, NEW a \in Agents, ConnectionLost(a) PROVE BarrierInv'
<1>1. closing' \subseteq clients' /\ closing' = {a}
  BY DEF ConnectionLost, BarrierInv, TypeOK
<1> QED BY <1>1, QuietStep DEF ConnectionLost

LEMMA ConnectKeeps ==
  ASSUME BarrierInv, "come" \in Spaced, NEW a \in Agents, ClientConnect(a) PROVE BarrierInv'
<1> USE Basics
<1>1. /\ pc["master"] = "frame" /\ a \notin clients /\ pc[a] = "none"
      /\ next = 0 /\ Behind = {}
      /\ clients' = clients \union {a} /\ nThreads' = nThreads + 1
      /\ NewBarrier(nThreads' + 1) /\ pc' = [pc EXCEPT ![a] = "start"]
      /\ UNCHANGED <<parked, current, mine, old, count, made, round, closing, served>>
  BY DEF ClientConnect, leave
<1>2. TypeOK
  BY DEF BarrierInv
<1>3. /\ pc'[a] = "start" /\ pc'["master"] = "frame"
      /\ \A b \in Agents \ {a} : pc'[b] = pc[b]
  BY <1>1, <1>2 DEF TypeOK
<1>4. Staying' = Staying \union {a} /\ a \notin Staying
  BY <1>1, <1>3 DEF Staying
<1>5. nThreads' = Cardinality(Staying') /\ nThreads' <= Cardinality(Agents) /\ nThreads' \in Nat
  <2>1. Cardinality(Staying') = Cardinality(Staying) + 1
    BY <1>4, FiniteAgents, FS_AddElement DEF Staying
  <2>2. Cardinality(Staying') <= Cardinality(Agents) /\ Cardinality(Staying) \in Nat
    BY <1>4, FiniteAgents DEF Staying
  <2>3. Counted = {} /\ Staying \ {} = Staying
    BY <1>1 DEF Counted, Behind
  <2>4. nThreads = Cardinality(Staying)
    BY <2>3 DEF BarrierInv, Counting
  <2> QED BY <1>1, <2>1, <2>2, <2>4
<1>6. /\ next' \in Barriers /\ next' \notin {current, next, old}
      /\ \A b \in Attached : mine[b] # next'
      /\ size' \in [Barriers -> 0..(Cardinality(Agents) + 1)]
      /\ size'[next'] = nThreads' + 1
      /\ \A b \in Barriers : b # next' => size'[b] = size[b]
  <2>1. nThreads' + 1 \in 0..(Cardinality(Agents) + 1)
    BY <1>5
  <2> QED BY <1>1, <1>2, <2>1, Fresh
<1>7. Started' = Started /\ Behind' = {a}
  BY <1>1, <1>3 DEF Started, Behind
<1>8. TypeOK'
  <2>1. pc' \in [Threads -> Everywhere]
    BY <1>1, <1>2 DEF TypeOK
  <2>2. next' \in 0..MaxBarriers
    BY <1>6 DEF Barriers
  <2> QED BY <1>1, <1>2, <1>5, <1>6, <2>1, <2>2 DEF TypeOK
<1>9. Positions'
  BY <1>1, <1>3 DEF BarrierInv, Positions, Places
<1>10. Pointers'
  BY <1>1, <1>3, <1>6 DEF BarrierInv, Pointers, Positions
<1>11. Mine'
  <2>1. \A b \in Started : mine[b] = current
    BY <1>1 DEF BarrierInv, Mine, Coming, Changing
  <2>2. \A b \in Agents : pc[b] # "last" /\ pc[b] # "start"
    BY <1>1 DEF BarrierInv, Mine
  <2>3. \A b \in Agents : ~Newcomer(b) \/ b = a
    BY <1>1, <2>1, <2>2 DEF Newcomer, Started
  <2>4. Coming' = current
    BY <1>1, <1>3 DEF Coming
  <2>5. \A b \in Agents : Newcomer(b)' => b = a
    BY <1>1, <1>3, <2>3 DEF Newcomer
  <2>6. next' # 0
    BY <1>6
  <2> QED BY <1>1, <1>3, <1>7, <2>1, <2>2, <2>4, <2>5, <2>6 DEF Mine
<1>12. Sizes'
  <2>1. size'[current] = size[current]
    BY <1>2, <1>6 DEF TypeOK
  <2>2. Changing /\ Coming = current /\ Coming' = current
    BY <1>1, <1>3 DEF Changing, Coming
  <2>3. Users(Coming)' = Users(Coming)
    BY <1>1, <1>7, <2>2 DEF Users
  <2>4. size'[Coming'] = Cardinality(Users(Coming)') + 1
    BY <2>1, <2>2, <2>3 DEF BarrierInv, Sizes
  <2>5. BarrierFits'
    BY <1>5, <1>6 DEF BarrierFits, Staying
  <2> QED BY <1>5, <2>4, <2>5 DEF Sizes
<1>13. Parked'
  BY <1>1, <1>3 DEF BarrierInv, Parked
<1>14. Work'
  BY <1>1, <1>3 DEF BarrierInv, Work
<1>15. Counting'
  <2>1. Counted' = {} /\ Staying' \ {} = Staying'
    BY <1>1, <1>3 DEF Counted, Behind
  <2>2. \A b \in Agents : pc'[b] \notin {"count", "store"}
    BY <1>1, <1>3 DEF Behind
  <2> QED BY <1>5, <2>1, <2>2 DEF Counting
<1>16. Lone'
  <2>1. Leaving' \subseteq Leaving /\ a \notin Leaving'
    BY <1>1, <1>3, <1>4 DEF Leaving
  <2>2. \A b \in Leaving' : pc'[b] = pc[b]
    BY <1>3, <2>1 DEF Leaving, Staying
  <2>3. next' # 0
    BY <1>6
  <2> QED BY <1>1, <1>3, <2>1, <2>2, <2>3 DEF BarrierInv, Lone
<1> QED BY <1>8, <1>9, <1>10, <1>11, <1>12, <1>13, <1>14, <1>15, <1>16 DEF BarrierInv

(* EndCycle finds every thread at its first wait.                          *)
LEMMA BeginKeeps == ASSUME BarrierInv, Prompt, BeginEndCycle PROVE BarrierInv'
<1> USE Basics
<1>1. /\ pc["master"] = "frame" /\ Behind = {} /\ round = 0
      /\ clients' = clients \ closing /\ closing' = {} /\ served' = {}
      /\ UNCHANGED <<parked, size, current, next, mine, old, count, made, nThreads>>
  BY DEF BeginEndCycle, barriers, leave, BarrierInv, Positions
<1>2. TypeOK
  BY DEF BarrierInv
<1>0. \A a \in Agents : pc[a] \in {"none", "wait", "last"}
  BY <1>1 DEF Behind, BarrierInv, Positions, Places
<1>00. Counting'
  <2>1. \A a \in Agents : pc'[a] = pc[a]
    BY <1>2 DEF BeginEndCycle, TypeOK
  <2>2. Staying' = Staying
    BY <2>1 DEF Staying
  <2> QED BY <1>1, <2>1, <2>2, CountingStep DEF BarrierInv
<1>3. CASE clients' = {} /\ pc' = pc /\ round' = round
  <2>1. TypeOK' /\ Positions' /\ Pointers'
    BY <1>1, <1>2, <1>3 DEF BarrierInv, TypeOK, Positions, Pointers, Places
  <2>2. Mine'
    <3>1. \A a \in Agents : pc[a] \notin {"start", "top"}
      BY <1>1 DEF Behind
    <3> QED BY <1>1, <1>3, <3>1 DEF BarrierInv, Mine, Coming, Changing, Started, Newcomer, Behind
  <2>3. Sizes' /\ Parked' /\ Work'
    BY <1>1, <1>3 DEF BarrierInv, Sizes, Parked, Work, Coming, Changing, Started, Crew,
       Users, Staying, BarrierFits
  <2>4. Lone'
    <3>1. Leaving' \subseteq Leaving \union closing
      BY <1>1, <1>3 DEF Leaving, Staying
    <3>2. \A a \in Leaving' : pc'[a] = "wait"
      BY <1>0, <1>3 DEF Leaving, Staying
    <3>3. \A a, b \in Leaving' : a # b => next # 0
      BY <1>0, <1>1, <1>2, <3>1 DEF BarrierInv, Lone, Leaving, Staying, TypeOK
    <3> QED BY <1>1, <1>3, <3>2, <3>3 DEF Lone
  <2> QED BY <1>00, <2>1, <2>2, <2>3, <2>4 DEF BarrierInv
<1>4. CASE clients' # {} /\ pc' = [pc EXCEPT !["master"] = "check"] /\ round' = 1
  <2>1. pc'["master"] = "check" /\ \A a \in Agents : pc'[a] = pc[a]
    BY <1>2, <1>4 DEF TypeOK
  <2>2. \A a \in Agents : pc[a] \in {"none", "wait", "last"}
    BY <1>0
  <2>3. TypeOK'
    BY <1>1, <1>2, <1>4 DEF TypeOK
  <2>4. Positions' /\ Pointers'
    BY <1>1, <1>4, <2>1, <2>2 DEF BarrierInv, Positions, Pointers, Places
  <2>5. Started' = Started /\ Staying' = Staying /\ Behind' = {}
    BY <2>1, <2>2 DEF Started, Staying, Behind
  <2>6. Coming' = Coming /\ Changing' /\ Changing
    BY <1>1, <2>1 DEF Coming, Changing
  <2>7. Mine'
    BY <1>1, <1>4, <2>1, <2>2, <2>5, <2>6 DEF BarrierInv, Mine, Newcomer
  <2>8. Sizes'
    BY <1>1, <2>1, <2>5, <2>6 DEF BarrierInv, Sizes, Users, BarrierFits, Staying
  <2>9. Parked'
    BY <1>1, <2>1 DEF BarrierInv, Parked
  <2>10. Work'
    BY <1>1, <1>2, <2>1, <2>2 DEF BarrierInv, Work, TypeOK
  <2>11. Lone'
    <3>1. Leaving' \subseteq Leaving \union closing
      BY <1>1, <2>5 DEF Leaving
    <3>2. \A a, b \in Leaving' : a = b
      BY <1>0, <1>1, <1>2, <1>4, <3>1 DEF BarrierInv, Lone, Leaving, Staying, TypeOK
    <3> QED BY <1>1, <1>4, <2>1, <3>2 DEF Lone
  <2> QED BY <1>00, <2>3, <2>4, <2>7, <2>8, <2>9, <2>10, <2>11 DEF BarrierInv
<1> QED BY <1>3, <1>4 DEF BeginEndCycle

LEMMA WaitMasterKeeps == ASSUME BarrierInv, WaitMaster PROVE BarrierInv'
<1> USE Basics
<1>1. /\ pc["master"] = "check" /\ old = 0 /\ next # current /\ parked["master"] = 0
      /\ UNCHANGED <<parked, size, next, mine, count, made, round, nThreads, clients, closing, served>>
  BY DEF WaitMaster, leave, BarrierInv, Pointers, Parked
<1>2. TypeOK
  BY DEF BarrierInv
<1>3. round \in {1, 2}
  BY <1>1, <1>2 DEF TypeOK, BarrierInv, Positions
<1>4. Changing /\ Coming = current
  BY <1>1 DEF Changing, Coming
<1>0. Counting' /\ Lone'
  <2>1. pc'["master"] # "frame" /\ \A a \in Agents : pc'[a] = pc[a]
    BY <1>2 DEF WaitMaster, TypeOK
  <2>2. Staying' = Staying /\ Leaving' = Leaving
    BY <1>1, <2>1 DEF Staying, Leaving
  <2>3. \A a \in Agents : pc[a] # "store"
    BY <1>1, <1>3 DEF BarrierInv, Positions, Places
  <2>4. Counting'
    BY <1>1, <2>1, <2>2, <2>3, CountingStep DEF BarrierInv
  <2>5. Lone'
    BY <1>1, <2>1, <2>2, LoneStep DEF BarrierInv
  <2> QED BY <2>4, <2>5
<1>5. CASE next # 0
  <2>1. /\ old' = current /\ current' = next /\ pc'["master"] = "old"
        /\ \A a \in Agents : pc'[a] = pc[a]
    BY <1>2, <1>5 DEF WaitMaster, TypeOK
  <2>2. round = 1 /\ \A a \in Agents : pc[a] \in {"none", "wait", "last"}
    BY <1>1, <1>3, <1>5 DEF BarrierInv, Positions, Pointers, Places
  <2>3. TypeOK'
    <3>1. next \in Barriers /\ current \in 0..MaxBarriers
      BY <1>2, <1>5 DEF TypeOK, Barriers
    <3> QED BY <1>1, <1>2, <1>5, <2>1, <3>1 DEF WaitMaster, TypeOK
  <2>4. Positions' /\ Pointers'
    BY <1>1, <1>2, <1>5, <2>1, <2>2 DEF Positions, Pointers, Places, TypeOK
  <2>5. Started' = Started /\ Staying' = Staying /\ Behind' = {}
    BY <2>1, <2>2 DEF Started, Staying, Behind
  <2>6. Coming' = Coming /\ Changing'
    BY <1>4, <2>1 DEF Coming, Changing
  <2>7. Mine'
    <3>1. \A a \in Started : mine[a] = current \/ (mine[a] = next /\ pc[a] = "wait")
      BY <1>1, <1>4, <2>2 DEF BarrierInv, Mine, Started
    <3>2. \A a \in Agents : pc[a] = "last" => mine[a] = current
      BY <1>4 DEF BarrierInv, Mine
    <3>3. pc'["master"] = "old" /\ round' = 1 /\ mine' = mine /\ next' = next
      BY <1>1, <2>1, <2>2
    <3>4. Coming' = current
      BY <1>4, <2>6
    <3>5. \A a \in Agents : pc'[a] = pc[a] /\ pc'[a] \notin {"start", "top"}
      BY <2>1, <2>2
    <3>6. \A a \in Started' :
            \/ mine'[a] = Coming'
            \/ /\ Changing' /\ round' # 2
               /\ next' # 0 /\ mine'[a] = next' /\ pc'[a] \in {"top", "wait"}
      BY <1>5, <2>5, <2>6, <3>1, <3>3, <3>4, <3>5 DEF Started
    <3>7. \A a \in Agents : pc'[a] = "last" => next' # 0 /\ mine'[a] = Coming'
      BY <1>5, <3>2, <3>3, <3>4, <3>5
    <3>8. \A a \in Agents : Behind' \subseteq {a}
      BY <2>5
    <3> QED BY <3>3, <3>5, <3>6, <3>7, <3>8, Zenon DEF Mine
  <2>8. Sizes'
    BY <1>1, <1>4, <1>5, <2>1, <2>5, <2>6 DEF BarrierInv, Sizes, Users, BarrierFits, Staying
  <2>9. Parked'
    BY <1>1, <2>1 DEF BarrierInv, Parked
  <2>10. Work'
    BY <1>1, <1>2, <2>1 DEF BarrierInv, Work, TypeOK
  <2> QED BY <1>0, <2>3, <2>4, <2>7, <2>8, <2>9, <2>10 DEF BarrierInv
<1>6. CASE next = 0
  <2>1. /\ old' = old /\ current' = current /\ pc'["master"] = "plain"
        /\ \A a \in Agents : pc'[a] = pc[a]
    BY <1>2, <1>6 DEF WaitMaster, TypeOK
  <2>2. \A a \in Agents : pc[a] \notin {"last", "start", "top", "compare2"} \union ExitPlaces
    BY <1>1, <1>3, <1>6 DEF BarrierInv, Mine, Positions, Places
  <2>3. TypeOK'
    BY <1>1, <1>2, <1>6, <2>1 DEF WaitMaster, TypeOK
  <2>4. Positions' /\ Pointers'
    BY <1>1, <1>2, <1>3, <1>6, <2>1, <2>2 DEF BarrierInv, Positions, Pointers, Places
  <2>5. Started' = Started /\ Staying' = Staying /\ Behind' = {}
    BY <2>1, <2>2 DEF Started, Staying, Behind
  <2>6. Coming' = Coming /\ ~Changing'
    BY <1>4, <2>1 DEF Coming, Changing
  <2>7. Mine'
    BY <1>1, <1>4, <1>6, <2>1, <2>2, <2>5, <2>6 DEF BarrierInv, Mine, Newcomer
  <2>8. Sizes'
    BY <1>1, <1>4, <1>6, <2>1, <2>5, <2>6 DEF BarrierInv, Sizes, Users, BarrierFits, Staying
  <2>9. Parked'
    BY <1>1, <2>1 DEF BarrierInv, Parked
  <2>10. Work'
    BY <1>1, <1>2, <2>1 DEF BarrierInv, Work, TypeOK
  <2> QED BY <1>0, <2>3, <2>4, <2>7, <2>8, <2>9, <2>10 DEF BarrierInv
<1> QED BY <1>5, <1>6

LEMMA ClearKeeps == ASSUME BarrierInv, ClearRequest PROVE BarrierInv'
<1> USE Basics
<1>1. /\ pc["master"] = "clear" /\ round = 1 /\ parked["master"] = 0
      /\ old' = 0 /\ next' = 0 /\ round' = 2
      /\ UNCHANGED <<parked, size, current, mine, count, made, nThreads, clients, closing, served>>
  BY DEF ClearRequest, leave, BarrierInv, Positions, Parked
<1>2. TypeOK /\ next = current
  BY <1>1 DEF BarrierInv, Pointers
<1>3. pc'["master"] = "check" /\ \A a \in Agents : pc'[a] = pc[a]
  BY <1>1, <1>2 DEF ClearRequest, TypeOK
<1>4. \A a \in Agents : pc[a] \in {"none", "compare", "act", "wait2"}
  BY <1>1 DEF BarrierInv, Positions, Places
<1>5. TypeOK'
  BY <1>1, <1>2, <1>3 DEF ClearRequest, TypeOK
<1>6. Positions' /\ Pointers'
  BY <1>1, <1>2, <1>3, <1>4 DEF Positions, Pointers, Places, TypeOK
<1>7. /\ Started' = Started /\ Staying' = Staying /\ Started = Staying
      /\ Coming' = current /\ Coming = current /\ Changing' /\ ~Changing
  BY <1>1, <1>3, <1>4 DEF Started, Staying, Coming, Changing
<1>8. \A a \in Started : mine[a] = current
  BY <1>1, <1>7 DEF BarrierInv, Mine
<1>9. Mine'
  BY <1>1, <1>3, <1>4, <1>7, <1>8 DEF Mine, Newcomer
<1>10. Sizes'
  <2>1. Users(Coming)' = Staying
    BY <1>1, <1>7, <1>8 DEF Users
  <2>2. size[current] = Cardinality(Staying) + 1
    BY <1>2 DEF BarrierInv, Sizes, BarrierFits, Staying
  <2> QED BY <1>1, <1>7, <2>1, <2>2 DEF Sizes, BarrierFits, Staying
<1>11. Parked'
  BY <1>1, <1>3 DEF BarrierInv, Parked
<1>12. Work'
  BY <1>1, <1>2, <1>3 DEF BarrierInv, Work, TypeOK
<1>13. Counting'
  BY <1>1, <1>3, <1>7, CountingStep DEF BarrierInv
<1>14. Lone'
  <2>1. Leaving' = Leaving
    BY <1>1, <1>7 DEF Leaving
  <2> QED BY <1>1, <1>3, <2>1, LoneStep DEF BarrierInv
<1> QED BY <1>5, <1>6, <1>9, <1>10, <1>11, <1>12, <1>13, <1>14 DEF BarrierInv

(* The values of pc.                                                       *)
LEMMA PcType ==
  ASSUME TypeOK, NEW t \in Threads, NEW v,
         v \in Everywhere,
         pc' = [pc EXCEPT ![t] = v],
         UNCHANGED <<parked, size, current, next, old, count, made, round, nThreads, clients, closing>>,
         served' \subseteq Agents, mine' \in [Agents -> 0..MaxBarriers]
  PROVE  TypeOK'
BY DEF TypeOK

LEMMA StartKeeps == ASSUME BarrierInv, NEW a \in Agents, StartThread(a) PROVE BarrierInv'
<1> USE Basics
<1>1. /\ pc[a] = "start" /\ mine' = [mine EXCEPT ![a] = next]
      /\ pc' = [pc EXCEPT ![a] = "top"]
      /\ UNCHANGED <<parked, size, current, next, old, count, made, round, nThreads, clients,
                     closing, served>>
  BY DEF StartThread, leave
<1>2. TypeOK
  BY DEF BarrierInv
<1>3. /\ pc'[a] = "top" /\ mine'[a] = next /\ pc'["master"] = pc["master"]
      /\ \A b \in Agents \ {a} : pc'[b] = pc[b] /\ mine'[b] = mine[b]
  BY <1>1, <1>2 DEF TypeOK
<1>4. /\ pc["master"] = "frame" /\ round = 0 /\ next # 0 /\ next # current
      /\ a \in clients /\ Behind = {a}
  BY <1>1 DEF BarrierInv, Positions, Places, Pointers, Mine, Newcomer, Behind
<1>5. \A b \in Agents : Newcomer(b) => b = a
  BY <1>4 DEF BarrierInv, Mine
<1>6. /\ Started' = Started \union {a} /\ a \notin Started
      /\ Staying' = Staying /\ Behind' = {a}
  BY <1>1, <1>3, <1>4 DEF Started, Staying, Behind
<1>7. Coming' = current /\ Coming = current /\ Changing /\ Changing'
  BY <1>1, <1>3, <1>4 DEF Coming, Changing
<1>8. TypeOK'
  BY <1>1, <1>2, PcType DEF TypeOK
<1>9. Positions' /\ Pointers'
  BY <1>1, <1>3, <1>4 DEF BarrierInv, Positions, Places, Pointers
<1>10. Mine'
  <2>1. \A b \in Agents : Newcomer(b)' => b = a
    BY <1>1, <1>3, <1>5 DEF Newcomer
  <2>2. \A b \in Started : mine'[b] = current \/ (mine'[b] = next /\ pc'[b] \in {"top", "wait"})
    BY <1>3, <1>4, <1>6, <1>7 DEF BarrierInv, Mine, Started
  <2>3. \A b \in Agents : pc'[b] # "start" /\ (pc'[b] = "last" => mine'[b] = current)
    <3>1. \A b \in Agents : pc[b] = "start" => b = a
      BY <1>5 DEF Newcomer
    <3> QED BY <1>3, <1>4, <1>7, <3>1 DEF BarrierInv, Mine
  <2> QED BY <1>1, <1>3, <1>4, <1>6, <1>7, <2>1, <2>2, <2>3 DEF Mine
<1>11. Sizes'
  <2>1. Users(Coming)' = Users(Coming)
    BY <1>1, <1>3, <1>4, <1>6, <1>7 DEF Users
  <2> QED BY <1>1, <1>6, <1>7, <2>1 DEF BarrierInv, Sizes, BarrierFits, Staying
<1>12. Parked'
  BY <1>1, <1>3, <1>4 DEF BarrierInv, Parked
<1>13. Work'
  BY <1>1, <1>2, <1>3, <1>4 DEF BarrierInv, Work, TypeOK
<1>14. Counting'
  BY <1>1, <1>3, <1>6, CountingStep DEF BarrierInv
<1>15. Lone'
  <2>1. Leaving' = Leaving
    BY <1>1, <1>6 DEF Leaving
  <2> QED BY <1>1, <1>3, <2>1, LoneStep DEF BarrierInv, Leaving, Staying
<1> QED BY <1>8, <1>9, <1>10, <1>11, <1>12, <1>13, <1>14, <1>15 DEF BarrierInv

LEMMA TopKeeps == ASSUME BarrierInv, NEW a \in Agents, LoopTop(a) PROVE BarrierInv'
<1> USE Basics
<1>1. /\ pc[a] = "top" /\ pc' = [pc EXCEPT ![a] = IF a \in clients THEN "wait" ELSE "exit"]
      /\ UNCHANGED <<parked, size, current, next, mine, old, count, made, round, nThreads,
                     clients, closing, served>>
  BY DEF LoopTop, barriers, leave
<1>2. TypeOK
  BY DEF BarrierInv
<1>3. /\ pc'[a] = IF a \in clients THEN "wait" ELSE "exit"
      /\ pc'["master"] = pc["master"]
      /\ \A b \in Agents \ {a} : pc'[b] = pc[b]
  BY <1>1, <1>2 DEF TypeOK
<1>4. pc["master"] = "frame" /\ round = 0 /\ a \in Behind
  BY <1>1 DEF BarrierInv, Positions, Places, Behind
<1>5. \A b \in Agents : Newcomer(b) => b = a
  BY <1>4 DEF BarrierInv, Mine
<1>6. a \in clients \/ mine[a] = current
  BY <1>1 DEF BarrierInv, Mine, Newcomer
<1>7. Started' = Started /\ a \in Started /\ Staying' = Staying /\ Behind' \subseteq Behind
  BY <1>1, <1>3, <1>4 DEF Started, Staying, Behind
<1>8. Coming' = current /\ Coming = current /\ Changing /\ Changing'
  BY <1>1, <1>3, <1>4 DEF Coming, Changing
<1>9. TypeOK'
  BY <1>1, <1>2, PcType DEF TypeOK
<1>10. Positions' /\ Pointers'
  BY <1>1, <1>3, <1>4 DEF BarrierInv, Positions, Places, Pointers
<1>11. Mine'
  <2>1. \A b \in Agents : Newcomer(b)' => b = a /\ Behind \subseteq {b}
    <3>1. \A b \in Agents : Newcomer(b)' => Newcomer(b)
      BY <1>1, <1>3 DEF Newcomer
    <3> QED BY <1>5, <3>1 DEF BarrierInv, Mine
  <2>2. \A b \in Started : \/ mine[b] = current
                           \/ next # 0 /\ mine[b] = next /\ pc'[b] \in {"top", "wait"}
    BY <1>3, <1>4, <1>6, <1>8 DEF BarrierInv, Mine, Started
  <2>3. \A b \in Agents : /\ pc'[b] = "start" => next # 0
                          /\ pc'[b] = "last" => next # 0 /\ mine[b] = current
                          /\ Newcomer(b)' => pc'[b] \notin {"start", "top"}
    BY <1>3, <1>4, <1>8, <2>1 DEF BarrierInv, Mine
  <2> QED BY <1>1, <1>3, <1>4, <1>7, <1>8, <2>1, <2>2, <2>3 DEF Mine
<1>12. Sizes'
  <2>1. Users(Coming)' = Users(Coming)
    BY <1>1, <1>7, <1>8 DEF Users
  <2> QED BY <1>1, <1>7, <1>8, <2>1 DEF BarrierInv, Sizes, BarrierFits, Staying
<1>13. Parked'
  BY <1>1, <1>3, <1>4 DEF BarrierInv, Parked
<1>14. Work'
  BY <1>1, <1>2, <1>3, <1>4 DEF BarrierInv, Work, TypeOK
<1>15. Counting'
  BY <1>1, <1>3, <1>7, CountingStep DEF BarrierInv
<1>16. Lone'
  <2>1. Leaving' = Leaving
    BY <1>1, <1>7 DEF Leaving
  <2> QED BY <1>1, <1>3, <2>1, LoneStep DEF BarrierInv, Leaving, Staying
<1> QED BY <1>9, <1>10, <1>11, <1>12, <1>13, <1>14, <1>15, <1>16 DEF BarrierInv

LEMMA CompareKeeps == ASSUME BarrierInv, NEW a \in Agents, WaitSlaveCompare(a) PROVE BarrierInv'
<1> USE Basics
<1>1. /\ pc[a] \in {"compare", "compare2"} /\ mine' = [mine EXCEPT ![a] = current]
      /\ pc' = [pc EXCEPT ![a] =
                  IF mine[a] # current
                  THEN IF pc[a] = "compare" THEN "waitNew" ELSE "waitNew2"
                  ELSE IF pc[a] = "compare" THEN "act" ELSE "top"]
      /\ UNCHANGED <<parked, size, current, next, old, count, made, round, nThreads, clients,
                     closing, served>>
  BY DEF WaitSlaveCompare, leave
<1>2. TypeOK /\ Positions /\ Pointers /\ pc[a] \in Places
  BY DEF BarrierInv, Positions
<1>3. /\ pc'["master"] = pc["master"]
      /\ \A b \in Agents \ {a} : pc'[b] = pc[b] /\ mine'[b] = mine[b]
      /\ mine'[a] = current
  BY <1>1, <1>2 DEF TypeOK
<1>4. a \in Started /\ parked[a] = 0
  BY <1>1 DEF Started, BarrierInv, Parked
<1>5. Changing' = Changing /\ Coming' = Coming /\ (Changing => Coming = current)
  BY <1>1, <1>2, <1>3 DEF Changing, Coming, Places, Positions
<1>6. pc["master"] = "new" \/ mine[a] = Coming
  BY <1>1, <1>4 DEF BarrierInv, Mine
<1>7. Coming = current
  BY <1>1, <1>2, <1>5 DEF Coming, Changing
<1>8. pc'[a] = IF pc["master"] = "new" THEN "waitNew"
               ELSE IF pc[a] = "compare" THEN "act" ELSE "top"
  <2>1. CASE pc["master"] = "new"
    <3>1. pc[a] = "compare" /\ mine[a] = old /\ old # current
      BY <1>1, <1>2, <1>4, <2>1 DEF BarrierInv, Mine, Pointers, Places
    <3> QED BY <1>1, <1>2, <2>1, <3>1 DEF TypeOK
  <2>2. CASE pc["master"] # "new"
    BY <1>1, <1>2, <1>6, <1>7, <2>2 DEF TypeOK
  <2> QED BY <2>1, <2>2
<1>9. Started' = Started /\ Staying' = Staying /\ Behind' = Behind
  BY <1>1, <1>2, <1>3, <1>8 DEF Started, Staying, Behind, Places
<1>10. \A b \in Agents : Newcomer(b)' => Newcomer(b) /\ b # a
  BY <1>1, <1>3 DEF Newcomer
<1>11. TypeOK'
  <2>1. mine' \in [Agents -> 0..MaxBarriers]
    BY <1>1, <1>2 DEF TypeOK, Barriers
  <2>2. pc' = [pc EXCEPT ![a] = pc'[a]]
    BY <1>1, <1>2 DEF TypeOK
  <2>3. pc'[a] \in {"waitNew", "act", "top"}
    BY <1>8
  <2> QED BY <1>1, <1>2, <2>1, <2>2, <2>3, PcType DEF TypeOK
<1>12. Positions' /\ Pointers'
  BY <1>1, <1>2, <1>3, <1>8 DEF Positions, Places, Pointers
<1>13. Mine'
  <2>1. CASE pc["master"] = "new"
    <3>1. \A b \in Started : mine'[b] = IF pc'[b] = "compare" THEN old ELSE current
      BY <1>3, <1>8, <2>1 DEF BarrierInv, Mine, Started
    <3>2. \A b \in Agents : pc'[b] \notin {"start", "top", "last"}
      BY <1>2, <1>3, <1>8, <2>1 DEF Positions, Places
    <3>3. Behind' = {}
      BY <1>2, <1>9, <2>1 DEF Behind, Positions, Places
    <3> QED BY <1>1, <1>3, <1>9, <2>1, <3>1, <3>2, <3>3 DEF Mine
  <2>2. CASE pc["master"] # "new"
    <3>1. \A b \in Started :
            \/ mine'[b] = Coming
            \/ /\ Changing /\ round # 2
               /\ next # 0 /\ mine'[b] = next /\ pc'[b] \in {"top", "wait"}
      BY <1>3, <1>7, <2>2 DEF BarrierInv, Mine, Started
    <3>2. \A b \in Agents : /\ pc'[b] = "start" => next # 0
                            /\ pc'[b] = "last" => next # 0 /\ mine'[b] = Coming
      BY <1>3, <1>7, <1>8, <2>2 DEF BarrierInv, Mine
    <3>3. \A b \in Agents : Newcomer(b)' =>
            Behind \subseteq {b} /\ (pc'[b] \in {"start", "top"} => b \in clients)
      BY <1>3, <1>10 DEF BarrierInv, Mine
    <3> QED BY <1>1, <1>3, <1>5, <1>9, <2>2, <3>1, <3>2, <3>3 DEF Mine
  <2> QED BY <2>1, <2>2
<1>14. Sizes'
  <2>1. ASSUME Changing PROVE Users(Coming)' = Users(Coming)
    <3>1. mine'[a] = mine[a]
      BY <1>3, <1>6, <1>7, <2>1 DEF Changing
    <3> QED BY <1>3, <1>5, <1>9, <3>1 DEF Users, Started
  <2> QED BY <1>1, <1>5, <1>9, <2>1 DEF BarrierInv, Sizes, BarrierFits, Staying
<1>15. Parked'
  <2>1. Crew(Coming)' = Crew(Coming) \/ parked["master"] = 0
    <3>1. CASE Changing
      BY <1>2, <1>7, <3>1 DEF Changing, Pointers, Coming, BarrierInv, Parked, Positions, Places
    <3>2. CASE ~Changing
      BY <1>5, <1>9, <3>2 DEF Crew
    <3> QED BY <3>1, <3>2
  <2>2. \A b \in Agents : parked'[b] # 0 =>
          parked'[b] = mine'[b] /\ pc'[b] \in {"wait", "waitNew", "wait2", "last"}
    BY <1>1, <1>3, <1>4 DEF BarrierInv, Parked
  <2>3. parked["master"] # 0 =>
          /\ pc["master"] \in {"old", "new", "plain"}
          /\ parked["master"] = Coming
          /\ \E b \in Crew(Coming) : parked[b] = 0
    BY DEF BarrierInv, Parked
  <2> QED BY <1>1, <1>3, <1>5, <2>1, <2>2, <2>3 DEF Parked
<1>16. Work'
  BY <1>1, <1>2, <1>3, <1>8 DEF BarrierInv, Work, TypeOK, Places
<1>17. Counting'
  BY <1>1, <1>3, <1>8, <1>9, CountingStep DEF BarrierInv
<1>18. Lone'
  <2>1. Leaving' = Leaving
    BY <1>1, <1>9 DEF Leaving
  <2> QED BY <1>1, <1>3, <1>8, <2>1, LoneStep DEF BarrierInv, Leaving, Staying
<1> QED BY <1>11, <1>12, <1>13, <1>14, <1>15, <1>16, <1>17, <1>18 DEF BarrierInv

LEMMA ActKeeps == ASSUME BarrierInv, NEW a \in Agents, AgentEndCycle(a) PROVE BarrierInv'
<1> USE Basics
<1>1. /\ pc[a] = "act" /\ served' = served \union {a} /\ pc' = [pc EXCEPT ![a] = "wait2"]
      /\ UNCHANGED <<parked, size, current, next, mine, old, count, made, round, nThreads,
                     clients, closing>>
  BY DEF AgentEndCycle, barriers, leave
<1>2. TypeOK
  BY DEF BarrierInv
<1>3. /\ pc'[a] = "wait2" /\ pc'["master"] = pc["master"]
      /\ \A b \in Agents \ {a} : pc'[b] = pc[b]
  BY <1>1, <1>2 DEF TypeOK
<1>4. /\ Started' = Started /\ Staying' = Staying /\ Behind' = Behind
      /\ Coming' = Coming /\ Changing' = Changing
  BY <1>1, <1>3 DEF Started, Staying, Behind, Coming, Changing
<1>5. Users(Coming)' = Users(Coming)
  BY <1>1, <1>4 DEF Users
<1>6. \A b \in Agents : Newcomer(b)' => Newcomer(b) /\ b # a
  BY <1>1, <1>3 DEF Newcomer
<1>7. TypeOK'
  BY <1>1, <1>2, PcType DEF TypeOK
<1>8. Positions' /\ Pointers'
  BY <1>1, <1>3 DEF BarrierInv, Positions, Places, Pointers
<1>9. Mine'
  BY <1>1, <1>3, <1>4, <1>6 DEF BarrierInv, Mine, Started
<1>10. Sizes'
  BY <1>1, <1>4, <1>5 DEF BarrierInv, Sizes, BarrierFits, Staying
<1>11. Parked'
  <2>1. Crew(Coming)' = Crew(Coming)
    BY <1>4, <1>5 DEF Crew
  <2> QED BY <1>1, <1>3, <1>4, <2>1 DEF BarrierInv, Parked
<1>12. Work'
  BY <1>1, <1>2, <1>3 DEF BarrierInv, Work, TypeOK
<1>13. Counting'
  BY <1>1, <1>3, <1>4, CountingStep DEF BarrierInv
<1>14. Lone'
  <2>1. Leaving' = Leaving
    BY <1>1, <1>4 DEF Leaving
  <2> QED BY <1>1, <1>3, <2>1, LoneStep DEF BarrierInv, Leaving, Staying
<1> QED BY <1>7, <1>8, <1>9, <1>10, <1>11, <1>12, <1>13, <1>14 DEF BarrierInv

(* A leaving thread on its way, and nobody else's: the barriers in use stay *)
(* as they are.                                                            *)
LEMMA ExitMoves ==
  ASSUME BarrierInv, NEW a \in Agents, pc[a] \in ExitPlaces, NEW v \in ExitPlaces,
         pc' = [pc EXCEPT ![a] = v],
         UNCHANGED <<parked, current, next, mine, old, round, clients, closing, served>>,
         \A b \in Barriers : b \in {current, next} => size'[b] = size[b]
  PROVE  /\ Positions' /\ Pointers' /\ Mine' /\ Sizes' /\ Parked' /\ Work' /\ Lone'
         /\ pc' \in [Threads -> Everywhere]
         /\ pc'[a] = v /\ \A b \in Agents \ {a} : pc'[b] = pc[b]
         /\ Staying' = Staying
<1> USE Basics
<1>1. TypeOK /\ pc["master"] = "frame" /\ parked["master"] = 0 /\ Leaving = {a}
  BY OneLeaves DEF BarrierInv
<1>2. /\ pc'[a] = v /\ pc'["master"] = pc["master"]
      /\ \A b \in Agents \ {a} : pc'[b] = pc[b]
      /\ pc' \in [Threads -> Everywhere]
  BY <1>1 DEF TypeOK
<1>3. /\ Started' = Started /\ Staying' = Staying /\ Behind' = Behind
      /\ Coming' = current /\ Coming = current /\ Changing /\ Changing'
  BY <1>1, <1>2 DEF Started, Staying, Behind, Coming, Changing
<1>4. Users(Coming)' = Users(Coming)
  BY <1>3 DEF Users
<1>5. \A b \in Agents : Newcomer(b)' => Newcomer(b) /\ b # a
  BY <1>2 DEF Newcomer
<1>6. Positions' /\ Pointers'
  BY <1>1, <1>2 DEF BarrierInv, Positions, Places, Pointers
<1>7. Mine'
  BY <1>1, <1>2, <1>3, <1>5 DEF BarrierInv, Mine, Started
<1>8. Sizes'
  <2>1. current \in Barriers /\ (next # 0 => next \in Barriers)
    BY <1>1 DEF TypeOK, Barriers
  <2> QED BY <1>3, <1>4, <2>1 DEF BarrierInv, Sizes, BarrierFits, Staying
<1>9. Parked'
  BY <1>1, <1>2 DEF BarrierInv, Parked
<1>10. Work'
  BY <1>1, <1>2 DEF BarrierInv, Work, TypeOK
<1>11. Lone'
  <2>1. Leaving' = Leaving
    BY <1>3 DEF Leaving
  <2> QED BY <1>1, <1>2, <2>1, LoneStep DEF BarrierInv
<1> QED BY <1>2, <1>3, <1>6, <1>7, <1>8, <1>9, <1>10, <1>11

LEMMA ReadKeeps == ASSUME BarrierInv, NEW a \in Agents, ReadCount(a) PROVE BarrierInv'
<1>1. /\ pc[a] = "exit" /\ count' = [count EXCEPT ![a] = nThreads]
      /\ pc' = [pc EXCEPT ![a] = "count"]
      /\ UNCHANGED <<parked, size, current, next, mine, old, made, round, nThreads, clients,
                     closing, served>>
  BY DEF ReadCount, barriers
<1>2. /\ Positions' /\ Pointers' /\ Mine' /\ Sizes' /\ Parked' /\ Work' /\ Lone'
      /\ pc' \in [Threads -> Everywhere]
      /\ pc'[a] = "count" /\ \A b \in Agents \ {a} : pc'[b] = pc[b]
      /\ Staying' = Staying
  BY <1>1, ExitMoves
<1>3. TypeOK /\ Counting
  BY DEF BarrierInv
<1>4. TypeOK'
  BY <1>1, <1>2, <1>3 DEF TypeOK
<1>5. Counting'
  <2>1. \A b \in Agents : pc[b] \in ExitPlaces => b = a
    BY <1>1, OneLeaves
  <2>2. Counted' = Counted
    BY <1>1, <1>2 DEF Counted
  <2>3. count'[a] = nThreads /\ \A b \in Agents : pc'[b] = "count" => b = a
    BY <1>1, <1>2, <1>3, <2>1 DEF TypeOK
  <2> QED BY <1>1, <1>2, <1>3, <2>1, <2>2, <2>3 DEF Counting
<1> QED BY <1>2, <1>4, <1>5 DEF BarrierInv

LEMMA WriteKeeps == ASSUME BarrierInv, NEW a \in Agents, WriteCount(a) PROVE BarrierInv'
<1>1. /\ pc[a] = "count" /\ nThreads' = count[a] - 1 /\ count' = [count EXCEPT ![a] = 0]
      /\ pc' = [pc EXCEPT ![a] = "make"]
      /\ UNCHANGED <<parked, size, current, next, mine, old, made, round, clients, closing,
                     served>>
  BY DEF WriteCount, barriers
<1>2. /\ Positions' /\ Pointers' /\ Mine' /\ Sizes' /\ Parked' /\ Work' /\ Lone'
      /\ pc' \in [Threads -> Everywhere]
      /\ pc'[a] = "make" /\ \A b \in Agents \ {a} : pc'[b] = pc[b]
      /\ Staying' = Staying
  BY <1>1, ExitMoves
<1>3. TypeOK /\ Counting
  BY DEF BarrierInv
<1>4. \A b \in Agents : pc[b] \in ExitPlaces => b = a
  BY <1>1, OneLeaves
<1>5. nThreads = Cardinality(Staying) /\ count[a] = nThreads
  <2>1. Counted = {} /\ Staying \ {} = Staying
    BY <1>1, <1>4 DEF Counted
  <2> QED BY <1>1, <1>3, <2>1 DEF Counting
<1>6. nThreads' = Cardinality(Staying' \ Counted') /\ nThreads' \in 0..Cardinality(Agents)
  <2>1. a \in Staying /\ Counted' = {a}
    BY <1>1, <1>2, <1>4 DEF Staying, Counted
  <2>2. IsFiniteSet(Staying) /\ Staying \ {a} \subseteq Agents
    BY FiniteAgents DEF Staying
  <2>3. Cardinality(Staying \ {a}) = Cardinality(Staying) - 1
    BY <2>1, <2>2, FS_RemoveElement
  <2>4. /\ Cardinality(Staying \ {a}) \in Nat
        /\ Cardinality(Staying \ {a}) <= Cardinality(Agents)
    BY <2>2, FiniteAgents
  <2> QED BY <1>1, <1>2, <1>5, <2>1, <2>3, <2>4, Basics
<1>7. TypeOK'
  <2>1. count' \in [Agents -> 0..Cardinality(Agents)]
    BY <1>1, <1>3, Basics DEF TypeOK
  <2> QED BY <1>1, <1>2, <1>3, <1>6, <2>1 DEF TypeOK
<1>8. Counting'
  <2>1. \A b \in Agents : pc'[b] \notin {"count", "store"}
    BY <1>2, <1>4
  <2> QED BY <1>6, <2>1 DEF Counting
<1> QED BY <1>2, <1>7, <1>8 DEF BarrierInv

LEMMA MakeKeeps == ASSUME BarrierInv, NEW a \in Agents, MakeBarrier(a) PROVE BarrierInv'
<1> DEFINE f == FreshBarrier
<1>1. /\ pc[a] = "make" /\ \E b \in Barriers : Unused(b)
      /\ made' = [made EXCEPT ![a] = f] /\ size' = [size EXCEPT ![f] = nThreads + 1]
      /\ pc' = [pc EXCEPT ![a] = "store"]
      /\ UNCHANGED <<parked, current, next, mine, old, count, round, nThreads, clients,
                     closing, served>>
  BY DEF MakeBarrier
<1>2. f \in Barriers /\ Unused(f)
  BY <1>1 DEF FreshBarrier
<1> HIDE DEF f
<1>3. f \notin {current, next}
  BY <1>2 DEF Unused
<1>4. TypeOK /\ Counting
  BY DEF BarrierInv
<1>5. size'[f] = nThreads + 1 /\ \A b \in Barriers : b # f => size'[b] = size[b]
  BY <1>1, <1>2, <1>4 DEF TypeOK
<1>6. /\ Positions' /\ Pointers' /\ Mine' /\ Sizes' /\ Parked' /\ Work' /\ Lone'
      /\ pc' \in [Threads -> Everywhere]
      /\ pc'[a] = "store" /\ \A b \in Agents \ {a} : pc'[b] = pc[b]
      /\ Staying' = Staying
  BY <1>1, <1>3, <1>5, ExitMoves
<1>7. \A b \in Agents : pc[b] \in ExitPlaces => b = a
  BY <1>1, OneLeaves
<1>8. TypeOK'
  <2>1. made' \in [Agents -> 0..MaxBarriers]
    BY <1>1, <1>2, <1>4 DEF TypeOK, Barriers
  <2>2. size' \in [Barriers -> 0..(Cardinality(Agents) + 1)]
    <3>1. nThreads + 1 \in 0..(Cardinality(Agents) + 1)
      BY <1>4, Basics DEF TypeOK
    <3> QED BY <1>1, <1>4, <3>1 DEF TypeOK
  <2> QED BY <1>1, <1>4, <1>6, <2>1, <2>2 DEF TypeOK
<1>9. Counting'
  <2>1. Counted = {a} /\ Counted' = Counted /\ a \in Staying
    BY <1>1, <1>6, <1>7 DEF Counted, Staying
  <2>2. nThreads + 1 = Cardinality(Staying)
    <3>1. IsFiniteSet(Staying) /\ Cardinality(Staying) \in Nat
      BY FiniteAgents DEF Staying
    <3>2. Cardinality(Staying \ {a}) = Cardinality(Staying) - 1
      BY <2>1, <3>1, FS_RemoveElement
    <3> QED BY <1>4, <2>1, <3>1, <3>2 DEF Counting
  <2>3. made'[a] = f
    BY <1>1, <1>4 DEF TypeOK
  <2>4. \A b \in Agents : pc'[b] # "count" /\ (pc'[b] = "store" => b = a)
    BY <1>6, <1>7
  <2> QED BY <1>1, <1>2, <1>3, <1>4, <1>5, <1>6, <2>1, <2>2, <2>3, <2>4 DEF Counting
<1> QED BY <1>6, <1>8, <1>9 DEF BarrierInv

(* The barrier a leaving thread has made takes the place of any other that *)
(* is pending.                                                             *)
LEMMA StoreKeeps == ASSUME BarrierInv, NEW a \in Agents, StoreBarrier(a) PROVE BarrierInv'
<1> USE Basics
<1>1. /\ pc[a] = "store" /\ next' = made[a] /\ made' = [made EXCEPT ![a] = 0]
      /\ pc' = [pc EXCEPT ![a] = "last"]
      /\ UNCHANGED <<parked, size, current, mine, old, count, round, nThreads, clients,
                     closing, served>>
  BY DEF StoreBarrier
<1>2. TypeOK
  BY DEF BarrierInv
<1>3. /\ pc'[a] = "last" /\ pc'["master"] = pc["master"]
      /\ \A b \in Agents \ {a} : pc'[b] = pc[b]
  BY <1>1, <1>2 DEF TypeOK
<1>4. /\ pc["master"] = "frame" /\ round = 0 /\ a \in Behind /\ a \notin clients
      /\ parked["master"] = 0 /\ Leaving = {a}
      /\ \A b \in Agents : pc[b] \in ExitPlaces => b = a
  BY <1>1, OneLeaves DEF BarrierInv, Behind, Work
<1>5. Coming' = current /\ Coming = current /\ Changing /\ Changing'
  BY <1>1, <1>3, <1>4 DEF Coming, Changing
<1>6. /\ Started' = Started /\ a \in Started /\ Behind' \subseteq Behind
      /\ Staying' = Staying \ {a} /\ a \in Staying
  BY <1>1, <1>3 DEF Started, Staying, Behind
<1>7. /\ next' \in Barriers /\ next' # current /\ next' # 0
      /\ size[next'] = Cardinality(Staying)
  BY <1>1 DEF BarrierInv, Counting, Barriers
<1>8. \A b \in Agents : ~Newcomer(b)
  <2>1. \A b \in Agents : Newcomer(b) => b = a
    BY <1>4 DEF BarrierInv, Mine
  <2> QED BY <1>1, <2>1 DEF Newcomer
<1>9. \A b \in Started : mine[b] = current
  BY <1>4, <1>5, <1>8 DEF BarrierInv, Mine, Newcomer, Started
<1>10. TypeOK'
  <2>1. next' \in 0..MaxBarriers
    BY <1>7 DEF Barriers
  <2>2. made' \in [Agents -> 0..MaxBarriers]
    BY <1>1, <1>2 DEF TypeOK
  <2>3. pc' \in [Threads -> Everywhere]
    BY <1>1, <1>2 DEF TypeOK
  <2> QED BY <1>1, <1>2, <2>1, <2>2, <2>3 DEF TypeOK
<1>11. Positions' /\ Pointers'
  BY <1>1, <1>3, <1>4, <1>7 DEF BarrierInv, Positions, Places, Pointers
<1>12. Mine'
  <2>1. \A b \in Agents : ~Newcomer(b)'
    BY <1>1, <1>3, <1>8 DEF Newcomer
  <2>2. \A b \in Agents : pc'[b] # "start"
    BY <1>3, <1>8 DEF Newcomer
  <2>3. \A b \in Agents : pc'[b] = "last" => mine'[b] = current
    BY <1>1, <1>3, <1>5, <1>6, <1>9 DEF BarrierInv, Mine
  <2> QED BY <1>1, <1>3, <1>4, <1>5, <1>6, <1>7, <1>9, <2>1, <2>2, <2>3 DEF Mine
<1>13. Cardinality(Staying') = Cardinality(Staying) - 1 /\ Cardinality(Staying) \in Nat
  <2>1. IsFiniteSet(Staying) /\ Cardinality(Staying) \in Nat
    BY FiniteAgents DEF Staying
  <2> QED BY <1>6, <2>1, FS_RemoveElement
<1>14. Sizes'
  <2>1. Users(Coming)' = Users(Coming)
    BY <1>1, <1>5, <1>6 DEF Users
  <2>2. size'[Coming'] = Cardinality(Users(Coming)') + 1
    BY <1>1, <1>5, <2>1 DEF BarrierInv, Sizes
  <2>3. BarrierFits'
    BY <1>1, <1>7, <1>13 DEF BarrierFits, Staying
  <2> QED BY <2>2, <2>3 DEF Sizes
<1>15. Counting'
  <2>1. Counted = {a} /\ Counted' = {} /\ Staying' \ {} = Staying'
    BY <1>1, <1>3, <1>4 DEF Counted
  <2>2. \A b \in Agents : pc'[b] \notin {"count", "store"}
    BY <1>3, <1>4
  <2> QED BY <1>1, <1>6, <2>1, <2>2 DEF BarrierInv, Counting
<1>16. Lone'
  <2>1. Leaving' \subseteq Leaving /\ a \notin Leaving'
    BY <1>1, <1>6 DEF Leaving
  <2>2. Leaving' = {}
    BY <1>4, <2>1
  <2> QED BY <1>1, <1>3, <1>4, <1>7, <2>2, LoneStep DEF BarrierInv
<1>17. Parked'
  BY <1>1, <1>3, <1>4 DEF BarrierInv, Parked
<1>18. Work'
  BY <1>1, <1>2, <1>3, <1>4 DEF BarrierInv, Work, TypeOK
<1> QED BY <1>10, <1>11, <1>12, <1>14, <1>15, <1>16, <1>17, <1>18 DEF BarrierInv

LEMMA ExitKeeps == ASSUME BarrierInv, NEW a \in Agents, ExitThread(a) PROVE BarrierInv'
BY ReadKeeps, WriteKeeps, MakeKeeps, StoreKeeps DEF ExitThread

-----------------------------------------------------------------------------
(* A barrier opens for exactly the threads it was made for.                *)

WaitPlaces == {"wait", "waitNew", "wait2", "last"}

(* The barrier a waiting agent thread goes by has a place for it.          *)
LEMMA AgentSeat ==
  ASSUME BarrierInv, NEW a \in Agents, pc[a] \in WaitPlaces
  PROVE  /\ mine[a] \in Barriers /\ a \in Crew(mine[a])
         /\ size[mine[a]] = Cardinality(Crew(mine[a])) + 1
         /\ pc["master"] \in {"new", "plain"} => mine[a] = Coming
<1> USE Basics DEF WaitPlaces
<1>1. TypeOK /\ Positions /\ Pointers /\ pc[a] \in Places /\ a \in Started
  BY DEF BarrierInv, Positions, Started
<1>2. Coming \in Barriers
  BY <1>1 DEF Coming, Pointers, TypeOK
<1>3. size[IF next # 0 THEN next ELSE current] = Cardinality(Staying) + 1
  BY DEF BarrierInv, Sizes, BarrierFits, Staying
<1>4. CASE Changing /\ mine[a] = Coming
  <2>1. a \in Crew(mine[a]) /\ Crew(mine[a]) = Users(Coming)
    BY <1>1, <1>4 DEF Crew, Users
  <2>2. size[Coming] = Cardinality(Users(Coming)) + 1
    BY <1>4 DEF BarrierInv, Sizes
  <2>3. pc["master"] \notin {"new", "plain"}
    BY <1>4 DEF Changing
  <2> QED BY <1>2, <1>4, <2>1, <2>2, <2>3
<1>5. CASE Changing /\ mine[a] # Coming
  <2>1. next # 0 /\ mine[a] = next /\ pc[a] = "wait"
    BY <1>1, <1>5 DEF BarrierInv, Mine, Changing
  <2>2. a \in Staying /\ next \in Barriers
    BY <1>1, <2>1 DEF Staying, TypeOK, Barriers
  <2>3. Crew(mine[a]) = Staying
    BY <1>5 DEF Crew
  <2>4. pc["master"] \notin {"new", "plain"}
    BY <1>5 DEF Changing
  <2> QED BY <1>3, <2>1, <2>2, <2>3, <2>4
<1>6. CASE ~Changing
  <2>1. pc["master"] \in {"new", "plain", "clear"}
    BY <1>1, <1>6 DEF Positions, Changing
  <2>2. pc[a] \notin {"last", "compare"}
    BY <1>1, <2>1 DEF Positions, Places
  <2>3. mine[a] = current /\ Coming = current
    BY <1>1, <1>6, <2>1, <2>2 DEF BarrierInv, Mine, Coming, Changing
  <2>4. next # 0 => next = current
    BY <1>1, <2>1 DEF Pointers
  <2>5. a \in Staying /\ Crew(mine[a]) = Staying
    BY <1>1, <1>6, <2>2 DEF Staying, Started, Crew
  <2> QED BY <1>2, <1>3, <2>3, <2>4, <2>5
<1> QED BY <1>4, <1>5, <1>6

LEMMA MasterSeat ==
  ASSUME BarrierInv, pc["master"] \in {"old", "new", "plain"}
  PROVE  Coming \in Barriers /\ size[Coming] = Cardinality(Crew(Coming)) + 1
<1>1. TypeOK /\ Pointers
  BY DEF BarrierInv
<1>2. Coming \in Barriers
  BY <1>1 DEF Coming, Pointers, TypeOK
<1>3. CASE pc["master"] = "old"
  BY <1>2, <1>3 DEF BarrierInv, Sizes, Crew, Changing
<1>4. CASE pc["master"] \in {"new", "plain"}
  <2>1. Crew(Coming) = Staying /\ Coming = current /\ (next # 0 => next = current)
    BY <1>1, <1>4 DEF Crew, Changing, Coming, Pointers
  <2> QED BY <1>2, <2>1 DEF BarrierInv, Sizes, BarrierFits, Staying
<1> QED BY <1>3, <1>4

(* A thread parks while somebody is missing, or all go on.                 *)
Parks(t, b) ==
  /\ parked' = [parked EXCEPT ![t] = b] /\ pc' = pc /\ round' = round
  /\ \E u \in (Crew(b) \union {"master"}) \ {t} : parked[u] # b

Opens ==
  /\ pc["master"] \in {"old", "new", "plain"}
  /\ \A a \in Crew(Coming) : pc[a] \in WaitPlaces /\ mine[a] = Coming
  /\ parked' = [u \in Threads |-> IF u \in Crew(Coming) \union {"master"} THEN 0 ELSE parked[u]]
  /\ pc' = [u \in Threads |->
              IF u \in Crew(Coming) \union {"master"}
              THEN IF pc[u] = "plain" /\ round = 1 THEN "check" ELSE After[pc[u]]
              ELSE pc[u]]
  /\ round' = IF pc["master"] = "plain" THEN (round + 1) % 3 ELSE round

Comes(t, b) ==
  IF t = "master" THEN pc[t] \in {"old", "new", "plain"} /\ b = Coming
  ELSE pc[t] \in WaitPlaces /\ b = mine[t]

LEMMA WaitSplits ==
  ASSUME BarrierInv, NEW t \in Threads, NEW b, Comes(t, b), Wait(t, b)
  PROVE  Parks(t, b) \/ Opens
<1> USE Basics
<1> DEFINE C == Crew(b) \union {"master"}
<1>1. /\ b \in Barriers /\ t \in C
      /\ size[b] = Cardinality(Crew(b)) + 1
  BY AgentSeat, MasterSeat DEF Comes, Threads
<1>2. Crew(b) \subseteq Agents
  BY DEF Crew, Users, Started, Staying
<1>3. IsFiniteSet(C) /\ Cardinality(C) = size[b]
  <2>1. IsFiniteSet(Crew(b)) /\ "master" \notin Crew(b)
    BY <1>2, FiniteAgents
  <2> QED BY <1>1, <2>1, FS_AddElement
<1>4. ASSUME NEW u \in Threads, parked[u] = b PROVE u \in C
  <2>1. CASE u = "master"
    BY <2>1
  <2>2. CASE u \in Agents
    <3>1. parked[u] = mine[u] /\ pc[u] \in WaitPlaces
      BY <1>1, <1>4, <2>2 DEF BarrierInv, Parked, WaitPlaces
    <3> QED BY <1>4, <2>2, <3>1, AgentSeat
  <2> QED BY <2>1, <2>2 DEF Threads
<1>5. Arrivals(t, b) \subseteq C
  BY <1>1, <1>4 DEF Arrivals
<1>6. CASE Cardinality(Arrivals(t, b)) = size[b]
  <2>1. Arrivals(t, b) = C
    BY <1>3, <1>5, <1>6, FS_Subset
  <2>2. \A a \in Crew(b) : pc[a] \in WaitPlaces /\ mine[a] = b
    <3>1. ASSUME NEW a \in Crew(b) PROVE a = t \/ parked[a] = b
      BY <2>1 DEF Arrivals
    <3> QED BY <1>1, <1>2, <3>1 DEF Comes, BarrierInv, Parked, WaitPlaces
  <2>3. pc["master"] \in {"old", "new", "plain"} /\ b = Coming
    <3>1. "master" = t \/ parked["master"] = b
      BY <2>1 DEF Arrivals
    <3> QED BY <1>1, <3>1 DEF Comes, BarrierInv, Parked
  <2>4. (\E u \in C : pc[u] = "plain") <=> pc["master"] = "plain"
    BY <2>2 DEF WaitPlaces
  <2> QED BY <1>6, <2>1, <2>2, <2>3, <2>4 DEF Wait, Opens
<1>7. CASE Cardinality(Arrivals(t, b)) # size[b]
  <2>1. PICK u \in C : u \notin Arrivals(t, b)
    BY <1>3, <1>5, <1>7
  <2>2. u # t /\ parked[u] # b
    BY <1>2, <2>1 DEF Arrivals, Threads
  <2> QED BY <1>7, <2>2 DEF Wait, Parks
<1> QED BY <1>6, <1>7

LEMMA ParkKeeps ==
  ASSUME BarrierInv, NEW t \in Threads, NEW b, Comes(t, b), Parks(t, b),
         UNCHANGED <<barriers, leave, nThreads, clients, closing, served>>
  PROVE  BarrierInv'
<1> USE Basics
<1>1. /\ parked' = [parked EXCEPT ![t] = b]
      /\ UNCHANGED <<pc, round, size, current, next, mine, old, count, made, nThreads, clients,
                     closing, served>>
  BY DEF Parks, barriers, leave
<1>2. TypeOK /\ b \in Barriers
  BY AgentSeat, MasterSeat DEF BarrierInv, Comes, Threads
<1>3. parked' \in [Threads -> 0..MaxBarriers]
  BY <1>1, <1>2 DEF TypeOK, Barriers
<1>4. TypeOK'
  BY <1>1, <1>2, <1>3 DEF TypeOK
<1>5. Positions' /\ Pointers'
  BY <1>1 DEF BarrierInv, Positions, Places, Pointers
<1>6. /\ Started' = Started /\ Staying' = Staying /\ Behind' = Behind
      /\ Coming' = Coming /\ Changing' = Changing
  BY <1>1 DEF Started, Staying, Behind, Coming, Changing
<1>7. Users(Coming)' = Users(Coming) /\ Crew(Coming)' = Crew(Coming)
  BY <1>1, <1>6 DEF Users, Crew
<1>8. Mine'
  BY <1>1, <1>6 DEF BarrierInv, Mine, Newcomer
<1>9. Sizes'
  BY <1>1, <1>6, <1>7 DEF BarrierInv, Sizes, BarrierFits, Staying
<1>10. Work'
  BY <1>1 DEF BarrierInv, Work
<1>11. Crew(Coming) \subseteq Agents
  BY DEF Crew, Users, Started, Staying
<1>12. Parked'
  <2>1. \A a \in Agents : parked'[a] # 0 => parked'[a] = mine[a] /\ pc[a] \in WaitPlaces
    BY <1>1, <1>2 DEF BarrierInv, Parked, WaitPlaces, Comes, TypeOK
  <2>2. ASSUME parked'["master"] # 0
        PROVE  /\ pc["master"] \in {"old", "new", "plain"}
               /\ parked'["master"] = Coming
    BY <1>1, <1>2, <2>2 DEF BarrierInv, Parked, Comes, TypeOK
  <2>3. ASSUME parked'["master"] # 0 PROVE \E a \in Crew(Coming) : parked'[a] = 0
    <3>1. CASE b = Coming
      <4>1. PICK u \in (Crew(b) \union {"master"}) \ {t} : parked[u] # b
        BY DEF Parks
      <4>2. u # "master"
        BY <1>1, <1>2, <2>2, <2>3, <3>1, <4>1 DEF TypeOK
      <4>3. u \in Crew(Coming) /\ u \in Agents /\ parked'[u] = parked[u]
        BY <1>1, <1>2, <1>11, <3>1, <4>1, <4>2 DEF TypeOK, Threads
      <4>4. parked[u] = 0
        <5>1. SUFFICES ASSUME parked[u] # 0 PROVE FALSE
          OBVIOUS
        <5>2. parked[u] = mine[u] /\ pc[u] \in WaitPlaces
          BY <4>3, <5>1 DEF BarrierInv, Parked, WaitPlaces
        <5>3. pc["master"] \in {"new", "plain"} => mine[u] = Coming
          BY <4>3, <5>2, AgentSeat
        <5>4. pc["master"] = "old" => mine[u] = Coming
          BY <4>3 DEF Crew, Changing, Users
        <5> QED BY <2>2, <2>3, <3>1, <4>1, <5>2, <5>3, <5>4
      <4> QED BY <4>3, <4>4
    <3>2. CASE b # Coming
      <4>1. t \in Agents /\ b = mine[t] /\ pc[t] \in WaitPlaces
        BY <3>2 DEF Comes, Threads
      <4>2. pc["master"] = "old"
        BY <2>2, <2>3, <3>2, <4>1, AgentSeat
      <4>3. parked["master"] # 0
        BY <1>1, <1>2, <2>3, <4>1 DEF TypeOK
      <4>4. PICK a \in Crew(Coming) : parked[a] = 0
        BY <4>3 DEF BarrierInv, Parked
      <4>5. a # t
        BY <3>2, <4>1, <4>2, <4>4 DEF Crew, Changing, Users
      <4> QED BY <1>1, <1>2, <1>11, <4>4, <4>5 DEF TypeOK, Threads
    <3> QED BY <3>1, <3>2
  <2> QED BY <1>1, <1>6, <1>7, <2>1, <2>2, <2>3 DEF Parked, WaitPlaces
<1>13. Counting' /\ Lone'
  BY <1>1 DEF BarrierInv, Counting, Counted, Lone, Leaving, Staying
<1> QED BY <1>4, <1>5, <1>8, <1>9, <1>10, <1>12, <1>13 DEF BarrierInv

(* Where the threads are after a barrier has opened.                       *)
LEMMA OpenTypes ==
  ASSUME BarrierInv, Opens, UNCHANGED <<barriers, leave, nThreads, clients, closing, served>>
  PROVE  /\ TypeOK' /\ Pointers /\ Positions
         /\ \A a \in Crew(Coming) : /\ a \in Agents /\ pc[a] \in WaitPlaces /\ mine[a] = Coming
                                    /\ parked'[a] = 0 /\ pc'[a] = After[pc[a]]
         /\ \A a \in Agents \ Crew(Coming) : pc'[a] = pc[a] /\ parked'[a] = parked[a]
         /\ parked'["master"] = 0
         /\ pc'["master"] = CASE pc["master"] = "old" -> "new"
                              [] pc["master"] = "new" -> "clear"
                              [] OTHER -> IF round = 1 THEN "check" ELSE "frame"
         /\ UNCHANGED <<size, current, next, mine, old, count, made, nThreads, clients, closing,
                     served>>
<1> USE Basics
<1>1. Crew(Coming) \subseteq Agents
  BY DEF Crew, Users, Started, Staying
<1>2. \A a \in Crew(Coming) : pc[a] \in WaitPlaces /\ mine[a] = Coming
  BY DEF Opens
<1>3. \A a \in Crew(Coming) : /\ parked'[a] = 0 /\ pc'[a] = After[pc[a]]
                              /\ pc'[a] \in {"compare", "act", "compare2", "top", "none"}
  BY <1>1, <1>2 DEF Opens, WaitPlaces, After
<1>4. \A a \in Agents \ Crew(Coming) : pc'[a] = pc[a] /\ parked'[a] = parked[a]
  BY DEF Opens
<1>5. /\ parked'["master"] = 0
      /\ pc'["master"] = CASE pc["master"] = "old" -> "new"
                           [] pc["master"] = "new" -> "clear"
                           [] OTHER -> IF round = 1 THEN "check" ELSE "frame"
  BY DEF Opens, After
<1>6. UNCHANGED <<size, current, next, mine, old, count, made, nThreads, clients, closing, served>>
  BY DEF barriers, leave
<1>7. TypeOK'
  <2>1. \A u \in Threads : pc'[u] \in Everywhere
    BY <1>3, <1>4, <1>5 DEF BarrierInv, TypeOK, Threads
  <2>2. \A u \in Threads : parked'[u] \in 0..MaxBarriers
    BY <1>3, <1>4, <1>5 DEF BarrierInv, TypeOK, Threads
  <2>3. pc' = [u \in Threads |-> pc'[u]] /\ parked' = [u \in Threads |-> parked'[u]]
    BY DEF Opens
  <2>4. round' \in {0, 1, 2}
    BY DEF Opens, BarrierInv, TypeOK
  <2> QED BY <1>6, <2>1, <2>2, <2>3, <2>4 DEF BarrierInv, TypeOK
<1> QED BY <1>1, <1>2, <1>3, <1>4, <1>5, <1>6, <1>7 DEF BarrierInv

LEMMA OpenKeeps ==
  ASSUME BarrierInv, Opens, UNCHANGED <<barriers, leave, nThreads, clients, closing, served>>
  PROVE  BarrierInv'
<1> USE Basics
<1>1. TypeOK' /\ Pointers /\ Positions /\ TypeOK
  BY OpenTypes DEF BarrierInv
<1>2. \A a \in Crew(Coming) : /\ a \in Agents /\ pc[a] \in WaitPlaces /\ mine[a] = Coming
                              /\ parked'[a] = 0 /\ pc'[a] = After[pc[a]]
  BY OpenTypes
<1>3. \A a \in Agents \ Crew(Coming) : pc'[a] = pc[a] /\ parked'[a] = parked[a]
  BY OpenTypes
<1>4. /\ UNCHANGED <<size, current, next, mine, old, count, made, nThreads, clients, closing,
                     served>>
      /\ parked'["master"] = 0
  BY OpenTypes
<1>5. Parked'
  <2>1. \A a \in Agents : parked'[a] # 0 => parked'[a] = parked[a] /\ pc'[a] = pc[a]
    BY <1>2, <1>3
  <2> QED BY <1>4, <2>1 DEF BarrierInv, Parked
<1>10. Counting' /\ Lone'
  <2>1. pc["master"] \in {"old", "new", "plain"}
    BY DEF Opens
  <2>2. \A a \in Agents : pc[a] \notin ExitPlaces
    BY <1>1, <2>1 DEF Positions, Places
  <2>3. \A a \in Agents : \/ pc'[a] = pc[a]
                          \/ pc[a] \in {"wait", "waitNew", "wait2"}
                             /\ pc'[a] \in {"compare", "act", "compare2"}
                          \/ pc[a] = "last" /\ pc'[a] = "none"
    BY <1>2, <1>3 DEF WaitPlaces, After
  <2>4. Staying' = Staying /\ Leaving' = Leaving
    BY <1>4, <2>3 DEF Staying, Leaving
  <2>5. Counting'
    BY <1>4, <2>2, <2>3, <2>4, CountingStep DEF BarrierInv
  <2>6. ASSUME pc'["master"] = "frame", NEW a \in Agents PROVE pc'[a] # "wait"
    <3>1. pc["master"] = "plain" /\ round = 2
      BY <1>1, <2>1, <2>6, OpenTypes DEF Positions, TypeOK
    <3>2. pc[a] \in {"none", "compare", "act", "wait2"}
      BY <1>1, <3>1 DEF Positions, Places
    <3> QED BY <2>3, <3>2
  <2>7. Leaving \subseteq Agents
    BY DEF Leaving, Staying
  <2>8. Lone'
    BY <1>4, <2>1, <2>4, <2>6, <2>7, LoneStep DEF BarrierInv
  <2> QED BY <2>5, <2>8
<1>6. CASE pc["master"] = "old"
  <2>1. /\ pc'["master"] = "new" /\ round = 1 /\ round' = 1
        /\ Coming = old /\ Coming' = current /\ Changing /\ ~Changing'
        /\ next = current /\ old # current /\ next # 0
    BY <1>1, <1>6, OpenTypes DEF Opens, Positions, Pointers, Coming, Changing, TypeOK
  <2>2. \A a \in Agents : pc[a] \in {"none", "wait", "last"}
    BY <1>1, <1>6, <2>1 DEF Positions, Places
  <2>3. \A a \in Agents : a \in Crew(Coming) <=> pc[a] # "none" /\ mine[a] = old
    BY <2>1, <2>2 DEF Crew, Users, Started
  <2>4. \A a \in Agents : pc[a] = "wait" /\ mine[a] # old => mine[a] = current
    BY <1>6, <2>1, <2>2 DEF BarrierInv, Mine, Started
  <2>5. \A a \in Agents : pc[a] = "last" => mine[a] = old
    BY <2>1 DEF BarrierInv, Mine
  <2>6. \A a \in Agents :
          pc'[a] = IF pc[a] = "last" THEN "none"
                   ELSE IF pc[a] = "wait" /\ mine[a] = old THEN "compare" ELSE pc[a]
    BY <1>2, <1>3, <2>2, <2>3, <2>5 DEF After
  <2>7. Positions' /\ Pointers'
    BY <1>1, <1>4, <1>6, <2>1, <2>2, <2>6 DEF Positions, Places, Pointers
  <2>8. Mine'
    <3>1. \A a \in Agents : pc'[a] # "none" =>
            mine'[a] = (IF pc'[a] = "compare" THEN old' ELSE current')
      BY <1>4, <2>2, <2>4, <2>6
    <3>2. \A a \in Agents : pc'[a] \in {"none", "compare", "wait"}
      BY <2>2, <2>6
    <3>3. \A a \in Agents : ~Newcomer(a)'
      BY <3>1, <3>2 DEF Newcomer
    <3> QED BY <2>1, <3>1, <3>2, <3>3 DEF Mine, Started
  <2>9. Staying' = Staying
    BY <2>2, <2>6 DEF Staying
  <2>10. Sizes'
    BY <1>4, <2>1, <2>9 DEF BarrierInv, Sizes, BarrierFits, Staying
  <2>11. Work'
    <3>1. \A a \in clients : pc[a] = "wait"
      BY <1>1, <2>2 DEF BarrierInv, Work, TypeOK
    <3>2. \A a \in clients' : pc'[a] \notin {"none", "last"} \union ExitPlaces
      BY <1>1, <1>4, <2>6, <3>1 DEF TypeOK
    <3>3. \A a \in Agents : pc[a] = "wait" => a \notin served
      BY <1>6 DEF BarrierInv, Work
    <3> QED BY <1>4, <2>1, <2>2, <2>6, <3>2, <3>3 DEF Work
  <2> QED BY <1>1, <1>5, <1>10, <2>7, <2>8, <2>10, <2>11 DEF BarrierInv
<1>7. ASSUME pc["master"] \in {"new", "plain"}
      PROVE  /\ Coming = current /\ Coming' = current /\ ~Changing
             /\ \A a \in Agents : pc[a] # "none" => pc[a] \in WaitPlaces /\ mine[a] = current
             /\ \A a \in Agents : pc'[a] = IF pc[a] = "none" THEN "none" ELSE After[pc[a]]
             /\ \A a \in Agents : pc[a] \notin {"start", "last"}
  <2>1. Coming = current /\ Coming' = current /\ ~Changing
    BY <1>4, <1>7, OpenTypes DEF Coming, Changing
  <2>2. \A a \in Agents : pc[a] \notin {"start", "last"}
    BY <1>1, <1>7 DEF Positions, Places
  <2>3. \A a \in Agents : a \in Crew(Coming) <=> pc[a] # "none"
    BY <2>1, <2>2 DEF Crew, Staying
  <2> QED BY <1>2, <1>3, <2>1, <2>2, <2>3
<1>8. CASE pc["master"] = "new"
  <2>1. pc'["master"] = "clear" /\ round = 1 /\ round' = 1 /\ ~Changing' /\ next = current
    BY <1>1, <1>8, OpenTypes DEF Opens, Positions, Pointers, Changing
  <2>2. \A a \in Agents : pc[a] \in {"none", "waitNew", "wait"}
    BY <1>1, <1>7, <1>8, <2>1 DEF Positions, Places, WaitPlaces
  <2>3. \A a \in Agents :
          pc'[a] = IF pc[a] = "none" THEN "none"
                   ELSE IF pc[a] = "wait" THEN "compare" ELSE "act"
    BY <1>7, <1>8, <2>2 DEF After
  <2>4. Positions' /\ Pointers'
    BY <1>1, <1>4, <1>8, <2>1, <2>2, <2>3 DEF Positions, Places, Pointers
  <2>5. Mine'
    <3>1. \A a \in Agents : pc'[a] # "none" => mine'[a] = Coming'
      BY <1>4, <1>7, <1>8, <2>3
    <3>2. \A a \in Agents : pc'[a] \notin {"start", "top", "wait", "last"}
      BY <2>2, <2>3
    <3> QED BY <2>1, <3>1, <3>2 DEF Mine, Started, Newcomer
  <2>6. Staying' = Staying
    BY <2>2, <2>3 DEF Staying
  <2>7. Sizes'
    BY <1>4, <2>1, <2>6 DEF BarrierInv, Sizes, BarrierFits, Staying
  <2>8. Work'
    <3>1. \A a \in clients : pc[a] \in {"wait", "waitNew"}
      BY <1>1, <2>2 DEF BarrierInv, Work, TypeOK
    <3>2. \A a \in clients' : pc'[a] \notin {"none", "last"} \union ExitPlaces
      BY <1>1, <1>4, <2>3, <3>1 DEF TypeOK
    <3>3. \A a \in Agents : pc[a] \in {"wait", "waitNew"} => a \notin served
      BY <1>8 DEF BarrierInv, Work
    <3> QED BY <1>4, <2>1, <2>2, <2>3, <3>2, <3>3 DEF Work
  <2> QED BY <1>1, <1>5, <1>10, <2>4, <2>5, <2>7, <2>8 DEF BarrierInv
<1>9. CASE pc["master"] = "plain"
  <2>1. /\ round \in {1, 2} /\ next = 0 /\ old = 0 /\ next # current
        /\ round' = (IF round = 1 THEN 2 ELSE 0)
        /\ pc'["master"] = (IF round = 1 THEN "check" ELSE "frame")
        /\ Changing'
    BY <1>1, <1>9, OpenTypes DEF Opens, Positions, Pointers, Changing, TypeOK
  <2>2. \A a \in Agents : pc[a] \in {"none", IF round = 1 THEN "wait" ELSE "wait2"}
    BY <1>1, <1>7, <1>9, <2>1 DEF Positions, Places, WaitPlaces
  <2>3. \A a \in Agents :
          pc'[a] = IF pc[a] = "none" THEN "none"
                   ELSE IF round = 1 THEN "compare" ELSE "compare2"
    BY <1>7, <1>9, <2>1, <2>2 DEF After
  <2>4. Positions'
    BY <1>4, <2>1, <2>3 DEF Positions, Places
  <2>5. Pointers'
    BY <1>4, <2>1 DEF Pointers
  <2>6. Mine'
    <3>1. \A a \in Agents : pc'[a] # "none" => mine'[a] = Coming'
      BY <1>4, <1>7, <1>9, <2>3
    <3>2. \A a \in Agents : pc'[a] \notin {"start", "top", "wait", "last"}
      BY <2>3
    <3> QED BY <2>1, <3>1, <3>2 DEF Mine, Started, Newcomer
  <2>7. Staying' = Staying /\ Users(Coming)' = Staying
    <3>1. \A a \in Agents : pc'[a] # "none" => mine'[a] = Coming'
      BY <1>4, <1>7, <1>9, <2>3
    <3> QED BY <2>2, <2>3, <3>1 DEF Staying, Users, Started
  <2>8. Sizes'
    <3>1. size[current] = Cardinality(Staying) + 1
      BY <2>1 DEF BarrierInv, Sizes, BarrierFits, Staying
    <3>2. BarrierFits'
      BY <1>4, <2>1, <2>7, <3>1 DEF BarrierFits, Staying
    <3> QED BY <1>4, <1>7, <1>9, <2>7, <3>1, <3>2 DEF Sizes
  <2>9. Work'
    <3>1. \A a \in clients : pc[a] # "none" /\ a \in Agents
      BY <1>1 DEF BarrierInv, Work, TypeOK
    <3>2. \A a \in clients' : pc'[a] \notin {"none", "last"} \union ExitPlaces
      BY <1>1, <1>4, <2>3, <3>1 DEF TypeOK
    <3>3. \A a \in Agents : pc[a] = "wait" => a \notin served
      BY <1>9 DEF BarrierInv, Work
    <3> QED BY <1>4, <2>1, <2>2, <2>3, <3>2, <3>3 DEF Work
  <2> QED BY <1>1, <1>5, <1>10, <2>4, <2>5, <2>6, <2>8, <2>9 DEF BarrierInv
<1> QED BY <1>6, <1>8, <1>9 DEF Opens

LEMMA WaitKeeps ==
  ASSUME BarrierInv, NEW t \in Threads, NEW b, Comes(t, b), Wait(t, b),
         UNCHANGED <<barriers, leave, nThreads, clients, closing, served>>
  PROVE  BarrierInv'
<1>1. Parks(t, b) \/ Opens
  BY WaitSplits
<1> QED BY <1>1, ParkKeeps, OpenKeeps

(* The two places where a thread comes to a barrier.                       *)
LEMMA WaitComes ==
  /\ MasterWait => \E b : Comes("master", b) /\ Wait("master", b)
  /\ \A a \in Agents : AgentWaits(a) /\ BarrierInv => Comes(a, mine[a])
<1>1. ASSUME MasterWait PROVE \E b : Comes("master", b) /\ Wait("master", b)
  <2>1. CASE pc["master"] = "old" /\ Wait("master", old)
    BY <2>1 DEF Comes, Coming
  <2>2. CASE pc["master"] \in {"new", "plain"} /\ Wait("master", current)
    BY <2>2 DEF Comes, Coming
  <2> QED BY <1>1, <2>1, <2>2 DEF MasterWait
<1>2. ASSUME NEW a \in Agents, AgentWaits(a), BarrierInv PROVE Comes(a, mine[a])
  <2>1. pc[a] # "waitNew2"
    BY <1>2 DEF BarrierInv, Positions, Places
  <2> QED BY <1>2, <2>1, Basics DEF AgentWaits, Comes, WaitPlaces
<1> QED BY <1>1, <1>2

LEMMA BarrierInvKept ==
  ASSUME BarrierInv, Spaced = {"come", "go"}, Prompt, [Next]_vars PROVE BarrierInv'
<1>1. CASE BeginEndCycle
  BY <1>1, BeginKeeps
<1>2. CASE WaitMaster
  BY <1>2, WaitMasterKeeps
<1>3. CASE MasterWaits
  <2>1. PICK b : Comes("master", b) /\ Wait("master", b)
    BY <1>3, WaitComes DEF MasterWaits
  <2> QED BY <1>3, <2>1, WaitKeeps, Basics DEF MasterWaits
<1>4. CASE ClearRequest
  BY <1>4, ClearKeeps
<1>5. ASSUME NEW a \in Agents, StartThread(a) PROVE BarrierInv'
  BY <1>5, StartKeeps
<1>6. ASSUME NEW a \in Agents, LoopTop(a) PROVE BarrierInv'
  BY <1>6, TopKeeps
<1>7. ASSUME NEW a \in Agents, AgentWaits(a) PROVE BarrierInv'
  <2>1. Comes(a, mine[a]) /\ a \in Threads
    BY <1>7, WaitComes, Basics
  <2> QED BY <1>7, <2>1, WaitKeeps DEF AgentWaits
<1>8. ASSUME NEW a \in Agents, WaitSlaveCompare(a) PROVE BarrierInv'
  BY <1>8, CompareKeeps
<1>9. ASSUME NEW a \in Agents, AgentEndCycle(a) PROVE BarrierInv'
  BY <1>9, ActKeeps
<1>10. ASSUME NEW a \in Agents, ExitThread(a) PROVE BarrierInv'
  BY <1>10, ExitKeeps
<1>11. ASSUME NEW a \in Agents, ClientConnect(a) PROVE BarrierInv'
  BY <1>11, ConnectKeeps
<1>12. ASSUME NEW a \in Agents, ConnectionLost(a) PROVE BarrierInv'
  BY <1>12, LostKeeps
<1>13. CASE UNCHANGED vars
  <2>1. closing' \subseteq clients' /\ \A a, b \in closing' : a = b
    BY <1>13 DEF vars, BarrierInv, TypeOK, Lone
  <2> QED BY <1>13, <2>1, QuietStep DEF vars
<1> QED BY <1>1, <1>2, <1>3, <1>4, <1>5, <1>6, <1>7, <1>8, <1>9, <1>10, <1>11, <1>12, <1>13
        DEF Next, MasterStep, AgentStep

LEMMA BarriersAlways == ASSUME Spaced = {"come", "go"}, Prompt PROVE Spec => []BarrierInv
<1>1. BarrierInv /\ [Next]_vars => BarrierInv'
  BY BarrierInvKept
<1> QED BY InitBarrierInv, <1>1, PTL DEF Spec

(* Every variable of the threads, barriers and clients keeps its values,   *)
(* nThreads above all: its decrements meet its increments.                 *)
THEOREM ThreadTypes == ASSUME Spaced = {"come", "go"}, Prompt PROVE Spec => []TypeOK
<1>1. BarrierInv => TypeOK
  BY DEF BarrierInv
<1> QED BY BarriersAlways, <1>1, PTL

(* The barrier that counts next is made for the master and all the agent   *)
(* threads that will come to it, at each of the unlocked accesses by which *)
(* AgentThread and WaitMaster make and move barriers, while at most one    *)
(* agent comes and at most one is lost in a frame.                         *)
THEOREM RoomAtTheBarrier == ASSUME Spaced = {"come", "go"}, Prompt PROVE Spec => []BarrierFits
<1>1. BarrierInv => BarrierFits
  BY DEF BarrierInv, Sizes
<1> QED BY BarriersAlways, <1>1, PTL

(* EndCycle and the agent threads never all wait for one another, under    *)
(* the same conditions.                                                    *)
THEOREM NoBarrierDeadlock == ASSUME Spaced = {"come", "go"}, Prompt PROVE Spec => []SomebodyRuns
<1>1. BarrierInv => SomebodyRuns
  <2> SUFFICES ASSUME BarrierInv PROVE SomebodyRuns
    OBVIOUS
  <2>1. CASE parked["master"] = 0
    <3>1. pc["master"] # "none"
      BY DEF BarrierInv, Positions
    <3> QED BY <2>1, <3>1, Basics DEF SomebodyRuns
  <2>2. CASE parked["master"] # 0
    <3>1. PICK a \in Crew(Coming) : parked[a] = 0
      BY <2>2 DEF BarrierInv, Parked
    <3>2. a \in Agents /\ pc[a] # "none"
      BY DEF Crew, Users, Started, Staying
    <3> QED BY <3>1, <3>2, Basics DEF SomebodyRuns
  <2> QED BY <2>1, <2>2
<1> QED BY BarriersAlways, <1>1, PTL

-----------------------------------------------------------------------------
(* The threads keep the promise of EndCycle, step by step.                 *)

LEMMA MasterStays ==
  ASSUME TypeOK, NEW a \in Agents, NEW v, pc' = [pc EXCEPT ![a] = v]
  PROVE  pc'["master"] = pc["master"]
BY Basics DEF TypeOK

LEMMA OpeningServes ==
  ASSUME BarrierInv, Opens, UNCHANGED <<barriers, leave, nThreads, clients, closing, served>>
  PROVE  Senses!Next \/ UNCHANGED Senses!vars
<1> USE Basics
<1>1. /\ UNCHANGED <<clients, served>> /\ pc["master"] \in {"old", "new", "plain"}
      /\ pc'["master"] = CASE pc["master"] = "old" -> "new"
                           [] pc["master"] = "new" -> "clear"
                           [] OTHER -> IF round = 1 THEN "check" ELSE "frame"
  BY OpenTypes DEF Opens
<1>2. CASE pc["master"] = "plain" /\ round # 1
  <2>1. ASSUME NEW a \in clients PROVE a \in served
    <3>1. a \in Agents /\ pc[a] \notin {"none", "last"}
      BY DEF BarrierInv, TypeOK, Work
    <3>2. a \in Crew(Coming)
      BY <1>2, <3>1 DEF Crew, Changing, Staying
    <3>3. pc[a] \in WaitPlaces /\ pc[a] \in Places
      BY <3>1, <3>2 DEF Opens, BarrierInv, Positions
    <3>4. pc[a] = "wait2"
      BY <1>2, <3>1, <3>3 DEF WaitPlaces, Places
    <3> QED BY <1>2, <3>1, <3>4 DEF BarrierInv, Work
  <2>2. Senses!Return
    BY <1>1, <1>2, <2>1 DEF Senses!Return
  <2> QED BY <2>2 DEF Senses!Next
<1>3. CASE ~(pc["master"] = "plain" /\ round # 1)
  <2>1. (pc["master"] # "frame") = TRUE /\ (pc["master"] # "frame")' = TRUE
    BY <1>1, <1>3
  <2> QED BY <1>1, <2>1 DEF Senses!vars
<1> QED BY <1>2, <1>3

LEMMA WaitServes ==
  ASSUME BarrierInv, NEW t \in Threads, NEW b, Comes(t, b), Wait(t, b),
         UNCHANGED <<barriers, leave, nThreads, clients, closing, served>>
  PROVE  Senses!Next \/ UNCHANGED Senses!vars
<1>1. CASE Parks(t, b)
  BY <1>1 DEF Parks, Senses!vars
<1> QED BY <1>1, WaitSplits, OpeningServes

LEMMA StepServes ==
  ASSUME BarrierInv, [Next]_vars
  PROVE  Senses!Next \/ UNCHANGED Senses!vars
<1> USE Basics
<1>1. TypeOK
  BY DEF BarrierInv
<1>2. CASE BeginEndCycle
  <2>1. /\ pc["master"] = "frame" /\ clients' = clients \ closing /\ served' = {}
        /\ closing \in SUBSET clients
    BY <1>1, <1>2 DEF BeginEndCycle, TypeOK
  <2>2. (pc["master"] # "frame")' = (clients' # {})
    BY <1>1, <1>2, <2>1 DEF BeginEndCycle, TypeOK
  <2>3. Senses!Call(closing)
    BY <2>1, <2>2 DEF Senses!Call
  <2> QED BY <2>1, <2>3 DEF Senses!Next
<1>3. CASE WaitMaster
  <2>1. pc["master"] = "check" /\ pc'["master"] \in {"old", "plain"}
    BY <1>1, <1>3 DEF WaitMaster, TypeOK
  <2>2. UNCHANGED <<clients, served>>
    BY <1>3 DEF WaitMaster
  <2> QED BY <2>1, <2>2 DEF Senses!vars
<1>4. CASE MasterWaits
  <2>1. PICK b : Comes("master", b) /\ Wait("master", b)
    BY <1>4, WaitComes DEF MasterWaits
  <2> QED BY <1>4, <2>1, WaitServes DEF MasterWaits
<1>5. CASE ClearRequest
  <2>1. pc["master"] = "clear" /\ round = 1
    BY <1>5 DEF ClearRequest, BarrierInv, Positions
  <2>2. pc'["master"] = "check" /\ UNCHANGED <<clients, served>>
    BY <1>1, <1>5, <2>1 DEF ClearRequest, TypeOK
  <2> QED BY <2>1, <2>2 DEF Senses!vars
<1>6. ASSUME NEW a \in Agents,
             \/ StartThread(a) \/ LoopTop(a) \/ WaitSlaveCompare(a)
             \/ ExitThread(a) \/ ConnectionLost(a)
      PROVE  UNCHANGED Senses!vars
  <2>1. pc'["master"] = pc["master"]
    BY <1>1, <1>6, MasterStays
       DEF StartThread, LoopTop, WaitSlaveCompare, ConnectionLost, ExitThread, ReadCount,
           WriteCount, MakeBarrier, StoreBarrier
  <2>2. UNCHANGED <<clients, served>>
    BY <1>6 DEF StartThread, LoopTop, WaitSlaveCompare, ConnectionLost, ExitThread, ReadCount,
                WriteCount, MakeBarrier, StoreBarrier
  <2> QED BY <2>1, <2>2 DEF Senses!vars
<1>7. ASSUME NEW a \in Agents, AgentWaits(a) PROVE Senses!Next \/ UNCHANGED Senses!vars
  <2>1. Comes(a, mine[a]) /\ a \in Threads
    BY <1>7, WaitComes
  <2> QED BY <1>7, <2>1, WaitServes DEF AgentWaits
<1>8. ASSUME NEW a \in Agents, AgentEndCycle(a) PROVE Senses!Next
  <2>1. pc'["master"] = pc["master"] /\ UNCHANGED clients /\ served' = served \union {a}
    BY <1>1, <1>8, MasterStays DEF AgentEndCycle
  <2>2. pc["master"] # "frame"
    BY <1>8 DEF AgentEndCycle, BarrierInv, Positions, Places
  <2>3. a \notin served
    BY <1>8, <2>2 DEF AgentEndCycle, BarrierInv, Work
  <2>4. Senses!Generate(a)
    BY <2>1, <2>2, <2>3 DEF Senses!Generate
  <2> QED BY <2>4 DEF Senses!Next
<1>9. ASSUME NEW a \in Agents, ClientConnect(a) PROVE Senses!Next
  <2>1. pc'["master"] = pc["master"] /\ pc["master"] = "frame"
    BY <1>1, <1>9, MasterStays DEF ClientConnect
  <2>2. Senses!Connect(a)
    BY <1>9, <2>1 DEF ClientConnect, Senses!Connect
  <2> QED BY <2>2 DEF Senses!Next
<1>10. CASE UNCHANGED vars
  BY <1>10 DEF vars, Senses!vars
<1> QED BY <1>2, <1>3, <1>4, <1>5, <1>6, <1>7, <1>8, <1>9, <1>10
        DEF Next, MasterStep, AgentStep

(* EndCycle, with its threads, its barriers and their changes, does what   *)
(* SenseCycle says: no agent thread works outside it, none twice in it,    *)
(* and it returns when every connected agent has its senses.               *)
THEOREM ThreadsServeSenses == ASSUME Spaced = {"come", "go"}, Prompt PROVE Spec => SenseSpec
<1>1. Init => Senses!Init
  BY Basics DEF Init, Senses!Init
<1>2. BarrierInv /\ [Next]_vars => [Senses!Next]_(Senses!vars)
  BY StepServes
<1> QED BY BarriersAlways, <1>1, <1>2, PTL DEF Spec, SenseSpec, Senses!Spec
=============================================================================
