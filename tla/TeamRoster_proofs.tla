-------------------------- MODULE TeamRoster_proofs --------------------------
(* Proofs about the registration of agents, for every number of agents,    *)
(* teams, numbers and robot types.                                         *)
EXTENDS TeamRoster, FiniteSetTheorems, TLAPS

\* Returning a uniform keeps the types of the number sets and type counts.
LEMMA ReturnUniformType ==
  ASSUME TypeOK, NEW a \in loaded, ReturnUniform(a)
  PROVE  unumSet' \in [Index -> SUBSET Int] /\ typeCount' \in [Index -> [RobotType -> Nat]]
<1> DEFINE i == InternalIndex(side[a])
           fewer == [typeCount[i] EXCEPT ![robotType[a]] = IF @ > 0 THEN @ - 1 ELSE @]
<1>1. i \in Index
  BY DEF TypeOK, Index, InternalIndex
<1>2. fewer \in [RobotType -> Nat]
  BY <1>1 DEF TypeOK
<1>3. CASE /\ unumSet' = [unumSet EXCEPT ![i] = @ \ {unum[a]}]
           /\ typeCount' = [typeCount EXCEPT ![i] = fewer]
  <2>1. unumSet' \in [Index -> SUBSET Int]
    BY <1>1, <1>3 DEF TypeOK
  <2>2. typeCount' \in [Index -> [RobotType -> Nat]]
    BY <1>1, <1>2, <1>3 DEF TypeOK
  <2>3. QED
    BY <2>1, <2>2
<1>4. CASE UNCHANGED <<unumSet, typeCount>>
  BY <1>4 DEF TypeOK
<1>5. QED
  BY <1>1, <1>3, <1>4 DEF ReturnUniform, TypeOK

\* Every variable has its type in every reachable state.
THEOREM TypeCorrect == Spec => []TypeOK
<1>1. Init => TypeOK
  <2> SUFFICES ASSUME Init PROVE TypeOK
    OBVIOUS
  <2>1. disappeared = <<>> /\ updating = FALSE
    BY DEF Init
  <2>4. disappeared \in Seq(Agent)
    BY <2>1
  <2>2. typeCount \in [Index -> [RobotType -> Nat]]
    BY DEF Init
  <2>3. QED
    <3>1. updating \in BOOLEAN /\ (updating => disappeared # <<>>)
      BY <2>1
    <3>2. unumSet \in [Index -> SUBSET Int] /\ leftIndex \in Index
      BY DEF Init, Index
    <3>3. QED
      BY <2>2, <2>4, <3>1, <3>2 DEF Init, TypeOK
<1>2. TypeOK /\ [Next]_vars => TypeOK'
  <2> SUFFICES ASSUME TypeOK, [Next]_vars PROVE TypeOK'
    OBVIOUS
  <2> USE DEF TypeOK, Index, Side
  <2>1. ASSUME NEW a \in Agent, AgentConnect(a) PROVE TypeOK'
    BY <2>1 DEF AgentConnect, stateVars, gameVars
  <2>2. ASSUME NEW a \in Agent, ClientDisconnect(a) PROVE TypeOK'
    BY <2>2 DEF ClientDisconnect, PushDisappearedAgent, stateVars, gameVars
  <2>3. ASSUME NEW a \in Agent, TrainerKill(a) PROVE TypeOK'
    BY <2>3 DEF TrainerKill, PushDisappearedAgent, stateVars, gameVars
  <2>4. ASSUME NEW a \in Agent, NEW t \in RobotType, LoadScene(a, t) PROVE TypeOK'
    BY <2>4 DEF LoadScene, gameVars
  <2>5. ASSUME NEW a \in Agent, NEW name \in TeamName, NEW n \in RequestedUnum,
               RequestUniform(a, name, n)
        PROVE  TypeOK'
    <3>1. PICK i \in IndexFor(name) :
            \E number \in IF n = 0 THEN FirstFree(unumSet[i]) ELSE {n} :
              RegisterAt(a, i, name, number)
      BY <2>5 DEF RequestUniform
    <3>2. PICK number \in IF n = 0 THEN FirstFree(unumSet[i]) ELSE {n} :
            RegisterAt(a, i, name, number)
      BY <3>1
    <3>3. i \in Index /\ number \in Int /\ robotType[a] \in RobotType
      BY <2>5, ConstantsAssumption DEF IndexFor, FirstFree, RequestUniform
    <3>4. SideOf(i) \in Side
      BY DEF SideOf
    <3>5. /\ teamName' \in [Index -> TeamName \union {NoName}]
          /\ unumSet' \in [Index -> SUBSET Int]
      BY <3>2, <3>3 DEF RegisterAt
    <3> DEFINE more == [typeCount[i] EXCEPT ![robotType[a]] = @ + 1]
    <3>8. more \in [RobotType -> Nat]
      BY <3>3
    <3>9. \/ UNCHANGED <<typeCount, side, unum>>
          \/ /\ typeCount' = [typeCount EXCEPT ![i] = more]
             /\ side' = [side EXCEPT ![a] = SideOf(i)]
             /\ unum' = [unum EXCEPT ![a] = number]
      BY <3>2, <3>3 DEF RegisterAt
    <3> HIDE DEF more
    <3>6. typeCount' \in [Index -> [RobotType -> Nat]]
      BY <3>3, <3>8, <3>9
    <3>10. side' \in [Agent -> Side \union {"none"}] /\ unum' \in [Agent -> Int]
      <4>1. CASE UNCHANGED <<side, unum>>
        BY <4>1
      <4>2. CASE /\ side' = [side EXCEPT ![a] = SideOf(i)]
                 /\ unum' = [unum EXCEPT ![a] = number]
        BY <3>3, <3>4, <4>2
      <4>3. QED
        BY <3>9, <4>1, <4>2
    <3>7. QED
      BY <2>5, <3>5, <3>6, <3>10 DEF RequestUniform, agentVars
  <2>6. CASE StartUpdate
    BY <2>6 DEF StartUpdate, stateVars, gameVars
  <2>7. CASE AgentDisappear
    <3> DEFINE a == Head(disappeared)
    <3>1. a \in Agent /\ Tail(disappeared) \in Seq(Agent)
      BY <2>7 DEF AgentDisappear
    <3>2. unumSet' \in [Index -> SUBSET Int] /\ typeCount' \in [Index -> [RobotType -> Nat]]
      <4>1. CASE UNCHANGED <<unumSet, typeCount>>
        BY <4>1
      <4>2. CASE a \in loaded /\ ReturnUniform(a)
        BY <4>2, ReturnUniformType DEF TypeOK
      <4>3. QED
        BY <2>7, <4>1, <4>2 DEF AgentDisappear
    <3>3. /\ side' \in [Agent -> Side \union {"none"}]
          /\ unum' \in [Agent -> Int]
          /\ robotType' \in [Agent -> RobotType \union {NoType}]
          /\ \A b \in loaded' : robotType'[b] \in RobotType
      BY <2>7, <3>1 DEF AgentDisappear
    <3>4. QED
      BY <2>7, <3>1, <3>2, <3>3 DEF AgentDisappear
  <2>8. CASE SwapTeamSides
    BY <2>8 DEF SwapTeamSides, agentVars, OpponentTeam
  <2>9. CASE UNCHANGED vars
    BY <2>9 DEF vars, agentVars, stateVars, gameVars
  <2>10. QED
    BY <2>1, <2>2, <2>3, <2>4, <2>5, <2>6, <2>7, <2>8, <2>9 DEF Next
<1>3. QED
  BY <1>1, <1>2, PTL DEF Spec
-----------------------------------------------------------------------------
\* The internal index and the side of a team determine each other.
LEMMA IndexSide ==
  ASSUME TypeOK
  PROVE  /\ \A i \in Index : SideOf(i) \in Side /\ InternalIndex(SideOf(i)) = i
         /\ \A s \in Side : InternalIndex(s) \in Index /\ SideOf(InternalIndex(s)) = s
BY DEF TypeOK, Index, Side, SideOf, InternalIndex

\* WornIsTaken is what makes UniqueUniform inductive: a request is refused
\* when the number is in the set of the team, and every worn number is.
UniformInv == WornIsTaken /\ UniqueUniform

LEMMA UniformStep == TypeOK /\ TypeOK' /\ UniformInv /\ [Next]_vars => UniformInv'
<1> SUFFICES ASSUME TypeOK, TypeOK', UniformInv, [Next]_vars PROVE UniformInv'
  OBVIOUS
<1> DEFINE Playing(a) == a \in loaded /\ side[a] # "none"
<1>1. \A a \in Agent : Playing(a) =>
        side[a] \in Side /\ InternalIndex(side[a]) \in Index /\ unum[a] \in unumSet[InternalIndex(side[a])]
  BY IndexSide DEF UniformInv, WornIsTaken, Wearers, TypeOK, Side
<1>2. ASSUME \A a \in Agent : Playing(a)' => Playing(a) /\ unum'[a] = unum[a],
             \A a, b \in Agent : Playing(a)' /\ Playing(b)' /\ side'[a] = side'[b] => side[a] = side[b]
      PROVE  UniqueUniform'
  BY <1>2 DEF UniformInv, UniqueUniform, TypeOK
<1>3. CASE UNCHANGED <<side, unum, unumSet, leftIndex>> /\ \A a \in loaded' : Playing(a)' => Playing(a)
  BY <1>1, <1>2, <1>3 DEF UniformInv, UniqueUniform, WornIsTaken, Wearers, InternalIndex, TypeOK
<1>4. ASSUME NEW a \in Agent, AgentConnect(a) PROVE UniformInv'
  BY <1>3, <1>4 DEF AgentConnect, stateVars, gameVars
<1>5. ASSUME NEW a \in Agent, ClientDisconnect(a) PROVE UniformInv'
  BY <1>3, <1>5 DEF ClientDisconnect, PushDisappearedAgent, stateVars, gameVars
<1>6. ASSUME NEW a \in Agent, TrainerKill(a) PROVE UniformInv'
  BY <1>3, <1>6 DEF TrainerKill, PushDisappearedAgent, stateVars, gameVars
<1>7. ASSUME NEW a \in Agent, NEW t \in RobotType, LoadScene(a, t) PROVE UniformInv'
  <2>1. /\ side'[a] = "none" /\ loaded' = loaded \union {a}
        /\ unumSet' = unumSet /\ leftIndex' = leftIndex
        /\ \A b \in Agent : b # a => side'[b] = side[b] /\ unum'[b] = unum[b]
    BY <1>7 DEF LoadScene, gameVars, TypeOK
  <2>2. loaded \subseteq Agent
    BY DEF TypeOK
  <2>3. UniqueUniform'
    BY <2>1, <2>2 DEF UniformInv, UniqueUniform
  <2>4. WornIsTaken'
    BY <2>1, <2>2 DEF UniformInv, WornIsTaken, Wearers, InternalIndex
  <2>5. QED
    BY <2>3, <2>4 DEF UniformInv
<1>8. ASSUME NEW a \in Agent, NEW name \in TeamName, NEW n \in RequestedUnum,
             RequestUniform(a, name, n)
      PROVE  UniformInv'
  <2>1. PICK i \in Index, number \in Int : RegisterAt(a, i, name, number)
    BY <1>8, ConstantsAssumption DEF RequestUniform, IndexFor, FirstFree, Index
  <2>2. CASE UNCHANGED <<side, unum>>
    BY <1>8, <2>1, <2>2 DEF RegisterAt, RequestUniform, agentVars, TypeOK,
       UniformInv, UniqueUniform, WornIsTaken, Wearers, InternalIndex
  <2>3. CASE NumberInsertable(i, number) /\ side' = [side EXCEPT ![a] = SideOf(i)]
             /\ unum' = [unum EXCEPT ![a] = number]
    <3>1. /\ unumSet' = [unumSet EXCEPT ![i] = @ \union {number}]
          /\ number \notin unumSet[i]
          /\ leftIndex' = leftIndex /\ loaded' = loaded /\ a \in loaded
      BY <1>8, <2>1, <2>3 DEF RegisterAt, NumberInsertable, RequestUniform, agentVars
    <3>2. InternalIndex(SideOf(i)) = i /\ SideOf(i) \in Side /\ i \in Index
      BY IndexSide
    <3>3. ASSUME NEW b \in loaded, b # a, side[b] # "none"
          PROVE  /\ side'[b] = side[b] /\ unum'[b] = unum[b]
                 /\ side[b] = SideOf(i) => unum[b] # number
      BY <1>1, <2>3, <3>1, <3>2, <3>3 DEF TypeOK
    <3>8. side'[a] = SideOf(i) /\ unum'[a] = number
      BY <2>3, <3>1 DEF TypeOK
    <3>9. \A b \in loaded : b # a => side'[b] = side[b] /\ unum'[b] = unum[b]
      BY <2>3, <3>1 DEF TypeOK
    <3>4. UniqueUniform'
      BY <3>1, <3>3, <3>8, <3>9 DEF UniformInv, UniqueUniform
    <3>5. ASSUME NEW b \in loaded', Playing(b)'
          PROVE  unum'[b] \in unumSet'[InternalIndex(side'[b])]
      <4>1. CASE b = a
        BY <3>1, <3>2, <3>8, <4>1 DEF TypeOK
      <4>2. CASE b # a
        <5>1. InternalIndex(side[b]) \in Index /\ unum[b] \in unumSet[InternalIndex(side[b])]
          BY <1>1, <3>1, <3>5, <3>9, <4>2 DEF TypeOK
        <5>2. QED
          BY <3>1, <3>2, <3>9, <4>2, <5>1 DEF TypeOK
      <4>3. QED
        BY <4>1, <4>2
    <3>6. WornIsTaken'
      BY <3>1, <3>5 DEF WornIsTaken, Wearers, InternalIndex
    <3>7. QED
      BY <3>4, <3>6 DEF UniformInv
  <2>4. QED
    BY <2>1, <2>2, <2>3 DEF RegisterAt
<1>9. CASE StartUpdate
  BY <1>3, <1>9 DEF StartUpdate, stateVars, gameVars
<1>10. CASE AgentDisappear
  <2> DEFINE a == Head(disappeared)
  <2>1. /\ loaded' = loaded \ {a} /\ leftIndex' = leftIndex
        /\ \A b \in loaded' : side'[b] = side[b] /\ unum'[b] = unum[b]
    BY <1>10 DEF AgentDisappear, TypeOK
  <2>2. UniqueUniform'
    BY <2>1 DEF UniformInv, UniqueUniform
  <2>3. ASSUME NEW b \in loaded', side[b] # "none"
        PROVE  unum[b] \in unumSet'[InternalIndex(side[b])]
    <3>1. CASE UNCHANGED unumSet
      BY <1>1, <2>1, <2>3, <3>1 DEF TypeOK
    <3>2. CASE /\ a \in loaded /\ side[a] # "none"
               /\ unumSet' = [unumSet EXCEPT ![InternalIndex(side[a])] = @ \ {unum[a]}]
      <4>1. b # a /\ b \in loaded /\ side[b] \in Side /\ side[a] \in Side
        BY <2>1, <2>3, <3>2 DEF TypeOK
      <4>2. InternalIndex(side[b]) = InternalIndex(side[a]) => side[a] = side[b]
        BY <4>1, IndexSide
      <4>3. side[a] = side[b] => unum[b] # unum[a]
        BY <3>2, <4>1 DEF UniformInv, UniqueUniform
      <4>4. /\ InternalIndex(side[a]) \in Index /\ InternalIndex(side[b]) \in Index
            /\ unum[b] \in unumSet[InternalIndex(side[b])]
        BY <1>1, <2>3, <3>2, <4>1 DEF TypeOK
      <4>5. QED
        BY <3>2, <4>2, <4>3, <4>4 DEF TypeOK
    <3>3. QED
      BY <1>10, <3>1, <3>2 DEF AgentDisappear, ReturnUniform
  <2>4. WornIsTaken'
    BY <2>1, <2>3 DEF WornIsTaken, Wearers, InternalIndex
  <2>5. QED
    BY <2>2, <2>4 DEF UniformInv
<1>11. CASE SwapTeamSides
  <2>1. /\ loaded' = loaded /\ unum' = unum /\ unumSet' = unumSet /\ leftIndex = 0 /\ leftIndex' = 1
        /\ \A b \in loaded : side'[b] = OpponentTeam(side[b]) /\ side[b] \in Side \union {"none"}
    BY <1>11 DEF SwapTeamSides, agentVars, TypeOK
  <2>2. UniqueUniform'
    BY <2>1 DEF UniformInv, UniqueUniform, OpponentTeam, Side
  <2>3. \A b \in loaded : side'[b] # "none" =>
          side[b] # "none" /\ InternalIndex(side[b])' = InternalIndex(side[b])
    BY <2>1 DEF OpponentTeam, InternalIndex, Side
  <2>4. WornIsTaken'
    BY <2>1, <2>3 DEF UniformInv, WornIsTaken, Wearers
  <2>5. QED
    BY <2>2, <2>4 DEF UniformInv
<1>12. CASE UNCHANGED vars
  BY <1>3, <1>12 DEF vars, agentVars, stateVars, gameVars
<1>13. QED
  BY <1>4, <1>5, <1>6, <1>7, <1>8, <1>9, <1>10, <1>11, <1>12 DEF Next

\* No two players of a team ever wear the same number, and a worn number
\* stays in the set of its team through the change of sides.
THEOREM UniformsUnique == Spec => [](UniqueUniform /\ WornIsTaken)
<1>1. Init => UniformInv
  BY DEF Init, UniformInv, UniqueUniform, WornIsTaken, Wearers
<1>2. UniformInv => UniqueUniform /\ WornIsTaken
  BY DEF UniformInv
<1>3. QED
  BY <1>1, <1>2, TypeCorrect, UniformStep, PTL DEF Spec
-----------------------------------------------------------------------------
\* GetTeamIndex fills the first place first: the second has a name only when
\* the first has another.
NamesInv ==
  /\ NamesDistinct
  /\ teamName[0] = NoName => teamName[1] = NoName

LEMMA NamesStep == TypeOK /\ NamesInv /\ [Next]_vars => NamesInv'
<1> SUFFICES ASSUME TypeOK, NamesInv, [Next]_vars PROVE NamesInv'
  OBVIOUS
<1>1. ASSUME NEW a \in Agent, NEW name \in TeamName, NEW n \in RequestedUnum,
             RequestUniform(a, name, n)
      PROVE  NamesInv'
  <2>1. PICK i \in IndexFor(name) : \E number : RegisterAt(a, i, name, number)
    BY <1>1 DEF RequestUniform
  <2>2. teamName' = [teamName EXCEPT ![i] = name] /\ i \in IndexFor(name)
    BY <2>1 DEF RegisterAt
  <2>3. CASE Matches(0, name)
    <3>1. i = 0
      BY <2>2, <2>3 DEF IndexFor
    <3>2. teamName'[0] = name /\ teamName'[1] = teamName[1]
      BY <2>2, <3>1 DEF TypeOK, Index
    <3> QED BY <2>3, <3>2 DEF NamesInv, NamesDistinct, Matches
  <2>4. CASE ~Matches(0, name)
    <3>1. i = 1
      BY <2>2, <2>4 DEF IndexFor
    <3>2. teamName'[1] = name /\ teamName'[0] = teamName[0]
      BY <2>2, <3>1 DEF TypeOK, Index
    <3> QED BY <2>4, <3>2 DEF NamesInv, NamesDistinct, Matches
  <2> QED BY <2>3, <2>4
<1>2. CASE UNCHANGED teamName
  BY <1>2 DEF NamesInv, NamesDistinct
<1> QED BY <1>1, <1>2 DEF Next, AgentConnect, ClientDisconnect, TrainerKill,
         PushDisappearedAgent, LoadScene, StartUpdate, AgentDisappear, SwapTeamSides,
         vars, gameVars

\* RequestUniform never gives the two teams one name.
THEOREM TeamNamesDistinct == Spec => []NamesDistinct
<1>1. Init => NamesInv
  BY DEF Init, NamesInv, NamesDistinct, Index
<1>2. NamesInv => NamesDistinct
  BY DEF NamesInv
<1> QED BY <1>1, <1>2, TypeCorrect, NamesStep, PTL DEF Spec
-----------------------------------------------------------------------------
\* What a step may do to a player's team.
Stays(a) ==
  side[a] # "none" =>
    \/ InternalIndex(side[a])' = InternalIndex(side[a])
    \/ \E name \in TeamName, n \in RequestedUnum : RequestUniform(a, name, n)

LEMMA StaysStep ==
  ASSUME TypeOK, [Next]_vars, NEW a \in loaded \intersect loaded'
  PROVE  Stays(a)
<1>1. a \in Agent /\ side[a] \in Side \union {"none"}
  BY DEF TypeOK
<1>2. CASE side'[a] = side[a] /\ leftIndex' = leftIndex
  BY <1>2 DEF Stays, InternalIndex
<1>3. CASE UNCHANGED <<side, leftIndex>>
  BY <1>2, <1>3
<1>4. ASSUME NEW b \in Agent, NEW t \in RobotType, LoadScene(b, t) PROVE Stays(a)
  <2>1. b # a /\ leftIndex' = leftIndex /\ side' = [side EXCEPT ![b] = "none"]
    BY <1>4 DEF LoadScene, gameVars
  <2> QED BY <1>1, <1>2, <2>1 DEF TypeOK
<1>5. ASSUME NEW b \in Agent, NEW name \in TeamName, NEW n \in RequestedUnum,
             RequestUniform(b, name, n)
      PROVE  Stays(a)
  <2>1. CASE a = b
    BY <1>5, <2>1 DEF Stays
  <2>2. CASE a # b
    <3>1. PICK i, number : RegisterAt(b, i, name, number)
      BY <1>5 DEF RequestUniform
    <3>2. UNCHANGED side \/ side' = [side EXCEPT ![b] = SideOf(i)]
      BY <3>1 DEF RegisterAt
    <3>3. side'[a] = side[a]
      BY <1>1, <2>2, <3>2 DEF TypeOK
    <3> QED BY <1>2, <1>5, <3>3 DEF RequestUniform
  <2> QED BY <2>1, <2>2
<1>6. CASE AgentDisappear
  <2>1. a # Head(disappeared) /\ side' = [side EXCEPT ![Head(disappeared)] = "none"]
        /\ leftIndex' = leftIndex
    BY <1>6 DEF AgentDisappear
  <2> QED BY <1>1, <1>2, <2>1 DEF TypeOK
<1>7. CASE SwapTeamSides
  <2>1. side'[a] = OpponentTeam(side[a]) /\ leftIndex = 0 /\ leftIndex' = 1
    BY <1>1, <1>7 DEF SwapTeamSides
  <2> QED BY <1>1, <2>1 DEF Stays, OpponentTeam, InternalIndex, Side
<1> QED BY <1>3, <1>4, <1>5, <1>6, <1>7 DEF Next, AgentConnect, ClientDisconnect,
         TrainerKill, PushDisappearedAgent, StartUpdate, vars, stateVars, gameVars

\* SwapTeamSides exchanges sides and indexes at once, and nobody but a player
\* himself makes him play for another team.
THEOREM PlayersKeepTheirTeam == Spec => PlayerKeepsTeam
<1>1. TypeOK /\ [Next]_vars =>
        [\A a \in loaded \intersect loaded' :
           side[a] # "none" =>
             \/ InternalIndex(side[a])' = InternalIndex(side[a])
             \/ \E name \in TeamName, n \in RequestedUnum : RequestUniform(a, name, n)]_vars
  BY StaysStep DEF Stays
<1> QED BY <1>1, TypeCorrect, PTL DEF Spec, PlayerKeepsTeam
-----------------------------------------------------------------------------
(* The limits on robot types.  A team's counts change by one robot at a    *)
(* time: Robots gains or loses one element.                                *)

One(count, t) == [count EXCEPT ![t] = @ + 1]

LEMMA RobotsAre ==
  ASSUME NEW count \in [RobotType -> Nat], NEW p
  PROVE  p \in Robots(count) <=> \E u \in RobotType : \E k \in 1..count[u] : p = <<u, k>>
BY DEF Robots

LEMMA OneMore ==
  ASSUME NEW count \in [RobotType -> Nat], NEW t \in RobotType
  PROVE  /\ One(count, t) \in [RobotType -> Nat]
         /\ One(count, t)[t] = count[t] + 1
         /\ \A u \in RobotType : u # t => One(count, t)[u] = count[u]
BY DEF One

LEMMA RobotsMore ==
  ASSUME NEW count \in [RobotType -> Nat], NEW t \in RobotType
  PROVE  /\ Robots(One(count, t)) = Robots(count) \union {<<t, count[t] + 1>>}
         /\ <<t, count[t] + 1>> \notin Robots(count)
<1> DEFINE more == One(count, t)
           p == <<t, count[t] + 1>>
<1>1. /\ more \in [RobotType -> Nat] /\ more[t] = count[t] + 1
      /\ \A u \in RobotType : u # t => more[u] = count[u]
  BY OneMore
<1> HIDE DEF more
<1>2. count[t] \in Nat
  OBVIOUS
<1>3. ASSUME NEW q \in Robots(more) PROVE q \in Robots(count) \union {p}
  <2>1. PICK u \in RobotType : \E k \in 1..more[u] : q = <<u, k>>
    BY <1>1, RobotsAre
  <2>2. PICK k \in 1..more[u] : q = <<u, k>>
    BY <2>1
  <2>3. CASE k \in 1..count[u]
    BY <2>2, <2>3, RobotsAre
  <2>4. CASE k \notin 1..count[u]
    <3>1. u = t /\ k = count[t] + 1
      BY <1>1, <1>2, <2>4
    <3> QED BY <2>2, <3>1
  <2> QED BY <2>3, <2>4
<1>4. ASSUME NEW q \in Robots(count) PROVE q \in Robots(more)
  <2>1. PICK u \in RobotType : \E k \in 1..count[u] : q = <<u, k>>
    BY RobotsAre
  <2>2. PICK k \in 1..count[u] : q = <<u, k>>
    BY <2>1
  <2>3. k \in 1..more[u]
    BY <1>1, <1>2, <2>2
  <2> QED BY <1>1, <2>2, <2>3, RobotsAre
<1>5. p \in Robots(more)
  <2>1. count[t] + 1 \in 1..more[t]
    BY <1>1, <1>2
  <2> QED BY <1>1, <2>1, RobotsAre
<1>6. p \notin Robots(count)
  <2> SUFFICES ASSUME p \in Robots(count) PROVE FALSE
    OBVIOUS
  <2>1. PICK u \in RobotType : \E k \in 1..count[u] : p = <<u, k>>
    BY RobotsAre
  <2>2. PICK k \in 1..count[u] : p = <<u, k>>
    BY <2>1
  <2>3. u = t /\ k = count[t] + 1
    BY <2>2
  <2> QED BY <1>2, <2>2, <2>3
<1> QED BY <1>3, <1>4, <1>5, <1>6 DEF more

\* A type more or less is a type used more or less at most.
LEMMA TypesMore ==
  ASSUME NEW count \in [RobotType -> Nat], NEW t \in RobotType
  PROVE  /\ Cardinality(TypesUsed(count)) \in Nat
         /\ Cardinality(TypesUsed(One(count, t)))
              = IF count[t] = 0 THEN Cardinality(TypesUsed(count)) + 1 ELSE Cardinality(TypesUsed(count))
<1>1. IsFiniteSet(TypesUsed(count)) /\ Cardinality(TypesUsed(count)) \in Nat
  <2>1. TypesUsed(count) \in SUBSET RobotType
    BY DEF TypesUsed
  <2>2. IsFiniteSet(TypesUsed(count))
    BY <2>1, ConstantsAssumption, FS_Subset
  <2> QED BY <2>2, FS_CardinalityType
<1>2. TypesUsed(One(count, t)) = TypesUsed(count) \union {t}
  BY OneMore DEF TypesUsed
<1>3. t \in TypesUsed(count) <=> count[t] # 0
  BY DEF TypesUsed
<1> QED BY <1>1, <1>2, <1>3, FS_AddElement

\* What SquadMixLegal says of the counts of one team, and that its robots are
\* finitely many.
Limits(count) ==
  /\ \A t \in RobotType : count[t] <= MaxRobotTypeCount
  /\ \A t, u \in RobotType :
       t # u => count[t] + count[u] <= MaxSumTwoRobotTypes \/ count[t] = 0 \/ count[u] = 0

Places(count) ==
  SquadSize - Cardinality(Robots(count)) >= MinRobotTypesCount - Cardinality(TypesUsed(count))

MixInv(count) == IsFiniteSet(Robots(count)) /\ Limits(count) /\ Places(count)

LEMMA MixMore ==
  ASSUME NEW count \in [RobotType -> Nat], NEW t \in RobotType,
         MixInv(count), TypeAllowed(count, t)
  PROVE  MixInv(One(count, t))
<1> DEFINE R == Cardinality(Robots(count))
           U == Cardinality(TypesUsed(count))
<1>1. /\ IsFiniteSet(Robots(One(count, t)))
      /\ Cardinality(Robots(One(count, t))) = R + 1
  <2> DEFINE S == Robots(count)
             p == <<t, count[t] + 1>>
  <2>1. Robots(One(count, t)) = S \union {p} /\ p \notin S /\ IsFiniteSet(S)
    BY RobotsMore DEF MixInv
  <2> HIDE DEF S, p
  <2>2. IsFiniteSet(S \union {p}) /\ Cardinality(S \union {p}) = Cardinality(S) + 1
    BY <2>1, FS_AddElement
  <2> QED BY <2>1, <2>2 DEF S
<1>2. R \in Nat
  BY FS_CardinalityType DEF MixInv
<1>3. U \in Nat /\ Cardinality(TypesUsed(One(count, t))) = IF count[t] = 0 THEN U + 1 ELSE U
  BY TypesMore
<1>4. SquadSize - R <= MinRobotTypesCount - U => count[t] = 0
  BY DEF TypeAllowed
<1>5. SquadSize - R >= MinRobotTypesCount - U
  BY DEF MixInv, Places
<1>6. Places(One(count, t))
  <2>1. SquadSize \in Nat /\ MinRobotTypesCount \in Nat
    BY ConstantsAssumption
  <2> HIDE DEF R, U
  <2> QED BY <1>1, <1>2, <1>3, <1>4, <1>5, <2>1 DEF Places
<1>7. Limits(One(count, t))
  <2>1. MaxRobotTypeCount \in Nat /\ MaxSumTwoRobotTypes \in Nat
    BY ConstantsAssumption
  <2>2. /\ count[t] # MaxRobotTypeCount
        /\ \A u \in RobotType : u # t => count[t] + 1 + count[u] <= MaxSumTwoRobotTypes
    BY DEF TypeAllowed
  <2>3. \A u \in RobotType : count[u] \in Nat
    OBVIOUS
  <2> QED BY <2>1, <2>2, <2>3, OneMore DEF Limits, MixInv
<1> QED BY <1>1, <1>6, <1>7 DEF MixInv

LEMMA MixFewer ==
  ASSUME NEW count \in [RobotType -> Nat], NEW t \in RobotType, MixInv(One(count, t))
  PROVE  MixInv(count)
<1> DEFINE R == Cardinality(Robots(count))
           U == Cardinality(TypesUsed(count))
           all == Robots(One(count, t))
           p == <<t, count[t] + 1>>
<1>1. Robots(count) = all \ {p} /\ p \in all
  BY RobotsMore
<1>2. IsFiniteSet(Robots(count)) /\ Cardinality(all) = R + 1 /\ R \in Nat
  <2>1. IsFiniteSet(all) /\ Cardinality(all) \in Nat
    BY FS_CardinalityType DEF MixInv
  <2>2. IsFiniteSet(all \ {p}) /\ Cardinality(all \ {p}) = Cardinality(all) - 1
    <3> HIDE DEF all, p
    <3> QED BY <1>1, <2>1, FS_RemoveElement
  <2>3. R \in Nat
    BY <1>1, <2>2, FS_CardinalityType
  <2> HIDE DEF all, p
  <2> QED BY <1>1, <2>1, <2>2, <2>3
<1>3. U \in Nat /\ Cardinality(TypesUsed(One(count, t))) \in {U, U + 1}
  BY TypesMore
<1>4. SquadSize - Cardinality(all) >= MinRobotTypesCount - Cardinality(TypesUsed(One(count, t)))
  BY DEF MixInv, Places
<1>5. Places(count)
  <2>1. SquadSize \in Nat /\ MinRobotTypesCount \in Nat
    BY ConstantsAssumption
  <2> HIDE DEF R, U, all
  <2>2. SquadSize - R >= MinRobotTypesCount - U
    BY <1>2, <1>3, <1>4, <2>1
  <2> QED BY <2>2 DEF Places, R, U
<1>6. Limits(count)
  <2>1. MaxRobotTypeCount \in Nat /\ MaxSumTwoRobotTypes \in Nat
    BY ConstantsAssumption
  <2>2. \A u \in RobotType : count[u] \in Nat
    OBVIOUS
  <2> QED BY <2>1, <2>2, OneMore DEF Limits, MixInv
<1> QED BY <1>2, <1>5, <1>6 DEF MixInv

\* How a step changes the counts: a robot more where InsertRobotType allows
\* it, a robot less, or not at all.
Recount(i, t) ==
  \/ /\ TypeAllowed(typeCount[i], t)
     /\ typeCount' = [typeCount EXCEPT ![i] = One(typeCount[i], t)]
  \/ \E fewer \in [RobotType -> Nat] :
       /\ typeCount[i] = One(fewer, t)
       /\ typeCount' = [typeCount EXCEPT ![i] = fewer]

LEMMA ReturnRecounts ==
  ASSUME TypeOK, NEW a \in loaded, ReturnUniform(a)
  PROVE  \/ UNCHANGED typeCount
         \/ /\ side[a] # "none" /\ unum[a] \in unumSet[InternalIndex(side[a])]
            /\ Recount(InternalIndex(side[a]), robotType[a])
<1> DEFINE i == InternalIndex(side[a])
           t == robotType[a]
           less == IF typeCount[i][t] > 0 THEN typeCount[i][t] - 1 ELSE typeCount[i][t]
           fewer == [typeCount[i] EXCEPT ![t] = less]
<1>1. i \in Index /\ t \in RobotType /\ typeCount[i] \in [RobotType -> Nat]
  BY DEF TypeOK, Index, InternalIndex
<1>2. CASE UNCHANGED typeCount
  BY <1>2
<1>3. CASE /\ side[a] # "none" /\ unum[a] \in unumSet[i]
           /\ typeCount' = [typeCount EXCEPT ![i][t] = IF @ > 0 THEN @ - 1 ELSE @]
  <2>1. typeCount' = [typeCount EXCEPT ![i] = fewer]
    BY <1>1, <1>3
  <2>2. fewer \in [RobotType -> Nat] /\ fewer[t] = less /\ \A u \in RobotType : u # t => fewer[u] = typeCount[i][u]
    BY <1>1
  <2>3. CASE typeCount[i][t] = 0
    <3>1. fewer = typeCount[i]
      BY <1>1, <2>3
    <3>2. typeCount' = typeCount
      BY <1>1, <2>1, <3>1 DEF TypeOK
    <3> QED BY <3>2
  <2>4. CASE typeCount[i][t] # 0
    <3>1. fewer[t] + 1 = typeCount[i][t]
      BY <1>1, <2>2, <2>4
    <3>2. typeCount[i] = One(fewer, t)
      <4> HIDE DEF fewer
      <4> QED BY <1>1, <2>2, <3>1 DEF One
    <3> HIDE DEF fewer
    <3> QED BY <1>3, <2>1, <2>2, <3>2 DEF Recount
  <2> QED BY <2>3, <2>4
<1> QED BY <1>2, <1>3 DEF ReturnUniform

LEMMA RegisterRecounts ==
  ASSUME TypeOK, NEW a \in loaded, NEW i \in Index, NEW name, NEW number,
         RegisterAt(a, i, name, number)
  PROVE  \/ UNCHANGED <<typeCount, side, unum>>
         \/ /\ Recount(i, robotType[a]) /\ TypeAllowed(typeCount[i], robotType[a])
            /\ typeCount' = [typeCount EXCEPT ![i] = One(typeCount[i], robotType[a])]
            /\ side' = [side EXCEPT ![a] = SideOf(i)]
<1>1. typeCount[i] \in [RobotType -> Nat]
  BY DEF TypeOK
<1>2. CASE /\ TypeAllowed(typeCount[i], robotType[a])
           /\ typeCount' = [typeCount EXCEPT ![i][robotType[a]] = @ + 1]
           /\ side' = [side EXCEPT ![a] = SideOf(i)]
  <2>1. typeCount' = [typeCount EXCEPT ![i] = One(typeCount[i], robotType[a])]
    BY <1>1, <1>2 DEF One
  <2> QED BY <1>2, <2>1 DEF Recount
<1> QED BY <1>2 DEF RegisterAt

\* The counts of a step, whichever it is.
LEMMA StepRecounts ==
  ASSUME TypeOK, [Next]_vars
  PROVE  UNCHANGED typeCount \/ \E i \in Index, t \in RobotType : Recount(i, t)
<1>1. ASSUME NEW a \in Agent, NEW name \in TeamName, NEW n \in RequestedUnum,
             RequestUniform(a, name, n)
      PROVE  UNCHANGED typeCount \/ \E i \in Index, t \in RobotType : Recount(i, t)
  <2>1. PICK i \in Index : \E number : RegisterAt(a, i, name, number)
    BY <1>1 DEF RequestUniform, IndexFor, Index
  <2>2. a \in loaded /\ robotType[a] \in RobotType
    BY <1>1 DEF RequestUniform, TypeOK
  <2> QED BY <2>1, <2>2, RegisterRecounts
<1>2. CASE AgentDisappear
  <2> DEFINE a == Head(disappeared)
  <2>1. UNCHANGED typeCount \/ (a \in loaded /\ ReturnUniform(a))
    BY <1>2 DEF AgentDisappear
  <2>2. ASSUME a \in loaded, ReturnUniform(a)
        PROVE  UNCHANGED typeCount \/ \E i \in Index, t \in RobotType : Recount(i, t)
    <3>1. InternalIndex(side[a]) \in Index /\ robotType[a] \in RobotType
      BY <2>2 DEF TypeOK, Index, InternalIndex
    <3> HIDE DEF a
    <3> QED BY <2>2, <3>1, ReturnRecounts
  <2> QED BY <2>1, <2>2
<1>3. CASE UNCHANGED typeCount
  BY <1>3
<1> QED BY <1>1, <1>2, <1>3 DEF Next, AgentConnect, ClientDisconnect, TrainerKill,
         PushDisappearedAgent, LoadScene, StartUpdate, SwapTeamSides, vars, gameVars

AllMixed == \A i \in Index : MixInv(typeCount[i])

LEMMA MixStep == TypeOK /\ AllMixed /\ [Next]_vars => AllMixed'
<1> SUFFICES ASSUME TypeOK, AllMixed, [Next]_vars PROVE AllMixed'
  OBVIOUS
<1>1. CASE UNCHANGED typeCount
  BY <1>1 DEF AllMixed, MixInv, Limits, Places, Robots, TypesUsed
<1>2. ASSUME NEW i \in Index, NEW t \in RobotType, Recount(i, t) PROVE AllMixed'
  <2>1. typeCount[i] \in [RobotType -> Nat] /\ MixInv(typeCount[i])
    BY DEF TypeOK, AllMixed
  <2>2. PICK c : typeCount' = [typeCount EXCEPT ![i] = c] /\ MixInv(c)
    BY <1>2, <2>1, MixMore, MixFewer DEF Recount
  <2>3. \A j \in Index : typeCount'[j] = IF j = i THEN c ELSE typeCount[j]
    BY <2>2 DEF TypeOK
  <2>4. ASSUME NEW j \in Index PROVE MixInv(typeCount'[j])
    BY <2>2, <2>3 DEF AllMixed
  <2> QED BY <2>4 DEF AllMixed, MixInv, Limits, Places, Robots, TypesUsed
<1> QED BY <1>1, <1>2, StepRecounts

LEMMA MixInit == Init => AllMixed
<1> SUFFICES ASSUME Init, NEW i \in Index PROVE MixInv(typeCount[i])
  BY DEF AllMixed
<1>1. typeCount[i] = [t \in RobotType |-> 0]
  BY DEF Init
<1>2. Robots(typeCount[i]) = {}
  BY <1>1 DEF Robots
<1>3. TypesUsed(typeCount[i]) = {}
  BY <1>1 DEF TypesUsed
<1>4. IsFiniteSet({}) /\ Cardinality({}) = 0
  BY FS_EmptySet
<1> QED BY <1>1, <1>2, <1>3, <1>4, ConstantsAssumption DEF MixInv, Limits, Places

\* InsertRobotType and ReturnUniform keep every squad within the limits on
\* robot types, and leave it the places to reach the number of types it needs.
THEOREM SquadsLegal == Spec => []SquadMixLegal
<1>1. AllMixed => SquadMixLegal
  BY DEF AllMixed, MixInv, Limits, Places, SquadMixLegal
<1> QED BY <1>1, MixInit, MixStep, TypeCorrect, PTL DEF Spec
-----------------------------------------------------------------------------
(* The counts cover the players.                                           *)

\* The players of a team with one robot type.
Band(i, t) == {a \in Wearers(i) : robotType[a] = t}

CountInv == IsFiniteSet(agentMap) /\ PlayersCounted

LEMMA BandFinite ==
  ASSUME TypeOK, IsFiniteSet(agentMap), NEW i, NEW t
  PROVE  IsFiniteSet(Band(i, t)) /\ Cardinality(Band(i, t)) \in Nat
<1>1. Band(i, t) \in SUBSET agentMap
  BY DEF Band, Wearers, TypeOK
<1>2. IsFiniteSet(Band(i, t))
  BY <1>1, FS_Subset
<1> QED BY <1>2, FS_CardinalityType

\* A band that gains nobody is covered by as large a count.
LEMMA BandShrinks ==
  ASSUME TypeOK, CountInv, NEW i \in Index, NEW t \in RobotType,
         Band(i, t)' \subseteq Band(i, t), typeCount'[i][t] \in Nat,
         typeCount'[i][t] >= typeCount[i][t]
  PROVE  Cardinality(Band(i, t)') <= typeCount'[i][t]
<1>1. IsFiniteSet(Band(i, t)) /\ Cardinality(Band(i, t)) \in Nat
  BY BandFinite DEF CountInv
<1>2. IsFiniteSet(Band(i, t)') /\ Cardinality(Band(i, t)') <= Cardinality(Band(i, t))
  BY <1>1, FS_Subset
<1>3. Cardinality(Band(i, t)') \in Nat
  BY <1>2, FS_CardinalityType
<1>4. Cardinality(Band(i, t)) <= typeCount[i][t] /\ typeCount[i][t] \in Nat
  BY DEF CountInv, PlayersCounted, Band, TypeOK
<1> QED BY <1>1, <1>2, <1>3, <1>4

\* One that gains a player does when its count grows.
LEMMA BandGrows ==
  ASSUME TypeOK, CountInv, NEW i \in Index, NEW t \in RobotType, NEW a,
         Band(i, t)' \subseteq Band(i, t) \union {a},
         typeCount'[i][t] = typeCount[i][t] + 1
  PROVE  Cardinality(Band(i, t)') <= typeCount'[i][t]
<1> DEFINE S == Band(i, t)
<1>1. IsFiniteSet(S) /\ Cardinality(S) \in Nat
  BY BandFinite DEF CountInv
<1>2. Cardinality(S) <= typeCount[i][t] /\ typeCount[i][t] \in Nat
  BY DEF CountInv, PlayersCounted, Band, TypeOK
<1> DEFINE T == Band(i, t)'
<1>3. T \subseteq S \union {a}
  OBVIOUS
<1> HIDE DEF S, T
<1>4. IsFiniteSet(S \union {a}) /\ Cardinality(S \union {a}) <= Cardinality(S) + 1
      /\ Cardinality(S \union {a}) \in Nat
  <2>1. /\ IsFiniteSet(S \union {a})
        /\ Cardinality(S \union {a}) = IF a \in S THEN Cardinality(S) ELSE Cardinality(S) + 1
    BY <1>1, FS_AddElement, Zenon
  <2> QED BY <1>1, <2>1
<1>5. IsFiniteSet(T) /\ Cardinality(T) <= Cardinality(S \union {a})
  BY <1>3, <1>4, FS_Subset
<1>6. Cardinality(T) \in Nat
  BY <1>5, FS_CardinalityType
<1>7. Cardinality(T) <= typeCount[i][t] + 1
  BY <1>1, <1>2, <1>4, <1>5, <1>6
<1> QED BY <1>7 DEF T

\* And one whose count is lessened has lost a player.
LEMMA BandLoses ==
  ASSUME TypeOK, CountInv, NEW i \in Index, NEW t \in RobotType, NEW a \in Band(i, t),
         Band(i, t)' \subseteq Band(i, t) \ {a}, typeCount'[i][t] \in Nat,
         typeCount'[i][t] >= typeCount[i][t] - 1
  PROVE  Cardinality(Band(i, t)') <= typeCount'[i][t]
<1> DEFINE S == Band(i, t)
           T == Band(i, t)'
<1>1. IsFiniteSet(S) /\ Cardinality(S) \in Nat /\ a \in S
  BY BandFinite DEF CountInv
<1>2. Cardinality(S) <= typeCount[i][t] /\ typeCount[i][t] \in Nat
  BY DEF CountInv, PlayersCounted, Band, TypeOK
<1>3. T \subseteq S \ {a}
  OBVIOUS
<1> HIDE DEF S, T
<1>4. IsFiniteSet(S \ {a}) /\ Cardinality(S \ {a}) = Cardinality(S) - 1
  BY <1>1, FS_RemoveElement
<1>5. IsFiniteSet(T) /\ Cardinality(T) <= Cardinality(S \ {a})
  BY <1>3, <1>4, FS_Subset
<1>6. Cardinality(T) \in Nat
  BY <1>5, FS_CardinalityType
<1>7. Cardinality(T) <= typeCount'[i][t]
  BY <1>1, <1>2, <1>4, <1>5, <1>6
<1> QED BY <1>7 DEF T

\* Counts unchanged and no new players: most steps.
LEMMA NobodyNew ==
  ASSUME TypeOK, CountInv, UNCHANGED typeCount,
         \A i \in Index, t \in RobotType : Band(i, t)' \subseteq Band(i, t)
  PROVE  PlayersCounted'
<1> SUFFICES ASSUME NEW i \in Index, NEW t \in RobotType
             PROVE  Cardinality(Band(i, t)') <= typeCount'[i][t]
  BY DEF PlayersCounted, Band
<1>1. typeCount'[i][t] = typeCount[i][t] /\ typeCount[i][t] \in Nat
  BY DEF TypeOK
<1> QED BY <1>1, BandShrinks

LEMMA CountStep ==
  TypeOK /\ TypeOK' /\ UniformInv /\ CountInv /\ [Next]_vars => CountInv'
<1> SUFFICES ASSUME TypeOK, TypeOK', UniformInv, CountInv, [Next]_vars PROVE CountInv'
  OBVIOUS
<1>1. IsFiniteSet(agentMap')
  <2>1. CASE UNCHANGED agentMap
    BY <2>1 DEF CountInv
  <2>2. ASSUME NEW a, agentMap' = agentMap \union {a} PROVE IsFiniteSet(agentMap')
    BY <2>2, FS_AddElement DEF CountInv
  <2>3. ASSUME NEW a, agentMap' = agentMap \ {a} PROVE IsFiniteSet(agentMap')
    BY <2>3, FS_RemoveElement DEF CountInv
  <2> QED BY <2>1, <2>2, <2>3 DEF Next, AgentConnect, ClientDisconnect, TrainerKill,
           PushDisappearedAgent, LoadScene, RequestUniform, StartUpdate, AgentDisappear,
           SwapTeamSides, vars, agentVars
<1> SUFFICES PlayersCounted'
  BY <1>1 DEF CountInv
<1>2. CASE UNCHANGED <<side, robotType, leftIndex, loaded, typeCount>>
  BY <1>2 DEF Wearers, InternalIndex, CountInv, PlayersCounted
<1>3. ASSUME NEW a \in Agent, NEW t \in RobotType, LoadScene(a, t) PROVE PlayersCounted'
  <2>1. /\ loaded' = loaded \union {a} /\ a \notin loaded
        /\ side' = [side EXCEPT ![a] = "none"]
        /\ robotType' = [robotType EXCEPT ![a] = t]
        /\ leftIndex' = leftIndex /\ typeCount' = typeCount
    BY <1>3 DEF LoadScene, gameVars
  <2>2. ASSUME NEW i \in Index, NEW u \in RobotType PROVE Band(i, u)' \subseteq Band(i, u)
    BY <2>1 DEF Band, Wearers, InternalIndex, TypeOK
  <2> QED BY <2>1, <2>2, NobodyNew
<1>4. ASSUME NEW a \in Agent, NEW name \in TeamName, NEW n \in RequestedUnum,
             RequestUniform(a, name, n)
      PROVE  PlayersCounted'
  <2>1. PICK i \in Index : \E number : RegisterAt(a, i, name, number)
    BY <1>4 DEF RequestUniform, IndexFor, Index
  <2>2. /\ a \in loaded /\ robotType[a] \in RobotType
        /\ UNCHANGED <<loaded, robotType, leftIndex>>
    BY <1>4 DEF RequestUniform, TypeOK, agentVars
  <2>3. CASE UNCHANGED <<typeCount, side>>
    BY <1>2, <2>2, <2>3
  <2>4. CASE /\ typeCount' = [typeCount EXCEPT ![i] = One(typeCount[i], robotType[a])]
             /\ side' = [side EXCEPT ![a] = SideOf(i)]
    <3> DEFINE t == robotType[a]
    <3>1. \A b \in loaded : b # a => side'[b] = side[b]
      BY <2>4 DEF TypeOK
    <3>2. side'[a] = SideOf(i) /\ InternalIndex(SideOf(i)) = i
      BY <2>2, <2>4, IndexSide DEF TypeOK
    <3>3. ASSUME NEW j \in Index, NEW u \in RobotType, j # i \/ u # t
          PROVE  Band(j, u)' \subseteq Band(j, u)
      BY <2>2, <3>1, <3>2, <3>3 DEF Band, Wearers, InternalIndex
    <3>4. Band(i, t)' \subseteq Band(i, t) \union {a}
      BY <2>2, <3>1 DEF Band, Wearers, InternalIndex
    <3>5. ASSUME NEW j \in Index, NEW u \in RobotType
          PROVE  /\ typeCount[j][u] \in Nat
                 /\ typeCount'[j][u] = IF j = i /\ u = t THEN typeCount[j][u] + 1 ELSE typeCount[j][u]
      <4>1. typeCount[j] \in [RobotType -> Nat] /\ typeCount[i] \in [RobotType -> Nat]
        BY DEF TypeOK
      <4>2. typeCount'[j] = IF j = i THEN One(typeCount[i], t) ELSE typeCount[j]
        BY <2>4 DEF TypeOK
      <4> QED BY <2>2, <4>1, <4>2, OneMore
    <3>6. ASSUME NEW j \in Index, NEW u \in RobotType
          PROVE  Cardinality(Band(j, u)') <= typeCount'[j][u]
      <4>1. CASE j = i /\ u = t
        BY <2>2, <3>4, <3>5, <4>1, BandGrows
      <4>2. CASE j # i \/ u # t
        <5>1. typeCount'[j][u] \in Nat /\ typeCount'[j][u] >= typeCount[j][u]
          BY <3>5, <4>2
        <5> QED BY <3>3, <4>2, <5>1, BandShrinks
      <4> QED BY <4>1, <4>2
    <3> QED BY <3>6 DEF PlayersCounted, Band
  <2> QED BY <2>1, <2>2, <2>3, <2>4, RegisterRecounts
<1>5. CASE AgentDisappear
  <2> DEFINE a == Head(disappeared)
  <2>1. /\ loaded' = loaded \ {a} /\ leftIndex' = leftIndex
        /\ \A b \in loaded' : side'[b] = side[b] /\ robotType'[b] = robotType[b]
    BY <1>5 DEF AgentDisappear, TypeOK
  <2>2. ASSUME NEW j \in Index, NEW u \in RobotType
        PROVE  Band(j, u)' \subseteq Band(j, u) \ {a}
    BY <2>1 DEF Band, Wearers, InternalIndex
  <2>3. CASE UNCHANGED typeCount
    <3>1. \A j \in Index, u \in RobotType : Band(j, u)' \subseteq Band(j, u)
      BY <2>2
    <3> QED BY <2>3, <3>1, NobodyNew
  <2>4. ASSUME a \in loaded, ReturnUniform(a) PROVE PlayersCounted'
    <3> DEFINE i == InternalIndex(side[a])
               t == robotType[a]
    <3>1. i \in Index /\ t \in RobotType
      BY <2>4 DEF TypeOK, Index, InternalIndex
    <3>2. CASE /\ side[a] # "none"
               /\ typeCount' = [typeCount EXCEPT ![i][t] = IF @ > 0 THEN @ - 1 ELSE @]
      <4>1. a \in Band(i, t)
        BY <2>4, <3>2 DEF Band, Wearers
      <4>2. ASSUME NEW j \in Index, NEW u \in RobotType
            PROVE  /\ typeCount[j][u] \in Nat /\ typeCount'[j][u] \in Nat
                   /\ typeCount'[j][u] >= typeCount[j][u] \/ (j = i /\ u = t)
                   /\ typeCount'[j][u] >= typeCount[j][u] - 1
        <5>1. typeCount[j][u] \in Nat
          BY DEF TypeOK
        <5> QED BY <3>1, <3>2, <5>1 DEF TypeOK
      <4>3. ASSUME NEW j \in Index, NEW u \in RobotType
            PROVE  Cardinality(Band(j, u)') <= typeCount'[j][u]
        <5> HIDE DEF i, t, a
        <5>1. CASE j = i /\ u = t
          BY <2>2, <4>1, <4>2, <5>1, BandLoses
        <5>2. CASE ~(j = i /\ u = t)
          BY <2>2, <4>2, <5>2, BandShrinks
        <5> QED BY <5>1, <5>2
      <4> QED BY <4>3 DEF PlayersCounted, Band
    <3>3. \/ UNCHANGED typeCount
          \/ /\ side[a] # "none"
             /\ typeCount' = [typeCount EXCEPT ![i][t] = IF @ > 0 THEN @ - 1 ELSE @]
      BY <2>4 DEF ReturnUniform
    <3> QED BY <2>3, <3>2, <3>3
  <2>5. UNCHANGED typeCount \/ (a \in loaded /\ ReturnUniform(a))
    BY <1>5 DEF AgentDisappear
  <2> QED BY <2>3, <2>4, <2>5
<1>6. CASE SwapTeamSides
  <2>1. /\ loaded' = loaded /\ robotType' = robotType /\ typeCount' = typeCount
        /\ leftIndex = 0 /\ leftIndex' = 1
        /\ \A b \in loaded : side'[b] = OpponentTeam(side[b]) /\ side[b] \in Side \union {"none"}
    BY <1>6 DEF SwapTeamSides, agentVars, TypeOK
  <2>2. ASSUME NEW b \in loaded, side'[b] # "none"
        PROVE  side[b] # "none" /\ InternalIndex(side[b])' = InternalIndex(side[b])
    BY <2>1, <2>2 DEF OpponentTeam, InternalIndex, Side
  <2>3. ASSUME NEW i \in Index, NEW u \in RobotType PROVE Band(i, u)' \subseteq Band(i, u)
    BY <2>1, <2>2 DEF Band, Wearers
  <2>4. UNCHANGED typeCount
    BY <2>1
  <2> QED BY <2>3, <2>4, NobodyNew
<1> QED BY <1>2, <1>3, <1>4, <1>5, <1>6 DEF Next, AgentConnect, ClientDisconnect,
         TrainerKill, PushDisappearedAgent, StartUpdate, vars, agentVars, stateVars, gameVars

LEMMA CountInit == Init => CountInv
<1> SUFFICES ASSUME Init PROVE CountInv
  OBVIOUS
<1>1. IsFiniteSet({}) /\ Cardinality({}) = 0
  BY FS_EmptySet
<1>2. \A i \in Index, t \in RobotType : Band(i, t) = {} /\ typeCount[i][t] = 0
  BY DEF Init, Band, Wearers
<1>3. IsFiniteSet(agentMap)
  BY <1>1 DEF Init
<1>4. \A i \in Index, t \in RobotType : Cardinality(Band(i, t)) <= typeCount[i][t]
  BY <1>1, <1>2
<1> QED BY <1>3, <1>4 DEF CountInv, PlayersCounted, Band

\* Whatever is refused, killed or lost, the type counts of a team are never
\* less than the players it has on the field.
THEOREM CountsCoverPlayers == Spec => []PlayersCounted
<1>1. Init => UniformInv
  BY DEF Init, UniformInv, UniqueUniform, WornIsTaken, Wearers
<1>2. CountInv => PlayersCounted
  BY DEF CountInv
<1> QED BY <1>1, <1>2, CountInit, CountStep, UniformStep, TypeCorrect, PTL DEF Spec
=============================================================================
