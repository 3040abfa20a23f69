----------------------------- MODULE TeamRoster -----------------------------
(***************************************************************************)
(* Registration of agents with the game: the agent map and the list of     *)
(* disappeared agents of the GameControlServer, and the part of the        *)
(* GameStateAspect that hands out team indexes, uniform numbers and robot  *)
(* types (RequestUniform, ReturnUniform, SwapTeamIndexes).                 *)
(*                                                                         *)
(* Everything here runs on the simulation's master thread.  One step is    *)
(* one call of a handler; GameControlServer::Update drains the list of     *)
(* disappeared agents one AgentDisappear at a time and nothing else runs   *)
(* before it is done (variable updating).                                  *)
(***************************************************************************)
EXTENDS Integers, Sequences, FiniteSets

CONSTANTS
  Agent,                \* client ids; an id whose traces are gone may stand for a fresh one
  TeamName,             \* team names an agent may ask for, NoName among them or not
  NoName,               \* the empty std::string
  RobotType,            \* robot types an agent body may have
  NoType,               \* mRobotType before the body is loaded
  RequestedUnum,        \* numbers an agent may ask for; 0 asks for any free one
  SquadSize,            \* 11 in the code
  MaxRobotTypeCount,    \* soccer variables of naosoccerspl.rb
  MinRobotTypesCount,
  MaxSumTwoRobotTypes,
  MaxPending            \* bound on the list of disappeared agents

ASSUME ConstantsAssumption ==
  /\ NoType \notin RobotType
  /\ RequestedUnum \subseteq Int
  /\ SquadSize \in Nat \ {0}
  /\ MaxRobotTypeCount \in Nat
  /\ MinRobotTypesCount \in Nat
  /\ MaxSumTwoRobotTypes \in Nat
  /\ MaxPending \in Nat
  /\ MinRobotTypesCount <= SquadSize
  /\ IsFiniteSet(RobotType)

VARIABLES
  clients,      \* NetControl::mClients: the connected clients
  agentMap,     \* GameControlServer::mAgentMap
  disappeared,  \* GameControlServer::mDisappearedAgent
  updating,     \* inside the first loop of GameControlServer::Update
  loaded,       \* agents whose scene (and so whose AgentState) exists
  side,         \* AgentState::mTeamIndex
  unum,         \* AgentState::mUniformNumber
  robotType,    \* AgentState::mRobotType
  teamName,     \* GameStateAspect::mTeamName, by internal index
  unumSet,      \* GameStateAspect::mUnumSet
  typeCount,    \* GameStateAspect::mRobotTypeCount
  leftIndex     \* mInternalIndex[TI_LEFT]; mInternalIndex[TI_RIGHT] is the other one

agentVars == <<clients, agentMap, disappeared, updating, loaded>>
stateVars == <<side, unum, robotType>>
gameVars  == <<teamName, unumSet, typeCount, leftIndex>>
vars      == <<agentVars, stateVars, gameVars>>

Index == {0, 1}
Side  == {"left", "right"}

InternalIndex(s) == IF s = "left" THEN leftIndex ELSE 1 - leftIndex
SideOf(i)        == IF i = leftIndex THEN "left" ELSE "right"
OpponentTeam(s)  == CASE s = "left" -> "right" [] s = "right" -> "left" [] OTHER -> "none"

-----------------------------------------------------------------------------
(* The limits on robot types. *)

\* The robots a team has on the field according to its type counts, each as
\* a pair <<type, serial number>>; its cardinality is the code's numRobots.
Robots(count)    == UNION {{t} \X (1 .. count[t]) : t \in RobotType}
TypesUsed(count) == {t \in RobotType : count[t] > 0}

\* Mutant: the places left are compared one robot too late.
TypeAllowedTooLate(count, t) ==
  /\ count[t] # MaxRobotTypeCount
  /\ \A u \in RobotType \ {t} : count[t] + 1 + count[u] <= MaxSumTwoRobotTypes
  /\ SquadSize - Cardinality(Robots(count))
        < MinRobotTypesCount - Cardinality(TypesUsed(count))
     => count[t] = 0

\* InsertRobotType: the three refusals of the method.
TypeAllowed(count, t) ==
  /\ count[t] # MaxRobotTypeCount
  /\ count[t] + 1 <= MaxSumTwoRobotTypes
  /\ \A u \in RobotType \ {t} : count[t] + 1 + count[u] <= MaxSumTwoRobotTypes
  /\ SquadSize - Cardinality(Robots(count))
        <= MinRobotTypesCount - Cardinality(TypesUsed(count))
     => count[t] = 0

\* RequestUniformNumber offers the smallest number free, 0 when none is.
FirstFree(taken) ==
  LET free == (1 .. SquadSize) \ taken
  IN  IF free = {} THEN {0} ELSE {n \in free : \A m \in free : n <= m}

\* GetTeamIndex: the first internal index that is free or already has the
\* name takes it.
Matches(i, name) == teamName[i] \in {NoName, name}

\* Mutant: a free slot is taken before the known names are compared.
IndexForFreeFirst(name) ==
  IF teamName[0] = NoName THEN {0} ELSE IF teamName[1] = NoName THEN {1}
  ELSE {i \in Index : teamName[i] = name}

IndexFor(name) ==
  IF Matches(0, name) THEN {0} ELSE IF Matches(1, name) THEN {1} ELSE {}

\* Mutant: InsertUnum does not look whether the number is taken.
NumberInsertableTwice(i, n) == Cardinality(unumSet[i]) < SquadSize

\* InsertUnum
NumberInsertable(i, n) == Cardinality(unumSet[i]) < SquadSize /\ n \notin unumSet[i]

-----------------------------------------------------------------------------
Init ==
  /\ clients = {} /\ agentMap = {} /\ loaded = {}
  /\ disappeared = <<>> /\ updating = FALSE
  /\ side = [a \in Agent |-> "none"]
  /\ unum = [a \in Agent |-> 0]
  /\ robotType = [a \in Agent |-> NoType]
  /\ teamName = [i \in Index |-> NoName]
  /\ unumSet = [i \in Index |-> {}]
  /\ typeCount = [i \in Index |-> [t \in RobotType |-> 0]]
  /\ leftIndex = 0

\* AgentControl::ClientConnect calls GameControlServer::AgentConnect; ids are
\* handed out once, so the id of a new client is known nowhere.
AgentConnect(a) ==
  /\ ~updating
  /\ a \notin clients \union agentMap
  /\ \A k \in DOMAIN disappeared : disappeared[k] # a
  /\ clients' = clients \union {a}
  /\ agentMap' = agentMap \union {a}
  /\ UNCHANGED <<disappeared, updating, loaded, stateVars, gameVars>>

\* The scene message of the agent builds its body: a fresh AgentState with
\* the robot type the scene passes to setRobotType.
LoadScene(a, t) ==
  /\ ~updating
  /\ a \in agentMap \ loaded
  /\ loaded' = loaded \union {a}
  /\ side' = [side EXCEPT ![a] = "none"]
  /\ unum' = [unum EXCEPT ![a] = 0]
  /\ robotType' = [robotType EXCEPT ![a] = t]
  /\ UNCHANGED <<clients, agentMap, disappeared, updating, gameVars>>

\* The rest of RequestUniform once the team with internal index i has been
\* found: a refused number leaves only the team name registered, a refused
\* robot type leaves the number in the set as well.
RegisterAt(a, i, name, number) ==
  LET numberOk == NumberInsertable(i, number)
      admitted == numberOk /\ TypeAllowed(typeCount[i], robotType[a])
  IN  /\ teamName' = [teamName EXCEPT ![i] = name]
      /\ unumSet' = IF numberOk THEN [unumSet EXCEPT ![i] = @ \union {number}] ELSE unumSet
      /\ IF admitted
         THEN /\ typeCount' = [typeCount EXCEPT ![i][robotType[a]] = @ + 1]
              /\ side' = [side EXCEPT ![a] = SideOf(i)]
              /\ unum' = [unum EXCEPT ![a] = number]
         ELSE UNCHANGED <<typeCount, side, unum>>

\* InitEffector::PrePhysicsUpdateInternal calls GameStateAspect::RequestUniform
\* and ignores its result.  An unknown third team name is refused outright.
RequestUniform(a, name, n) ==
  /\ ~updating
  /\ a \in loaded
  /\ \E i \in IndexFor(name) :
       \E number \in IF n = 0 THEN FirstFree(unumSet[i]) ELSE {n} :
         RegisterAt(a, i, name, number)
  /\ UNCHANGED <<agentVars, robotType, leftIndex>>

\* pushDisappearedAgent, on both ways to it.
PushDisappearedAgent(a) ==
  /\ Len(disappeared) < MaxPending
  /\ disappeared' = Append(disappeared, a)
  /\ UNCHANGED <<agentMap, updating, loaded, stateVars, gameVars>>

\* AgentControl::ClientDisconnect; the agent may have been killed before.
ClientDisconnect(a) ==
  /\ ~updating
  /\ a \in clients
  /\ clients' = clients \ {a}
  /\ PushDisappearedAgent(a)

\* The trainer's kill command; the client of the agent stays connected.
TrainerKill(a) ==
  /\ ~updating
  /\ a \in agentMap \intersect loaded
  /\ PushDisappearedAgent(a)
  /\ UNCHANGED clients

\* Mutant: the loop is entered with nothing in the list.
StartUpdateOnEmpty ==
  /\ ~updating
  /\ updating' = TRUE
  /\ UNCHANGED <<clients, agentMap, disappeared, loaded, stateVars, gameVars>>

\* GameControlServer::Update starts to drain the list.
StartUpdate ==
  /\ ~updating
  /\ disappeared # <<>>
  /\ updating' = TRUE
  /\ UNCHANGED <<clients, agentMap, disappeared, loaded, stateVars, gameVars>>

\* Mutant: the robot type is returned even for an agent without a team, whose
\* side maps to an index like the right one.
ReturnUniformUnchecked(a) ==
  LET i == InternalIndex(side[a])
      t == robotType[a]
  IN  /\ unumSet' = [unumSet EXCEPT ![i] = @ \ {unum[a]}]
      /\ typeCount' = [typeCount EXCEPT ![i][t] = IF @ > 0 THEN @ - 1 ELSE @]

\* ReturnUniform, called from AgentState::OnUnlink: the robot type is given
\* back only when the number was in the set.
ReturnUniform(a) ==
  IF side[a] # "none" /\ unum[a] \in unumSet[InternalIndex(side[a])]
  THEN LET i == InternalIndex(side[a])
           t == robotType[a]
       IN  /\ unumSet' = [unumSet EXCEPT ![i] = @ \ {unum[a]}]
           /\ typeCount' = [typeCount EXCEPT ![i][t] = IF @ > 0 THEN @ - 1 ELSE @]
  ELSE UNCHANGED <<unumSet, typeCount>>

\* One turn of the loop: GameControlServer::AgentDisappear for the next
\* agent of the list, an error when the agent is unknown.
AgentDisappear ==
  /\ updating
  /\ LET a == Head(disappeared)
     IN  /\ agentMap' = agentMap \ {a}
         /\ loaded' = loaded \ {a}
         /\ IF a \in agentMap /\ a \in loaded THEN ReturnUniform(a)
            ELSE UNCHANGED <<unumSet, typeCount>>
         /\ side' = [side EXCEPT ![a] = "none"]
         /\ unum' = [unum EXCEPT ![a] = 0]
         /\ robotType' = [robotType EXCEPT ![a] = NoType]
  /\ disappeared' = Tail(disappeared)
  /\ updating' = (Tail(disappeared) # <<>>)
  /\ UNCHANGED <<clients, teamName, leftIndex>>

\* Mutant: the indexes are swapped and the agents are not told.
SwapTeamSidesIndexOnly ==
  /\ ~updating
  /\ leftIndex = 0
  /\ leftIndex' = 1
  /\ UNCHANGED <<agentVars, stateVars, teamName, unumSet, typeCount>>

\* SoccerRuleAspect::SwapTeamSides.  CheckTime calls it when the first half
\* ends, which happens once in a match.
SwapTeamSides ==
  /\ ~updating
  /\ leftIndex = 0
  /\ leftIndex' = 1 - leftIndex
  /\ side' = [a \in Agent |-> IF a \in loaded THEN OpponentTeam(side[a]) ELSE side[a]]
  /\ UNCHANGED <<agentVars, unum, robotType, teamName, unumSet, typeCount>>

Next ==
  \/ \E a \in Agent : AgentConnect(a) \/ ClientDisconnect(a) \/ TrainerKill(a)
  \/ \E a \in Agent, t \in RobotType : LoadScene(a, t)
  \/ \E a \in Agent, name \in TeamName, n \in RequestedUnum :
       RequestUniform(a, name, n)
  \/ StartUpdate
  \/ AgentDisappear
  \/ SwapTeamSides

Spec == Init /\ [][Next]_vars

-----------------------------------------------------------------------------
(* Properties. *)

\* The agents that play for the team with internal index i.
Wearers(i) == {a \in loaded : side[a] # "none" /\ InternalIndex(side[a]) = i}

\* Every variable has its type.
TypeOK ==
  /\ clients \subseteq Agent /\ agentMap \subseteq Agent /\ loaded \subseteq agentMap
  /\ disappeared \in Seq(Agent)
  /\ updating \in BOOLEAN
  /\ side \in [Agent -> Side \union {"none"}]
  /\ unum \in [Agent -> Int]
  /\ robotType \in [Agent -> RobotType \union {NoType}]
  /\ \A a \in loaded : robotType[a] \in RobotType
  /\ teamName \in [Index -> TeamName \union {NoName}]
  /\ unumSet \in [Index -> SUBSET Int]
  /\ typeCount \in [Index -> [RobotType -> Nat]]
  /\ leftIndex \in Index
  /\ updating => disappeared # <<>>

\* No two players of a team wear the same number, whatever the order of
\* requests, departures, kills and the change of sides.
UniqueUniform ==
  \A a, b \in loaded :
    a # b /\ side[a] # "none" /\ side[a] = side[b] => unum[a] # unum[b]

\* The number a player wears is in the set of his own team, also after the
\* change of sides, so that it is refused to everybody else.
WornIsTaken == \A i \in Index : \A a \in Wearers(i) : unum[a] \in unumSet[i]

\* The type counts of a team cover all its players: the limits on robot
\* types are limits on the players who are really there.
PlayersCounted ==
  \A i \in Index, t \in RobotType :
    Cardinality({a \in Wearers(i) : robotType[a] = t}) <= typeCount[i][t]

\* The rules on robot types hold for every team at all times: no type and no
\* two types together exceed their maxima, and the free places suffice to
\* reach the minimum number of types (a full squad has it).
SquadMixLegal ==
  \A i \in Index :
    /\ \A t \in RobotType : typeCount[i][t] <= MaxRobotTypeCount
    /\ \A t, u \in RobotType :
         t # u => typeCount[i][t] + typeCount[i][u] <= MaxSumTwoRobotTypes
            \/ typeCount[i][t] = 0 \/ typeCount[i][u] = 0
    /\ SquadSize - Cardinality(Robots(typeCount[i]))
          >= MinRobotTypesCount - Cardinality(TypesUsed(typeCount[i]))

\* The two teams have different names.
NamesDistinct == teamName[0] = teamName[1] => teamName[0] = NoName

\* A player stays with his team (its internal index) until he leaves or asks
\* for another team himself: neither the change of sides nor a request, kill
\* or departure of anybody else moves him.
PlayerKeepsTeam ==
  [][\A a \in loaded \intersect loaded' :
       side[a] # "none" =>
         \/ InternalIndex(side[a])' = InternalIndex(side[a])
         \/ \E name \in TeamName, n \in RequestedUnum : RequestUniform(a, name, n)]_vars
=============================================================================
