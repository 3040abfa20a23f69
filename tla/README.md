# SimSpark and the RoboCup 3D server, in TLA+

This directory holds a verification project for SimSpark, the simulator under
`src/spark`, and for the soccer server built on it, `src/rcssserver3d`, in the
branch that plays the Standard Platform League (SPL). It contains TLA+ modules
that model the parts of the server that keep state and have to agree with one
another, TLC configurations that check them on small instances, and theorems
about them whose proofs TLAPS checks for every value of the constants.

`PROJECT.json` is the index: components and how far each is modelled, the runs,
the mutants that show that every property can fail, the source lines behind
every definition, the hazards, the findings and the theorems.

To run a model: `tlc -config SPLGame.cfg MCSPLGame`. To check the proofs of a
module: `tlapm SPLGame_proofs.tla`.

## 1. The system

A simulator process consists of a *simulation server* that advances a physics
scene, a set of *control nodes* hung below it that talk to the world (agents,
monitors, input, rendering), and, for soccer, *control aspects* that know the
rules of the game. Everything is plugged together at start-up by Ruby scripts.

    clients ---TCP/UDP--- AgentControl ------+
    behaviors (in proc.)- TrainControl ------+  SimulationServer
    monitors, trainers -- MonitorControl ----+--- Run / RunMultiThreaded
    screen -------------- RenderControl      |    Cycle, Step, SyncTime
    keyboard ------------ InputControl ------+        |
                                                      v
            GameControlServer::Update <---- physics step (SceneServer, ODE)
              GameStateAspect | SPLState    teams, numbers, scores, play modes
              SoccerRuleAspect | SPLRule    referee
              BallStateAspect               where the ball is, who touched it

### 1.1 Components, their state and their hard parts

**Registration of players** (`gamestateaspect.cpp`, `gamecontrolserver.cpp`,
`agentstate.cpp`, `initeffector.cpp`). State: the agents connected, the list of
agents that have disappeared, and per team the name, the set of uniform numbers
taken and the count of every robot type, kept by an *internal* index that does
not change when the teams change sides. Operations: connect, load a scene,
`init`, disconnect, the trainer's `kill`, the draining of the disappeared list,
the change of sides. Hard: an agent is removed later than it is lost, may be
queued twice, may ask for a number several times, may be refused half-way; and
the map from side to index changes while players are on the field.
Correct means: nobody wears a number twice, numbers worn are numbers taken,
type counts cover the players there are, the rules for a mixed squad hold at
every moment, team names stay distinct, and nobody changes team by accident.

**The simulation loop** (`simulationserver.cpp`). State: the run flags (`mExit`,
`mExitThreads`, `mCyclePaused`, `mContinueCycle`), the time accumulated and the
time of every node. It exists twice: single-threaded (`Run`, `Cycle`) and with a
thread per node (`RunMultiThreaded`, `SimControlThread`) around one
`boost::barrier`. Nodes have different step lengths and are skipped while they
are ahead of the clock. Hard: every thread decides by itself, from flags read
without a lock, how many barriers its cycle has; pause, continue and quit come
from other threads at any moment. Correct means: physics never runs beside a
handler, starts and ends of a node's cycle pair up, threads leave together, and
every node is served, a pause ends and a quit works.

**Agent threads** (`agentcontrol.cpp`). Below that, `AgentControl` has a thread
per agent that makes the agent's senses inside `EndCycle`. The master and the
agent threads meet at a barrier whose size is fixed, so that every arrival and
departure leaves a new barrier and the next meeting moves everybody to it.
Hard: the pointers and the count of threads are read and written without a lock,
by several threads that leave at once too, and there is one place for a new
barrier. Correct means: the barrier fits the threads alive, threads work only
inside `EndCycle`, every agent's senses are fresh, and `EndCycle` returns.

**The SPL game** (`splstate.cpp`, `splrule.cpp`, with parts of
`gamestateaspect.cpp`, `soccerruleaspect.cpp`, `trainercommandparser.cpp`).
Two state machines share one time stamp: the SPL state (Unknown, Initial, Ready,
Set, Playing, Finished) and the play mode inherited from the soccer simulation.
Further state: half, kick-off bookkeeping, score, clock and lead time, the ball
dropped by force, and the time until which each robot is penalised. Hard: the
handler of a state and `CheckTime` act in the same update, the clock stands
still in Initial, and a trainer changes play mode, kick-off, ball, time and
score between any two updates. Correct means: robots get the time the rules
give them, phases and halves come in order, a goal counts once, no ball is about
in a break, penalties are served, and the match ends.

**Soccer simulation rules** (`soccerruleaspect.cpp` with `gamestateaspect.cpp`,
`ballstateaspect.cpp`, `passeffector.cpp`, `trainercommandparser.cpp`): the referee
of the soccer simulation, which decides when `SPLRule` is not plugged in. State:
the play mode and since when it lasts, half, clock and score's bookkeeping, who
touched the ball last and which sides touch it now, the taker of the last kick,
whether an indirect kick or a kick-off may be scored from yet, and per team the
progress of pass mode. Operations: one update per step, which goes through time,
half time, and the handler of the play mode; pass mode of a player; the trainer's
play mode, kick-off and drop ball. Hard: pauses and time-outs race touches of the
ball; four flags, set and reset in different play modes, decide together whether
a goal counts; the taker of a kick is told from other players by the *last*
toucher, who changes with every update; a side is remembered across a change of
sides. Correct means: no restart is stuck, no goal counts that was not earned,
a second touch of the taker is punished, the other team starts the second half.

**Hearing and saying** (`agentstate.cpp`, `soccerruleaspect.cpp` `Broadcast`,
`sayeffector`, `hearperceptor`). State: per player a box for its own words, one for
its mates and one for its opponents, and two capacities. Operations: say, sense,
join, leave. Hard: several messages before the next sensing; the box itself is not
looked at, only the capacity. Correct means: nobody hears more than its share, no
message replaces one that has not been heard, nobody goes deaf.

**Connections and synchronised mode** (`netcontrol.cpp`, `netbuffer.cpp`,
`netmessage.cpp`, `agentcontrol.cpp`, `agentaspect.cpp`). State: sockets, clients, a
receive buffer per *address*, connections to be closed, and per agent whether it
has sent its `syn` and for how many cycles it exists. Operations: accept, read a
round of fragments, cut messages by their length prefix, realize them, in
synchronised mode repeat until every agent has sent its sync or is given up,
close at the end of the cycle. Hard: messages in pieces, several in one read,
clients that vanish in between, an address that comes round again, silent agents.
Correct means: an agent realizes what its client sent, no agent that the server
keeps is left behind, and nobody can hold the simulation for ever.

**Monitors and trainers** (`monitorcontrol.cpp`, `monitorlogger.cpp`,
`monitorserver.cpp`, `sparkmonitor.cpp`, `netcontrol.cpp` `SendClientMessage`,
`scene.cpp`). State: the number of the last modification of the scene and of the
last update of its cache, for monitors and log file the number up to which they
have had the full state, one cache of transforms shared by all readers, the message
made in this cycle, and per client what its socket has not taken yet. Operations:
connect, full state or difference per cycle, the log file, the trainer's request
for the full state, partial sends. Hard: one cache of differences for readers that
are served at different times, cached children of which only a part is brought up
to date when an agent connects, and a socket that takes half a message. Correct
means: messages arrive whole, a picture that missed nothing is true, a full state
that is due is sent.

**Proxy** (`agentproxy.cpp`): two threads per proxied agent that buffer between a
slow client and the server. No program of the repository starts it, see section 6.

**The rest**: effectors and perceptors, physics, scene graph, object core,
rendering and windows, importers, the SPADES server, the monitor, the sample
agents and the editor. They are data, geometry, input or user interface;
`PROJECT.json` says for each why it is not modelled.

### 1.2 How the parts interact

* The loop calls the handlers of the nodes (`StartCycle`, `SenseAgent`,
  `ActAgent`, `EndCycle`, `WaitCycle`), which are atomic in *SimulationThreads* and
  *RunLoop*. `AgentControl` is one of the nodes: its barriers (*AgentThreads*) and
  its wait for syncs (*AgentLink*) are inside such a handler, and both have to
  return for the fairness of the loop to be true. *AgentLink* shows it of
  `StartCycle` (`StartCycleReturns`).
* `MonitorControl` and `MonitorLogger` are nodes too; *PhysicsAlone* is what lets
  *MonitorFeed* take a physics step and the service of a reader for steps that do
  not overlap, and a thread per node is why it serves monitors and log file in
  any order.
* `Step` calls `GameControlServer::Update`, which drains the disappeared agents
  (*TeamRoster*) and then updates the control aspects (*SPLGame* or *SoccerGame*).
* Messages of agents reach effectors as *AgentLink* cuts them; among these are
  `init` (*TeamRoster*), `pass` (*SoccerGame*) and `say` (*HearChannel*). A client that is
  closed becomes a disappeared agent of *TeamRoster* and leaves *HearChannel*.
* Commands of agents and trainers are executed in handlers of nodes, never
  beside `Step` (*PhysicsAlone*); that is why the modules about the game may
  take a handler for one step.
* The GUI and signal handlers write `mCyclePaused`, `mContinueCycle` and `mExit`
  from other threads; in the loop modules they can do so between any two steps.

## 2. The modules

| module | models | abstract view of |
|---|---|---|
| `TeamRoster` | registration, numbers, types, names, sides | |
| `SimClock` | clock arithmetic shared by both loops | |
| `SimCycle` | what a loop promises its nodes (abstract specification) | |
| `SimulationThreads` | the multi-threaded loop | implements `SimCycle` |
| `RunLoop` | the single-threaded loop | |
| `SenseCycle` | what `AgentControl::EndCycle` promises the server (abstract specification) | |
| `AgentThreads` | `AgentControl`'s threads and barriers | implements `SenseCycle` |
| `AgentLink` | connections, framing, synchronised mode | |
| `MonitorFeed` | full states and differences for monitors and log file | |
| `SPLGame` | SPL state, SPL rules, trainer commands | |
| `SoccerGame` | play modes, kicks, pass mode, goals, half time | |
| `HearChannel` | who hears what of whom | |
| `MC*` | values for the constants, nothing else | |
| `*_proofs` | theorems and proofs about the module of that name; `AgentSenses_proofs` about `AgentThreads` and `HearChannel`, how the senses of agents are made and what is heard in them | |

`SimClock` and `SimCycle` are shared on purpose: `RunLoop` and
`SimulationThreads` extend the first, and `SimulationThreads` is related to the
second by `INSTANCE ... WITH` a refinement mapping, and `AgentThreads` to
`SenseCycle` likewise.

### TeamRoster

One step is one handler. `AgentConnect`, `LoadScene`, `RequestUniform`,
`ClientDisconnect`, `TrainerKill` and `SwapTeamSides` are the calls; `StartUpdate`
and `AgentDisappear` are the loop of `GameControlServer::Update`, during which
nothing else happens (variable `updating`). `RegisterAt` keeps the order of the
code: the name is registered first, then the number, then the type, and what was
registered stays when a later test refuses. That order leaves a number taken
that nobody wears when the robot type is refused; the properties are about what
must hold in spite of it. Numbers, names and types are members of small sets;
`mInternalIndex` is the variable `leftIndex`. The side of a robot is kept in its
`AgentState`; `Wearers(i)` are the robots that play for internal index `i`.

### SimClock, SimulationThreads, SimCycle

Time is counted in ticks of 0.01 s. Only the difference between the time of a
node and the simulation time is ever compared, so `ahead[n]` keeps that, clipped
at zero. A thread is where its program counter says: `mpc` for the main thread,
`npc[n]` for the thread of node `n`; an action lasts from one barrier or one read
of a shared flag to the next. `Barrier` is one action that releases everybody
when all have arrived. `SimCycle` says what a node may rely on: handlers of
different nodes may overlap, physics overlaps with no handler, and an act is
followed by an end before the next act.

### RunLoop

The same loop in one thread: `Act` is `CE_StartCycle`, `CE_SenseAgent` and
`CE_ActAgent`, `StepAndSync` is `Step` and `SyncTime`, `EndCycle` is
`CE_EndCycle`; `PausedCycle` is the other branch of `Cycle`, and `StartRun` and
`LeaveLoop` are `Init` and `Done` of the server with their control events. Every
event goes to `DueNodes` only, as `ControlEvent` does it.

### AgentThreads

Barriers are numbered objects with a size; `parked[t]` is the barrier thread `t`
waits at. The master runs `BeginEndCycle`, then `WaitMaster` and its waits
twice; an agent thread runs `StartThread`, `LoopTop`, its waits, the comparison
of its own barrier with `mThreadBarrier` (`WaitSlaveCompare`), the making of senses
(`AgentEndCycle`) and, when its client has gone, `ExitThread` and a last wait. What
`ExitThread` does is not locked, so every access to what the threads share is a step:
read and write `nThreads`, make a barrier, store the pointer. `ClientConnect` is one
step, because where it is allowed no thread is leaving meanwhile.
Barrier objects that nobody refers to are reused; that some thread may still be
inside the `wait` of a barrier being deleted is not modelled.

`SenseCycle` knows neither threads nor barriers: `EndCycle` is called and returns,
in between the senses of each agent are generated once at most, and it returns when
those of every connected agent are there. `AgentThreads` implements it with `busy`
standing for a master that is not between two `EndCycle`s (`pc["master"] # "frame"`);
clients and served agents are the same in both.

### SPLGame

`Update(d)` is `SPLState::Update` and `SPLRule::Update` with `d` of simulated time:
time, then the handler of the state, then `CheckTime` and `UpdateKickOff`
(`Finish`). `SetState`, `SetPlayMode`, `KickOffs`, `CheckTime`, `StateTime` are the methods of
the same name as operators on the record `game`. The ball is on the field, out,
hidden (the code moves it 500 m away) or in a goal, `Roll` and `Walk` let physics
and clients move ball and robots at will. The trainer's commands are actions of their own.
Geometry is reduced to the regions the rules tell apart; the random delay before
a ball is put back is a free choice; `CheckGoal` always awards the goal, because
what makes it refuse one is set by `SoccerRuleAspect::Update` only, which SPLRule
overrides. The assertion in `IsIllegalPosition` is not there, as in the default
Release build.

### SoccerGame

`Update` is one update of the three aspects in the order in which
`GameControlServer` calls them: `UpdateBall` (`BallStateAspect`, who touches the
ball), `UpdateTime` (`GameStateAspect`), then `SoccerRuleAspect`: `CheckTime`,
`AllowKickOffTeam`, and `UpdateMode`, the switch over the play mode, with one
operator per handler. The records `match`, `ball` hold the members of the aspects;
`kick`, `pass` and `starter` are histories that the properties need (who took the
last kick and what has happened since, who has played in pass mode, who kicked
off the match) and that no action reads. No position is kept: what an update sees
of the field is an input of that update, namely the list of collisions with the
ball (at most two players), the place of the ball as far as the rules tell places
apart, and whether it is out of the circle of pass mode. So moving players or the
ball changes nothing, and physics may do anything. `StartPassMode`,
`TrainerPlayMode`, `TrainerKickOff` and `TrainerDropBall` come between updates.
Keepaway and penalty shootout are off unless configured, offside is disabled
with `#if 0`, and the fouls of the automatic referee only move players; they are
left out.

### HearChannel

The state and specification of this module carry the prefix `Hear` (`HearInit`,
`HearNext`, `HearSpec`), because one module of proofs extends it and `AgentThreads`.
A box is empty or holds a message, its text, label and direction are left out.
`Say` is `SayEffector` with `Broadcast`: it goes to the agents of both teams as
`GetAgentStates` lists them, by the number that tells players apart, and adds the
message where the distance allows it (`near`, a free choice per message). `Sense`
is `HearPerceptor::Percept`. `due` is a history: what the messages heard have cost
less what time has paid back, that is, the greatest excess over its share of any
stretch of time that ends now.

### AgentLink

A message is a head (the length prefix) and a payload, `act` or `syn`; the network
delivers them apart or together. `ReadRound` is one round of the loop of
`ReadTCPMessages`, `EndTrial` the rest of a trial of `StartCycle` after `select` has
found nothing more: accept, cut, realize, ask who is synced, give up, and return
or try again. `EndCycle` closes what is in `mCloseClients`. That list is a set
here: a second entry of the same client is only logged. The receive buffers are
kept by address and never erased, as in the code; the clients that start with a
rest of an earlier connection are the ones `MessagesWhole` leaves out. UDP and the
size of the read buffer are left out.

### MonitorFeed

The scene is a structure and the place of one node. A structure says which
modification last changed the scene's own children (`top`) and which the nodes below
them (`deep`); `built` is the structure the scene has, `tree` the one the cached
children describe. `AgentConnect` hangs in a new child and refreshes the cached
children of the scene only, not those further down, but marks the whole cache as
level with the modifications before its own; when the aspect's `Init` fails it
refreshes nothing. `Step` stands for the physics steps that are due: each begins with
`UpdateCache`, robots are built in between (`early`, seen by a later `UpdateCache`, and
`late`), and `GameControlServer::Update` follows, which also `SkipStep` has. `Changes`
are the scenes that any number of modifications lead to, each of one level or, for a
change of sides, of none.

`MonitorEnd` is `MonitorControl::EndCycle`, which sends the full state, an update or
nothing (`Kind`), `LogEnd` is `MonitorLogger::EndCycle`, `ClientConnect` sends the
header that clears the shared cache of transforms. `SendClientMessage` finds that a
socket takes all, some or none of a message (`Outcomes`); a rest is sent in place of
the next message, which is lost. `memo` is the message `MonitorServer` makes once per
cycle. What the client makes of the messages is the history `pic`, and `off`
remembers that a change has gone past it, or that it began with a header which
described children that were not up to date. In a cycle none, one or both of monitors
and log file are served (`NextCycle`): each has a step of its own.

## 3. The runs

Every passing run but `soccer_rules` also checks for deadlock; a soccer match ends,
and its touches of the ball are bounded. For every property of a passing run
`PROJECT.json` names a mutant: a plausible mistake in one definition under which
TLC finds that property violated with the same configuration. The mutants stand
beside the definitions they change, marked as such; no other definition uses them.

| run | question | properties |
|---|---|---|
| `roster` | two teams, rules on robot types, a change of sides at any moment: can any order of joins, refusals, kills and losses break numbers, counts, rules or teams? | `TypeOK`, `UniqueUniform`, `PlayersCounted`, `SquadMixLegal`, `NamesDistinct`, `PlayerKeepsTeam` |
| `threads_cycle` | do the threads of the loop stay in step, and does it implement `SimCycle`? | `TypeOK`, `PhysicsAlone`, `PausedIdles`, `LeaveTogether`, `CycleSpec`, `QuitEndsRun`, `NodesServed` |
| `threads_pause` | a pause at *any* moment: violates `PhysicsAlone` | finding 1 |
| `loop_cycle` | nodes of different steps, late cycles, pauses, two runs in one thread | `ActsAndEndsAlternate`, `ContinueEndsPause` |
| `agents_spaced` | at most one agent comes and one goes in a frame: do the barriers fit, and does `EndCycle` implement `SenseCycle`? | `TypeOK`, `SomebodyRuns`, `BarrierFits`, `SenseSpec` |
| `agent_link` | messages in pieces, clients that go, agents that are silent in synchronised mode | `MessagesWhole`, `InStep`, `StartCycleReturns` |
| `link_kill` | does an agent get its time before it is given up? violates `PatientKill` | finding 3 |
| `monitor_feed` | monitors that come and go, full sockets, a log file, changes of the scene at any moment: is a picture right, and is a full state that is due sent at last? | `FramesWhole`, `PictureCurrent`, `FullStateComes` |
| `spl_match` | an SPL match of two halves with goals, a robot removed and let back, and a meddling trainer | `TypeOK`, `RobotsGetTheirTime`, `PhaseOrder`, `OneGoalPerKickOff`, `BallAway`, `PenaltyServed`, `MatchEnds` |
| `spl_second_half` | who starts the second half? violates `OtherTeamStartsSecondHalf` | finding 2 |
| `soccer_rules` | a soccer match of two halves: kicks, time-outs, goals, pass mode, a trainer | `TypeOK`, `RestartsAreShort`, `GoalsAreEarned`, `SecondTouchPunished`, `OtherTeamStartsSecondHalf` |
| `hear` | anybody says anything at any moment | `SharesKept`, `NothingOverwritten`, `NeverDeaf` |

### 3.1 Bounds, and why they are enough

*TeamRoster.* Two agents, interchangeable (symmetry), whose ids can be used again
once every trace of them is gone, so that they stand for any sequence of agents
of whom two are there at once; two is what a clash of numbers takes. A squad of
three with two types, both of which must be used, lets numbers refused half-way
fill the squad while few robots play. Two pending removals let one agent be
queued twice. Sides change once in a match, as `CheckTime` does it.

*Loops.* The steps are those of `spark.rb`: the server 0.02 s, agents 0.01 s,
monitors and rendering 0.04 s, input the default of 0.02 s. So there is one node
that is always due, one that is due every cycle and one that skips cycles. `Lags`
are the ticks by which a cycle comes late; up to three ticks reach both the
case in which a backlog is made up for and the one in which it is dropped.
`RunLoop` makes two runs, so that the flags one run leaves behind meet the next.

*AgentThreads.* Three agents: one that comes, one that leaves, one that works.
Five barrier objects are never used up.

*AgentLink.* Two addresses and three connections: one agent that is waited for,
one that comes and goes, and one address used twice. Two messages per connection
are one `act` before or after a `syn`, or a sync sent twice. One trial before an
agent is given up (60 in the code) and one cycle in which a new agent counts as
synced (5) reach the same branches earlier.

*MonitorFeed.* Two monitors, one of which joins while the other is served, and one
of which (`Slow`) has a socket that may be full: each has a send buffer of its own.
Two places, so that a move can be missed. Two modifications after the first state
(`MaxMods` counts that too), so that one further down can be pending when an agent
connects. Longer histories repeat these.

*SPLGame.* Two halves of six time units, with Ready, Set and penalties of one,
fit several kick-offs and goals into each half; time steps of one and two make
limits be hit and jumped over. One robot, a striker, because the rules for a
robot do not depend on the others; one command of the trainer, whose times and
scores lie before, within and after a half. The clock grows only in Ready, Set and
Playing and the match ends at `2 * HalfTime`, so the state space is finite without
a bound on time.

*SoccerGame.* Two interchangeable players against one: a pass, a second touch by
the same player and one by an opponent all exist. Halves of six units with pauses
of one and a drop-ball time of two let a kick-off, a placed kick and a goal from it
fit into each half. Two touches are a kick and what comes after it; pass mode and
the modes a short match does not reach are entered by one command. A match goes on
when the touches are used up: the clock plays the rest.

*HearChannel.* Three players: a speaker, a mate or opponent, and a third who may
not have registered. Capacities 2, 1, 2 are the server's numbers.

### 3.2 Assumptions of the passing runs

These hold for the environment or the configuration and the code does not enforce
them. Each is a constant or a named `ASSUME`, and what happens without it is known.

* `PauseWindow = Settled` in `threads_cycle`: a pause arrives when no thread of a
  node is about to read `mCyclePaused`. Without it: run `threads_pause`.
* `MaxRuns = 1` in `threads_cycle`: with two runs a thread of the second may see
  `mExitThreads` of the first, which is reset after the threads were created
  (simulationserver.cpp:524), leave at once, and keep the others waiting
  (`LeaveTogether` fails). The simulator's main program makes one run.
* `Spaced` and `Prompt` in `agents_spaced`. `"come" \in Spaced`: an agent connects only
  when no other change is pending; without it two agents that connect in one frame
  leave two barriers where there is place for one, and `EndCycle` does not return.
  `"go" \in Spaced`: at most one agent is lost in a frame; without it two
  threads lower `nThreads` and store a new barrier side by side (`ExitThread`), and the
  one that stays can have room for a thread that is gone: with `Spaced = {"come"}` TLC
  finds `SomebodyRuns` violated. The code logs some of these cases as an error and goes
  on.
  `Prompt`: threads come round from one `EndCycle` to their next wait before the
  master begins the next; without it a thread that leaves late gives up its place in
  a barrier of the wrong frame. In the server a frame is 20 ms and the way of a thread
  between the two waits is a few instructions. The theorems about `AgentThreads` have
  all three as hypotheses.
* `HearShares` in `hear`: `HearDecay <= HearMax` and
  `HearMax + HearInc <= 2 * HearDecay`. The numbers of the server fit; with a larger
  increment a second message could be afforded before the first is sensed, and
  would replace it.
* `MaxMessages` in `agent_link` also stands for an assumption: `ReadTCPMessages` reads
  as long as something is there to read, and a client that sends faster than the
  server reads would keep it there. `StartCycleReturns` is about clients that pause.
* `0 < Warmup` in `agent_link`: a new agent counts as synced in its first cycle,
  because it has had no senses to answer yet.

### 3.3 Fairness

* Loops: weak fairness of every thread and of the barrier (in `RunLoop`, of the
  loop). Threads are scheduled, handlers and `Step` return, a complete
  `boost::barrier` opens. `Quit`, `Pause` and `Continue` are not fair: nobody has to
  quit.
* SPLGame: weak fairness of an update with `d > 0`. The server steps as long as it
  runs (`NodesServed`, `QuitEndsRun`), and every step passes simulated time. Trainer,
  ball and robots are not fair.
* HearChannel: weak fairness of every player's `Sense`, which the server does in
  every cycle for every agent.
* AgentLink: weak fairness of the server's own steps. Clients and network are not
  fair: `StartCycleReturns` holds although nobody has to send or to leave.
* MonitorFeed: weak fairness of the end of a cycle; strong fairness of `Step` and of
  the service of the monitors, because each has a step of its own: as time passes it
  comes due again and again, but not in every cycle. Monitors, trainer, log file and
  modifications are not fair. `FullStateComes` also uses that modifications are
  bounded: a scene that is modified after the physics of every cycle would never have
  a cache level with it when the monitors are served, and the code then waits.

## 4. What is proved

Each `*_proofs` module proves its theorems for every value of the constants that
the `ASSUME`s admit; these say that durations are natural numbers, flags are
Boolean and sets contain what they should. Where a theorem needs more, it says so
in its statement and below. TLC has checked every inductive invariant on the
instances of section 3 first. No module contains `RECURSIVE` operators.

`TeamRoster_proofs`, for any agents, names, types, numbers and limits:

* `TypeCorrect`: `Spec => []TypeOK`.
* `UniformsUnique`: the induction is over `UniformInv`, uniqueness together with
  "numbers worn are numbers taken". Uniqueness alone is not inductive: a new
  number is unlike the numbers worn only because those are taken. The step that
  needs care is the change of sides, which moves the index and the robots' sides
  at once; `IndexSide` says that the two cancel out.
* `TeamNamesDistinct` and `PlayersKeepTheirTeam`, from `NamesInv`.
* `CountsCoverPlayers`: `CountInv` counts, per team and type, the robots that play;
  the `Band` lemmas say how that set changes with one robot.
* `SquadsLegal`: `MixInv`, that there are finitely many robots, that the limits hold
  of the *counts*, and that there is place left for the types still missing. The
  limits on the players themselves follow only because counts cover players.

`SimulationThreads_proofs`, for any nodes, steps and lags:

* `TypeCorrect`, without any assumption.
* `ThreadsInStep`: the inductive invariant `InStep`, under `MaxRuns = 1` and
  `PauseWindow` within the settled positions. Its parts are: `Aligned`, which
  positions of the main thread and of a node's thread go together between two
  barriers; `FlagsFit`, that both made the same of `mCyclePaused` and
  `mExitThreads`; `OpenFits`, that a thread between act and end has its node among
  the open ones.
* From it: `PhysicsIsAlone`, `ThreadsLeaveTogether`, `PausedServerIdles`.
* `ThreadsImplementCycle`: every behaviour implements `SimCycle`. What a node
  is *doing* is the handler its thread is in (`EndCycle` of the RenderControl is on
  the main thread), physics *steps* while the main thread is in `Step`. Every
  action maps to one step of `SimCycle` or to a stutter (`StepOfCycle`); that
  `BeginStep` finds nobody in a handler is `Aligned`, that acts and ends alternate
  is `OpenFits`.

`RunLoop_proofs`, for any nodes, steps and number of runs: `TypeCorrect`, and
`Alternate`, that acts and ends of a node alternate. The invariant `OpenAhead` says
which nodes have acted and not ended: all of them between the acts of a cycle and
its ends, and otherwise exactly those that are ahead of the clock, which the next
acts skip as well.

`SPLGame_proofs`, for any robots, durations, time steps and trainer values:
`TypeCorrect`, `PeriodsLast`, `PhasesInOrder`, `GoalCountedOnce`, `NoBallInBreak`,
`PenaltiesServed`. The inductive invariant `IInv` adds to `TypeOK`: `StampInv` (the
time since `mLastModeChange` never exceeds the time spent in the state: a change of
play mode can only make a state look younger), `PenaltyInv` (what remains of a
penalty is what has not been served) and `PhaseInv` (a finished match is in its
last half, play is on only after a kick-off, a ball dropped by force in a break was
dropped in it). The lemmas follow the pipeline of `Update`: one for each operator
on `game`, then one for the step.

`SoccerGame_proofs`, for any players, durations and trainer modes:

* `TypeCorrect`.
* `RestartsShort`, if the pause before a kick is at most one unit longer than the
  drop-ball time (`Patient`; the server has 1 s, and 15 s or 30 s): the invariant is
  `ClockInv`, that no mode began in the future, and every update leaves a restart
  that has lasted `DropBallTime`.
* `OtherTeamStarts`, if the teams are named apart and halves have a length: `Halves`
  relates the team remembered for the next half to the history `starter` across
  goals, kick-offs and the change of sides.
* `SecondTouchLoses`, for more than two players: `TouchInv` ties the last toucher,
  the time of the kick and the flag of an indirect kick to what
  `CheckFreeKickTakerFoul` and `CheckGoal` read.
* `NoGoalUnearned`, for more than two players, a waiting time of pass mode above zero
  (10 s in the server) and no team called "none", which stands for no team in the
  model. The flags that decide together whether a goal counts each have an
  invariant of their own: `TouchInv` for the indirect kick; `OpenerInv`, that in
  play or at a placed kick a kick-off that is not free yet has its team barred
  from scoring; `PassInv`, that a team is cleared after its pass mode only when two of
  its players have touched the ball since. Were the waiting time zero, the referee
  would not look at passes even in the update that ends pass mode.

`AgentSenses_proofs`, about `AgentThreads`, for any finite set of agents and any
supply of barriers, under `Spaced = {"come", "go"}` and `Prompt`:

* `ThreadTypes`, and `RoomAtTheBarrier`: nobody finds a barrier full.
* `NoBarrierDeadlock`: at every moment some thread is not waiting. This is a fact
  about one state; that the master is scheduled, and so that `EndCycle` returns, is
  not part of it.
* `ThreadsServeSenses`: every behaviour implements `SenseCycle`.

All four come from `BarrierInv`. "The barrier fits" is not inductive, because it
says nothing of a barrier that is about to be replaced. `BarrierInv` gives the barrier
the threads meet at a crew (`Crew`): while a change is pending, the agents that hold
it already (`Users`), and after it all that stay (`Staying`). `Sizes` says that the
barrier is made for its crew and the master, `Positions` where an agent's thread can
be while the master is in its place, `Pointers` and `Mine` which of the two barriers
of a change everybody refers to, `Parked` that of those the master waits for
somebody is still on the way, `Work` who has generated senses in this `EndCycle`.
Between reading `nThreads` and storing the barrier a leaving thread is alone
(`Lone`, which the spacing gives), and what it has read and made is right (`Counting`). A wait
then has two cases (`Parks`, `Opens`): a thread parks because somebody of the crew is
missing, or it is the last and all of them go on.

The same module, about `HearChannel`, under `HearShares`: `HearTypes`, `Shares`,
`FirstMessageStays`. The
invariant `EarOk` is about one ear at a time: capacity and debt add up to at most
`Most`, and an ear whose box is full cannot afford another message; the latter is
what protects the box, which `AddMessage` does not look at.

`AgentLink_proofs`, for any addresses, time-out, and warm-up: `LinkTypes`,
`MessagesAreWhole`, `AgentsInStep`. `ClientInv` says what of an address is empty while
nobody is connected from it, `SyncInv` that an agent which is synced and past its
first cycles has answered since the last cycle.

`MonitorFeed_proofs`, for any monitors, places and number of modifications:
`FeedTypes`, `MessagesStayWhole`, `PicturesStayCurrent`. A picture is current after
service because it was before, up to what the shared cache has not been told:
`SceneInv` says that cached children level with the scene describe it (a modification
further down that was pending when an agent connected is still pending, since
connecting is a modification of its own), `MemoInv` what the message of this cycle
contains, `UnseenInv` that a move the shared cache has not been told is not sent yet,
`PictureInv` that the picture of a monitor that missed nothing is what the cache
says, `AbsentInv` that nothing is unsent to a monitor that is not there.

**Only model-checked:** liveness (`MatchEnds`, `NodesServed`, `QuitEndsRun`,
`ContinueEndsPause`, `StartCycleReturns`, `FullStateComes`, `NeverDeaf`), because the
provers at hand do not treat fairness. Every safety and action property of a
passing run, and both refinements, are theorems. What the runs that expect a
violation show is shown on their instances.

## 5. Findings

1. *Pause between two reads* (simulationserver.cpp:528). Each thread reads
   `mCyclePaused` for itself. A pause between two reads makes one thread take the
   two barriers of a paused cycle and another the three of a normal one; physics
   then steps while a node begins its cycle.
2. *The same team starts both halves* (splrule.cpp:616). At half time
   `SPLRule::CheckTime` sets Initial and the second half, but does not exchange the
   sides. `KickOff` has remembered the side of the first kick-off for the second half,
   because `ChangeSidesInSecondHalf` is set and the other team would be on that side
   by then. In the soccer simulation, where `CheckTime` exchanges the sides, the same
   property holds (`soccer_rules`, `OtherTeamStarts`).
3. *Agents given up without a wait* (netcontrol.cpp:684). A connection that has ended
   stays among the sockets the next trials select on, until `EndCycle`; `select`
   returns at once for it, and the 60 trials that should last a second each pass
   in no time. Every agent that has not answered by then is cut off.

Smaller observations made while modelling, visible in the models but not the
subject of a run:

* `Continue` and `Pause` in the same cycle leave the server running although it was
  paused last, because `mContinueCycle` stays set until the next paused cycle
  (simulationserver.cpp:445). `DoneSimulation` skips nodes ahead of the clock
  (`LeaveLoop`).
* Two agents that connect in one frame stop `EndCycle`, and so do two that are lost
  in one frame when the barrier made for the larger number is stored last
  (agentcontrol.cpp:72-78, 391-396; section 3.2).
* The number of a robot refused for its type stays taken (`RegisterAt`).
* `mBuffers` is never erased: a client from an address whose last connection ended
  inside a message has its first bytes taken for the rest of that message
  (`StoreFragment`, the history `rest`).
* A monitor that connects gets a header that clears the cache all readers share:
  changes the others have not been sent are lost on them until the next full state,
  and a full state the trainer has asked for is taken for sent. The full state that
  the log file writes every three seconds clears the cache in the same way.
* The header for a monitor that connects before the next physics step describes the
  cached children as they are, and the modification that is pending counts as logged
  from then on: that monitor has no picture until the next full state
  (monitorcontrol.cpp:66-73, gamecontrolserver.cpp:165).
* `UpdateKickOff` overwrites the team remembered for the second half after every goal
  (splstate.cpp:56).
* With a thread per node that header walks the scene while agents connect.
* `CheckFreeKickTakerFoul` looks at the front of the list of collisions only
  (soccerruleaspect.cpp, around line 2897), where its comment says that no other
  agent has touched the ball.
* Set places penalised robots on the field like all others (`UpdateSet`); a
  trainer's change of play mode in Set reaches the `assert(false)` of
  `IsIllegalPosition` in builds with assertions.

## 6. Not modelled

* *Proxy.* No program of the repository starts it, and it does not do what it is
  meant to: it stores whole receive buffers whatever was received
  (agentproxy.cpp:134, 175) and looks for `(sync)` (line 105) where the server sends and
  expects `syn`. A model of it would state properties of code that cannot work.
* *Floating point.* The clock is in whole ticks, so rounding of `mSumDeltaTime*100`
  is out of reach; so are places, distances and directions, which are inputs.
* *Physics, scene graph, effectors and perceptors*: numerical code without a
  protocol.
* *The contents of messages*, UDP, memory management of barriers and nodes, and data
  races below the grain of a handler.
* *Keepaway, penalty shootout, offside, the fouls of the automatic referee*, initial
  positions: see SoccerGame.
* The components section 1.1 lists under *the rest*. They make up most of the lines
  of the repository (editor, GUI, vendored widgets and OpenGL headers, importers,
  meshes), and keep no state in which actors could disagree; the map covers the
  code that decides how a simulation proceeds, and is a small share of all lines.

## 7. Plan

What is left, in order:

1. The automatic referee's fouls as a module of their own: counters per player for
   illegal defence and illegal attack and the repositioning they lead to.
2. The lifetime of the barrier objects in `AgentControl`.
3. `AgentLink` and `HearChannel` composed, so that what is said in one cycle is
   heard in the next in synchronised mode.
