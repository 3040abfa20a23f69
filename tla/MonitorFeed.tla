----------------------------- MODULE MonitorFeed ----------------------------
(***************************************************************************)
(* What the monitors are told: MonitorControl::EndCycle sends each of them *)
(* the full state of the scene after the scene was modified, and otherwise *)
(* only the transforms that changed (SparkMonitor compares them with a     *)
(* node cache that all readers share, the log file included); the messages *)
(* go out through NetControl::SendClientMessage, which keeps what a socket *)
(* did not take.                                                           *)
(*                                                                         *)
(* The scene is its structure and the place of one node.  A structure says *)
(* which modification last changed the scene's own children, and which the *)
(* nodes below them.  A monitor's picture is what a client has of it.      *)
(*                                                                         *)
(* A cycle has a start, in which agents and monitors connect and trainers  *)
(* ask for the full state, and, after the physics step, an end in which    *)
(* monitors and log file are served, in any order: every control node has  *)
(* a thread of its own.                                                    *)
(***************************************************************************)
EXTENDS Naturals

CONSTANTS
  Monitors,   \* clients of the monitor port
  Slow,       \* those whose socket may be full; the others' take all
  Places,     \* where the node can be
  MaxMods     \* bound: modifications of the scene

ASSUME FeedBounds == MaxMods \in Nat \ {0} /\ Places # {} /\ Slow \subseteq Monitors

VARIABLES
  phase,      \* "start" or "end" of a cycle
  modNum,     \* Scene::mModifiedNum
  cacheNum,   \* Scene::mLastCacheUpdate
  built,      \* the structure of the scene
  tree,       \* the structure that mBaseNodeChildren describe
  pos,        \* the local transform of the node
  cpos,       \* the transform in SparkMonitor::mNodeCache
  logged,     \* MonitorControl::mFullStateLogged
  asked,      \* RequestFullState came since: logged is one less for each
  logMod,     \* MonitorLogger::mFullStateLogged
  memo,       \* MonitorServer::mData of this cycle
  served,     \* control nodes that have had their EndCycle; "sent": and the
              \* monitors, if there are any, were sent something in theirs
  clients,    \* mClients
  unsent,     \* mSendBuffers: of this message something is not sent yet
  onWire,     \* history: the message that has begun and not ended on the wire
  pic,        \* history: what the client has made of the messages
  off         \* history: a change has gone past the client; pic is given up then

scene   == <<modNum, cacheNum, built, tree, pos>>
loggers == <<logMod, memo, served>>
links   == <<clients, unsent, onWire, pic, off>>
vars    == <<phase, scene, cpos, logged, asked, loggers, links>>

Shapes == [top : 1..MaxMods, deep : 1..MaxMods]

Full(t, p)    == [full |-> TRUE, tree |-> t, moved |-> TRUE, pos |-> p]
Part(t, b, p) == [full |-> FALSE, tree |-> t, moved |-> b, pos |-> p]
Messages == [full : BOOLEAN, tree : Shapes, moved : BOOLEAN, pos : Places]
None     == [full |-> FALSE]

(* What the model keeps of a message that a socket did not take, enough to *)
(* tell it from the next.  That one is lost and the monitor off from then, *)
(* so that it does not matter which structure the rest described.          *)
Rests     == [full : BOOLEAN, pos : Places]
Rest(msg) == [full |-> msg.full, pos |-> msg.pos]

Garbled  == [tree |-> [top |-> 0, deep |-> 0], pos |-> CHOOSE p \in Places : TRUE]
Pictures == [tree : [top : 0..MaxMods, deep : 0..MaxMods], pos : Places]

TypeOK ==
  /\ phase \in {"start", "end"}
  /\ modNum \in 1..MaxMods /\ cacheNum \in 1..MaxMods
  /\ built \in Shapes /\ tree \in Shapes
  /\ pos \in Places /\ cpos \in Places
  /\ logged \in 1..MaxMods /\ asked \in BOOLEAN
  /\ logMod \in 1..MaxMods
  /\ memo \in Messages \union {None}
  /\ served \subseteq {"monitor", "log", "sent"}
  /\ clients \subseteq Monitors
  /\ unsent \in [Monitors -> Rests \union {None}]
  /\ onWire \in [Monitors -> Rests \union {None}]
  /\ pic \in [Monitors -> Pictures]
  /\ off \in [Monitors -> BOOLEAN]

Init ==
  /\ phase = "start"
  /\ modNum = 1 /\ cacheNum = 1
  /\ built = [top |-> 1, deep |-> 1] /\ tree = built
  /\ pos \in Places /\ cpos = pos
  /\ logged = 1 /\ asked = FALSE /\ logMod = 1
  /\ memo = None /\ served = {}
  /\ clients = {}
  /\ unsent = [m \in Monitors |-> None] /\ onWire = [m \in Monitors |-> None]
  /\ pic = [m \in Monitors |-> Garbled] /\ off = [m \in Monitors |-> FALSE]

-----------------------------------------------------------------------------
(* What a client makes of a message: a full state replaces its picture; an *)
(* update speaks of the nodes of the structure it describes.               *)
Applied(p, msg) ==
  IF msg.full THEN [tree |-> msg.tree, pos |-> msg.pos]
  ELSE IF p.tree # msg.tree THEN Garbled
  ELSE IF msg.moved THEN [p EXCEPT !.pos = msg.pos] ELSE p

(* Mutant: the newest message is sent, what was left over is forgotten.    *)
SendNewest(rest, msg) == msg

(* SendClientMessage sends what was left over instead of the message.      *)
ToSend(rest, msg) == IF rest = None THEN msg ELSE rest

(* The socket takes all, a part or nothing of it; what it did not take     *)
(* stays in mSendBuffers, and a message that found something there is lost.*)
Outcomes == {"all", "some", "none"}
Taking(m) == IF m \in Slow THEN Outcomes ELSE {"all"}
Takings   == {taken \in [clients -> Outcomes] : \A m \in clients : taken[m] \in Taking(m)}

SendAll(to, msg, taken) ==
  /\ unsent' = [m \in Monitors |->
       IF m \notin to THEN unsent[m]
       ELSE IF taken[m] = "all" THEN None ELSE ToSend(unsent[m], Rest(msg))]
  /\ onWire' = [m \in Monitors |->
       IF m \notin to \/ taken[m] = "none" THEN onWire[m]
       ELSE IF taken[m] = "all" THEN None ELSE ToSend(unsent[m], Rest(msg))]
  /\ pic' = [m \in Monitors |->
       IF off'[m] THEN Garbled
       ELSE IF m \in to /\ taken[m] = "all" THEN Applied(pic[m], msg)
       ELSE pic[m]]

Lost(m) == unsent[m] # None

(* GetMonitorHeaderInfo clears the node cache and describes all there is,  *)
(* to one reader: changes that others have not been sent yet are lost to   *)
(* them.                                                                   *)
Header == Full(tree, pos)
Unseen == cpos # pos

(* Mutant: the changes are not entered into the node cache.                *)
NotNoted == cpos

(* DescribeTransform enters what it describes into the node cache.         *)
Noted == pos

(* GetMonitorData is worked out once in a cycle.                           *)
Data == IF memo = None THEN Part(tree, Unseen, pos) ELSE memo

-----------------------------------------------------------------------------
(* What the scene may be some handlers later: each modification is of the  *)
(* scene's own children or of nodes further below.  SwapTeamSides counts   *)
(* as a modification and leaves the structure as it is.                    *)
Changes(n, shape) ==
  {c \in (n..MaxMods) \X Shapes :
     LET new == (n + 1)..c[1] IN
     /\ c[2].top \in {shape.top} \union new
     /\ c[2].deep \in {shape.deep} \union new
     /\ {c[2].top, c[2].deep} \subseteq new => c[2].top # c[2].deep}

(* Mutant: the scene is marked as modified before its cache is updated.    *)
MarkBeforeUpdate ==
  /\ phase = "start" /\ modNum < MaxMods
  /\ modNum' = modNum + 1 /\ built' = [built EXCEPT !.top = modNum + 1]
  /\ \/ cacheNum' = modNum' /\ tree' = [tree EXCEPT !.top = modNum + 1]
     \/ UNCHANGED <<cacheNum, tree>>
  /\ UNCHANGED <<phase, pos, cpos, logged, asked, loggers, links>>

(* AgentConnect hangs a new aspect below the scene.  Its UpdateCache(false)*)
(* brings the scene's own children up to date and marks the whole cache as *)
(* level with the modifications before this one, those further below too.  *)
AgentConnect ==
  /\ phase = "start" /\ modNum < MaxMods
  /\ modNum' = modNum + 1 /\ built' = [built EXCEPT !.top = modNum + 1]
  /\ \/ cacheNum' = modNum /\ tree' = [tree EXCEPT !.top = modNum + 1]
     \/ UNCHANGED <<cacheNum, tree>>   \* AgentAspect::Init has failed
  /\ UNCHANGED <<phase, pos, cpos, logged, asked, loggers, links>>

(* MonitorControl::ClientConnect: the header for the one that comes; the   *)
(* modifications until now count as logged for all, also for the one that  *)
(* comes, whose header may describe children which are not up to date.     *)
ClientConnect(m, taken) ==
  /\ phase = "start" /\ m \notin clients
  /\ clients' = clients \union {m}
  /\ off' = [x \in Monitors |->
       IF x = m THEN tree # built
       ELSE off[x] \/ (x \in clients /\ (Unseen \/ logged < modNum))]
  /\ SendAll({m}, Header, [x \in {m} |-> taken])
  /\ cpos' = Noted
  /\ logged' = modNum /\ asked' = FALSE
  /\ UNCHANGED <<phase, scene, loggers>>

RequestFullState ==
  /\ phase = "start" /\ clients # {}
  /\ asked' = TRUE
  /\ UNCHANGED <<phase, scene, cpos, logged, loggers, links>>

(* Physics steps that are due: each first has the cached children follow   *)
(* the modifications so far.  Robots are built in some of them, and after  *)
(* the last one GameControlServer::Update removes agents, changes sides.   *)
Step ==
  /\ phase = "start"
  /\ phase' = "end"
  /\ \E early \in Changes(modNum, built) : \E late \in Changes(early[1], early[2]) :
       /\ cacheNum' = early[1]
       /\ tree' = IF cacheNum # early[1] THEN early[2] ELSE tree
       /\ modNum' = late[1] /\ built' = late[2]
  /\ pos' \in Places
  /\ UNCHANGED <<cpos, logged, asked, loggers, links>>

(* No physics step is due; GameControlServer::Update is called all the     *)
(* same, and the node may have been moved by a command or by the rules.    *)
SkipStep ==
  /\ phase = "start"
  /\ phase' = "end"
  /\ \E late \in Changes(modNum, built) :
       late[2].deep = built.deep /\ modNum' = late[1] /\ built' = late[2]
  /\ pos' \in Places
  /\ UNCHANGED <<cacheNum, tree, cpos, logged, asked, loggers, links>>

(* MonitorControl::EndCycle: what is sent to all monitors.                 *)
Kind ==
  IF ~(asked \/ modNum > logged) THEN "update"
  ELSE IF cacheNum = modNum THEN "full" ELSE "nothing"

(* Mutant: what was logged is not kept.                                    *)
LoggedBefore == logged

NowLogged == modNum

SendFull(taken) ==
  /\ Kind = "full"
  /\ logged' = NowLogged /\ asked' = FALSE
  /\ cpos' = Noted
  /\ off' = [m \in Monitors |-> IF m \in clients THEN Lost(m) ELSE off[m]]
  /\ SendAll(clients, Header, taken)
  /\ UNCHANGED memo

SendUpdate(taken) ==
  /\ Kind = "update"
  /\ memo' = Data
  /\ cpos' = IF memo = None /\ Unseen THEN Noted ELSE cpos
  /\ off' = [m \in Monitors |-> off[m] \/ (m \in clients /\ Lost(m))]
  /\ SendAll(clients, Data, taken)
  /\ UNCHANGED <<logged, asked>>

MonitorEnd ==
  /\ phase = "end" /\ "monitor" \notin served
  /\ IF clients = {} \/ Kind = "nothing"
     THEN /\ served' = served \union {"monitor"}
          /\ UNCHANGED <<cpos, logged, asked, memo, unsent, onWire, pic, off>>
     ELSE /\ served' = served \union {"monitor", "sent"}
          /\ \E taken \in Takings : SendFull(taken) \/ SendUpdate(taken)
  /\ UNCHANGED <<phase, scene, logMod, clients>>

(* MonitorLogger::EndCycle: the full state when the scene was modified or  *)
(* three seconds have passed, otherwise the same update as the monitors.   *)
LogEnd ==
  /\ phase = "end" /\ "log" \notin served
  /\ served' = served \union {"log"}
  /\ \/ /\ logMod' = modNum
        /\ cpos' = Noted
        /\ off' = [m \in Monitors |-> off[m] \/ (m \in clients /\ Unseen)]
        /\ pic' = [m \in Monitors |-> IF off'[m] THEN Garbled ELSE pic[m]]
        /\ UNCHANGED memo
     \/ /\ modNum = logMod
        /\ memo' = Data
        /\ cpos' = IF memo = None /\ Unseen THEN Noted ELSE cpos
        /\ UNCHANGED <<logMod, off, pic>>
  /\ UNCHANGED <<phase, scene, logged, asked, clients, unsent, onWire>>

(* A monitor's connection ends; the next gets an id and a buffer of its own. *)
Leave(m) ==
  /\ phase = "end" /\ m \in clients
  /\ clients' = clients \ {m}
  /\ unsent' = [unsent EXCEPT ![m] = None] /\ onWire' = [onWire EXCEPT ![m] = None]
  /\ pic' = [pic EXCEPT ![m] = Garbled] /\ off' = [off EXCEPT ![m] = FALSE]
  /\ UNCHANGED <<phase, scene, cpos, logged, asked, loggers>>

(* Control nodes have steps of their own: in a cycle any of them may not   *)
(* have been due.  An update that was made for the log file, and that the  *)
(* monitors were not sent, has entered its move into the node cache.       *)
NextCycle ==
  /\ phase = "end"
  /\ phase' = "start" /\ served' = {} /\ memo' = None
  /\ off' = [m \in Monitors |->
       off[m] \/ (m \in clients /\ "sent" \notin served /\ memo # None /\ memo.moved)]
  /\ pic' = [m \in Monitors |-> IF off'[m] THEN Garbled ELSE pic[m]]
  /\ UNCHANGED <<scene, cpos, logged, asked, logMod, clients, unsent, onWire>>

Next ==
  \/ AgentConnect
  \/ \E m \in Monitors : (\E taken \in Taking(m) : ClientConnect(m, taken)) \/ Leave(m)
  \/ RequestFullState \/ Step \/ SkipStep \/ MonitorEnd \/ LogEnd \/ NextCycle

Spec == Init /\ [][Next]_vars

(* The loop runs on, and as time passes physics steps and the monitors     *)
(* come due again and again, though not in every cycle.                    *)
FairSpec ==
  Spec /\ WF_vars(NextCycle) /\ SF_vars(MonitorEnd) /\ SF_vars(Step)

-----------------------------------------------------------------------------
(* Whatever the sockets take, a message never begins on the wire inside    *)
(* another: the rest of one that was cut goes first.                       *)
FramesWhole == \A m \in Monitors : onWire[m] # None => unsent[m] = onWire[m]

(* After it was served a monitor has the picture the scene describes,      *)
(* unless its connection still holds a message back, or since the last     *)
(* full state it lost one to such a rest, another reader was given changes *)
(* that it had not been sent, or the header it was met with described      *)
(* children that were not up to date.                                      *)
PictureCurrent ==
  [][MonitorEnd /\ Kind # "nothing" =>
       \A m \in clients : ~off'[m] /\ unsent'[m] = None =>
                            pic'[m] = [tree |-> built, pos |-> pos]]_vars

(* A modification of the scene, or a request for the full state, is not    *)
(* put off for ever: as long as there are monitors they are sent the full  *)
(* state, or one that comes takes it for all.  Here modifications come to  *)
(* an end: a scene modified after the physics of every cycle, before the   *)
(* monitors are served, would put them off.                                *)
FullStateComes ==
  (asked \/ modNum > logged) /\ clients # {} ~> ~(asked \/ modNum > logged) \/ clients = {}
=============================================================================
