------------------------- MODULE MonitorFeed_proofs -------------------------
(***************************************************************************)
(* The feed for every set of monitors and places: messages stay whole on   *)
(* the wire, and a monitor that has missed nothing has the picture.        *)
(***************************************************************************)
EXTENDS MonitorFeed, TLAPS

(* The cached children are level with the scene only when they describe    *)
(* it, and nothing newer than the scene was sent.                          *)
SceneInv ==
  /\ cacheNum <= modNum
  /\ cacheNum = modNum => tree = built
  /\ logged <= modNum

(* What the update of this cycle was worked out as: it says all there is.  *)
MemoInv ==
  /\ phase = "start" => memo = None /\ served = {}
  /\ memo # None => memo = Part(tree, memo.moved, pos) /\ cpos = pos

(* A move that the node cache does not show is still to be sent.           *)
UnseenInv ==
  Unseen /\ clients # {} /\ logged = modNum => "sent" \notin served

(* A monitor that has missed nothing and waits for nothing is up to date   *)
(* with the node cache, or will be after the update of this cycle.         *)
UpToDate(m) ==
  /\ tree = built
  /\ pic[m].tree = tree
  /\ \/ pic[m].pos = cpos
     \/ memo # None /\ memo.moved /\ "sent" \notin served

PictureInv ==
  \A m \in clients : ~off[m] /\ unsent[m] = None /\ logged = modNum => UpToDate(m)

AbsentInv == \A m \in Monitors \ clients : unsent[m] = None

IInv ==
  /\ TypeOK /\ FramesWhole
  /\ SceneInv /\ MemoInv /\ UnseenInv /\ PictureInv /\ AbsentInv

-----------------------------------------------------------------------------
LEMMA NoneIsNoMessage == None \notin Messages /\ None \notin Rests
BY DEF None, Messages, Rests

LEMMA HeaderIsMessage == ASSUME TypeOK PROVE Header \in Messages
BY DEF TypeOK, Header, Full, Messages

LEMMA PartIsMessage == ASSUME TypeOK, NEW b \in BOOLEAN PROVE Part(tree, b, pos) \in Messages
BY DEF TypeOK, Part, Messages

LEMMA GarbledIsPicture == Garbled \in Pictures
BY FeedBounds DEF Garbled, Pictures

LEMMA AppliedType == ASSUME NEW p \in Pictures, NEW msg \in Messages PROVE Applied(p, msg) \in Pictures
<1>1. Shapes \subseteq [top : 0..MaxMods, deep : 0..MaxMods]
  BY FeedBounds DEF Shapes
<1>2. msg.tree \in Shapes /\ msg.pos \in Places
  BY DEF Messages
<1> QED BY <1>1, <1>2, GarbledIsPicture DEF Applied, Pictures

(* What SendClientMessage does, monitor by monitor: a message of which     *)
(* something is left goes on, and only a socket that took all is clear.    *)
LEMMA SendAllKeeps ==
  ASSUME TypeOK, FramesWhole, off' \in [Monitors -> BOOLEAN],
         NEW to \in SUBSET Monitors, NEW msg \in Messages, NEW taken,
         SendAll(to, msg, taken)
  PROVE  /\ unsent' \in [Monitors -> Rests \union {None}]
         /\ onWire' \in [Monitors -> Rests \union {None}]
         /\ pic' \in [Monitors -> Pictures]
         /\ FramesWhole'
         /\ \A m \in Monitors : m \notin to => unsent'[m] = unsent[m]
         /\ \A m \in Monitors : m \notin to /\ ~off'[m] => pic'[m] = pic[m]
         /\ \A m \in to : unsent'[m] = None /\ ~off'[m] => pic'[m] = Applied(pic[m], msg)
<1> DEFINE send(m) == ToSend(unsent[m], Rest(msg))
<1>1. ASSUME NEW m \in Monitors
      PROVE  send(m) \in Rests /\ (unsent[m] # None => send(m) = unsent[m])
  <2>1. Rest(msg) \in Rests
    BY DEF Messages, Rest, Rests
  <2> QED BY <2>1 DEF TypeOK, ToSend
<1>2. unsent' \in [Monitors -> Rests \union {None}]
  BY <1>1 DEF SendAll, TypeOK
<1>3. onWire' \in [Monitors -> Rests \union {None}]
  BY <1>1 DEF SendAll, TypeOK
<1>4. ASSUME NEW m \in Monitors PROVE pic'[m] \in Pictures
  <2>1. Applied(pic[m], msg) \in Pictures
    BY AppliedType DEF TypeOK
  <2>2. Garbled \in Pictures /\ pic[m] \in Pictures
    BY GarbledIsPicture DEF TypeOK
  <2> QED BY <2>1, <2>2 DEF SendAll
<1>5. pic' \in [Monitors -> Pictures]
  <2>1. pic' = [m \in Monitors |-> pic'[m]]
    BY DEF SendAll
  <2> QED BY <2>1, <1>4
<1>6. ASSUME NEW m \in Monitors, onWire'[m] # None PROVE unsent'[m] = onWire'[m]
  <2>1. onWire[m] # None => unsent[m] = onWire[m]
    BY DEF FramesWhole
  <2> QED BY <1>1, <1>6, <2>1 DEF SendAll
<1>7. ASSUME NEW m \in Monitors, m \notin to
      PROVE  unsent'[m] = unsent[m] /\ (~off'[m] => pic'[m] = pic[m])
  BY <1>7 DEF SendAll
<1>8. ASSUME NEW m \in to, unsent'[m] = None, ~off'[m]
      PROVE  pic'[m] = Applied(pic[m], msg)
  <2>1. send(m) # None
    BY <1>1, NoneIsNoMessage
  <2>2. taken[m] = "all"
    BY <1>8, <2>1 DEF SendAll
  <2> QED BY <1>8, <2>2 DEF SendAll
<1> QED BY <1>2, <1>3, <1>5, <1>6, <1>7, <1>8 DEF FramesWhole

(* A full state gives the picture, and so does an update that says what    *)
(* moved to a monitor that knows the structure.                            *)
LEMMA HeaderApplied == ASSUME NEW p PROVE Applied(p, Header) = [tree |-> tree, pos |-> pos]
BY DEF Applied, Header, Full

LEMMA PartApplied ==
  ASSUME NEW p \in Pictures, p.tree = tree, NEW b \in BOOLEAN, b \/ p.pos = pos
  PROVE  Applied(p, Part(tree, b, pos)) = [tree |-> tree, pos |-> pos]
BY DEF Applied, Part, Pictures

-----------------------------------------------------------------------------
LEMMA InitIInv == ASSUME Init PROVE IInv
<1>1. built \in Shapes
  BY FeedBounds DEF Init, Shapes
<1>2. asked \in BOOLEAN
  BY Zenon DEF Init
<1>3. off \in [Monitors -> BOOLEAN]
  BY Zenon DEF Init
<1>4. TypeOK
  BY <1>1, <1>2, <1>3, GarbledIsPicture, FeedBounds DEF Init, TypeOK
<1>5. FramesWhole /\ SceneInv /\ MemoInv /\ UnseenInv /\ PictureInv /\ AbsentInv
  BY DEF Init, FramesWhole, SceneInv, MemoInv, UnseenInv, PictureInv, AbsentInv, Unseen
<1> QED BY <1>4, <1>5 DEF IInv

(* What modifications there may be leaves the scene alone or counts on.    *)
LEMMA ChangesAre ==
  ASSUME NEW n \in 1..MaxMods, NEW shape \in Shapes, NEW c \in Changes(n, shape)
  PROVE  /\ c[1] \in 1..MaxMods /\ c[2] \in Shapes
         /\ c[1] >= n
         /\ c[1] = n => c[2] = shape
<1>1. c[1] \in n..MaxMods /\ c[2] \in Shapes
  BY DEF Changes
<1>2. ASSUME c[1] = n PROVE c[2] = shape
  <2>1. (n + 1)..c[1] = {}
    BY <1>2
  <2>2. c[2].top = shape.top /\ c[2].deep = shape.deep
    BY <2>1 DEF Changes
  <2> QED BY <1>1, <2>2 DEF Shapes
<1> QED BY <1>1, <1>2, FeedBounds

LEMMA AgentConnectKeeps == ASSUME IInv, AgentConnect PROVE IInv'
<1>1. TypeOK'
  <2>1. modNum' \in 1..MaxMods /\ cacheNum' \in 1..MaxMods
    BY FeedBounds DEF AgentConnect, IInv, TypeOK
  <2>2. built' \in Shapes /\ tree' \in Shapes
    BY <2>1 DEF AgentConnect, IInv, TypeOK, Shapes
  <2> QED BY <2>1, <2>2 DEF AgentConnect, IInv, TypeOK, loggers, links
<1>2. /\ UNCHANGED <<phase, pos, cpos, logged, asked, logMod, memo, served, clients, unsent,
                     onWire, pic, off>>
      /\ phase = "start" /\ modNum' = modNum + 1 /\ cacheNum' \in {cacheNum, modNum}
  BY DEF AgentConnect, loggers, links
<1>3. /\ logged <= modNum /\ modNum \in Nat /\ logged \in Nat
      /\ memo = None
  BY <1>2 DEF IInv, SceneInv, MemoInv, TypeOK
<1>4. cacheNum <= modNum
  BY DEF IInv, SceneInv
<1>5. SceneInv' /\ UnseenInv' /\ PictureInv'
  BY <1>1, <1>2, <1>3, <1>4 DEF SceneInv, UnseenInv, PictureInv, IInv, TypeOK
<1>6. FramesWhole' /\ MemoInv' /\ AbsentInv'
  BY <1>2, <1>3 DEF IInv, FramesWhole, MemoInv, AbsentInv
<1> QED BY <1>1, <1>5, <1>6 DEF IInv

LEMMA ClientConnectKeeps ==
  ASSUME IInv, NEW m \in Monitors, NEW taken, ClientConnect(m, taken)
  PROVE  IInv'
<1>1. /\ phase' = phase /\ UNCHANGED <<modNum, cacheNum, built, tree, pos, logMod, memo, served>>
      /\ clients' = clients \union {m} /\ cpos' = pos /\ logged' = modNum /\ asked' = FALSE
      /\ phase = "start" /\ m \notin clients
  BY DEF ClientConnect, scene, loggers, Noted
<1>2. off' \in [Monitors -> BOOLEAN]
  BY Zenon DEF ClientConnect
<1>3. /\ unsent' \in [Monitors -> Rests \union {None}]
      /\ onWire' \in [Monitors -> Rests \union {None}]
      /\ pic' \in [Monitors -> Pictures]
      /\ FramesWhole'
      /\ \A x \in Monitors : x # m => unsent'[x] = unsent[x]
      /\ \A x \in Monitors : x # m /\ ~off'[x] => pic'[x] = pic[x]
      /\ unsent'[m] = None /\ ~off'[m] => pic'[m] = [tree |-> tree, pos |-> pos]
  <2>1. Header \in Messages
    BY HeaderIsMessage DEF IInv
  <2>2. SendAll({m}, Header, [x \in {m} |-> taken])
    BY DEF ClientConnect
  <2>3. TypeOK /\ FramesWhole /\ {m} \in SUBSET Monitors
    BY DEF IInv
  <2> HIDE DEF Header, SendAll
  <2>4. /\ unsent' \in [Monitors -> Rests \union {None}]
        /\ onWire' \in [Monitors -> Rests \union {None}]
        /\ pic' \in [Monitors -> Pictures]
        /\ FramesWhole'
        /\ \A x \in Monitors : x \notin {m} => unsent'[x] = unsent[x]
        /\ \A x \in Monitors : x \notin {m} /\ ~off'[x] => pic'[x] = pic[x]
        /\ \A x \in {m} : unsent'[x] = None /\ ~off'[x] => pic'[x] = Applied(pic[x], Header)
    BY <1>2, <2>1, <2>2, <2>3, SendAllKeeps
  <2> QED BY <2>4, HeaderApplied
<1>4. TypeOK'
  <2>1. asked' \in BOOLEAN
    BY <1>1, Zenon
  <2> QED BY <1>1, <1>2, <1>3, <2>1 DEF IInv, TypeOK
<1>5. SceneInv' /\ MemoInv' /\ UnseenInv' /\ AbsentInv'
  <2>1. modNum \in Nat
    BY DEF IInv, TypeOK
  <2>2. SceneInv'
    BY <1>1, <2>1 DEF IInv, SceneInv
  <2>3. MemoInv' /\ UnseenInv'
    BY <1>1 DEF IInv, MemoInv, UnseenInv, Unseen, Part
  <2>4. AbsentInv'
    BY <1>1, <1>3 DEF IInv, AbsentInv
  <2> QED BY <2>2, <2>3, <2>4
<1>6. PictureInv'
  <2> SUFFICES ASSUME NEW x \in clients', ~off'[x], unsent'[x] = None
               PROVE  UpToDate(x)'
    BY DEF PictureInv
  <2>1. CASE x = m
    <3>1. tree = built
      BY <2>1 DEF ClientConnect
    <3> QED BY <1>1, <1>3, <2>1, <3>1 DEF UpToDate
  <2>2. CASE x # m
    <3>1. x \in clients /\ x \in Monitors
      BY <1>1, <2>2 DEF IInv, TypeOK
    <3>2. ~off[x] /\ ~Unseen /\ ~(logged < modNum)
      BY <2>2, <3>1 DEF ClientConnect
    <3>3. logged = modNum
      BY <3>2 DEF IInv, SceneInv, TypeOK
    <3>4. UpToDate(x)
      BY <1>3, <2>2, <3>1, <3>2, <3>3 DEF IInv, PictureInv
    <3>5. pic'[x] = pic[x] /\ cpos = pos
      BY <1>3, <2>2, <3>1, <3>2 DEF Unseen
    <3>6. memo = None
      BY <1>1 DEF IInv, MemoInv
    <3> QED BY <1>1, <3>4, <3>5, <3>6 DEF UpToDate
  <2> QED BY <2>1, <2>2
<1> QED BY <1>3, <1>4, <1>5, <1>6 DEF IInv

LEMMA StepKeeps == ASSUME IInv, Step PROVE IInv'
<1>1. PICK early \in Changes(modNum, built) : \E late \in Changes(early[1], early[2]) :
        /\ cacheNum' = early[1]
        /\ tree' = IF cacheNum # early[1] THEN early[2] ELSE tree
        /\ modNum' = late[1] /\ built' = late[2]
  BY DEF Step
<1>2. PICK late \in Changes(early[1], early[2]) :
        /\ cacheNum' = early[1]
        /\ tree' = IF cacheNum # early[1] THEN early[2] ELSE tree
        /\ modNum' = late[1] /\ built' = late[2]
  BY <1>1
<1>3. /\ UNCHANGED <<cpos, logged, asked, logMod, memo, served, clients, unsent, onWire, pic, off>>
      /\ phase = "start" /\ phase' = "end" /\ pos' \in Places
      /\ memo = None /\ served = {}
  BY DEF Step, loggers, links, IInv, MemoInv
<1>4. /\ modNum \in 1..MaxMods /\ built \in Shapes /\ tree \in Shapes /\ logged \in Nat
      /\ logged <= modNum /\ cacheNum <= modNum /\ (cacheNum = modNum => tree = built)
      /\ cacheNum \in Nat
  BY DEF IInv, TypeOK, SceneInv
<1>5. /\ early[1] \in 1..MaxMods /\ early[2] \in Shapes
      /\ early[1] >= modNum /\ (early[1] = modNum => early[2] = built)
  BY <1>4, ChangesAre
<1>6. /\ late[1] \in 1..MaxMods /\ late[2] \in Shapes
      /\ late[1] >= early[1] /\ (late[1] = early[1] => late[2] = early[2])
  BY <1>5, ChangesAre
<1>7. tree' = early[2]
  BY <1>2, <1>4, <1>5
<1>8. TypeOK'
  BY <1>2, <1>3, <1>4, <1>5, <1>6, <1>7 DEF IInv, TypeOK
<1>9. SceneInv' /\ MemoInv' /\ UnseenInv' /\ FramesWhole' /\ AbsentInv'
  <2>1. SceneInv'
    BY <1>2, <1>3, <1>4, <1>5, <1>6, <1>7 DEF SceneInv
  <2>2. MemoInv' /\ FramesWhole' /\ AbsentInv'
    BY <1>3 DEF IInv, MemoInv, FramesWhole, AbsentInv
  <2>3. UnseenInv'
    BY <1>3 DEF UnseenInv
  <2> QED BY <2>1, <2>2, <2>3
<1>10. PictureInv'
  <2> SUFFICES ASSUME NEW x \in clients, ~off[x], unsent[x] = None, logged = modNum'
               PROVE  UpToDate(x)'
    BY <1>3 DEF PictureInv
  <2>1. modNum' = modNum /\ early[1] = modNum /\ logged = modNum
    BY <1>2, <1>4, <1>5, <1>6
  <2>2. UpToDate(x)
    BY <2>1 DEF IInv, PictureInv
  <2>3. tree' = built /\ built' = built /\ tree = built /\ pic[x].tree = tree /\ pic[x].pos = cpos
    BY <1>2, <1>3, <1>5, <1>6, <1>7, <2>1, <2>2 DEF UpToDate
  <2> QED BY <1>3, <2>3 DEF UpToDate
<1> QED BY <1>8, <1>9, <1>10 DEF IInv

(* Without a step the cached children stay.                                *)
LEMMA SkipStepKeeps == ASSUME IInv, SkipStep PROVE IInv'
<1>1. PICK late \in Changes(modNum, built) : modNum' = late[1] /\ built' = late[2]
  BY DEF SkipStep
<1>2. /\ UNCHANGED <<cacheNum, tree, cpos, logged, asked, logMod, memo, served, clients,
                     unsent, onWire, pic, off>>
      /\ phase = "start" /\ phase' = "end" /\ pos' \in Places
      /\ memo = None /\ served = {}
  BY DEF SkipStep, loggers, links, IInv, MemoInv
<1>3. /\ modNum \in 1..MaxMods /\ built \in Shapes /\ logged \in Nat /\ cacheNum \in Nat
      /\ logged <= modNum /\ cacheNum <= modNum /\ (cacheNum = modNum => tree = built)
  BY DEF IInv, TypeOK, SceneInv
<1>4. /\ modNum' \in 1..MaxMods /\ built' \in Shapes
      /\ modNum' >= modNum /\ (modNum' = modNum => built' = built)
  BY <1>1, <1>3, ChangesAre
<1>5. TypeOK'
  BY <1>2, <1>4 DEF IInv, TypeOK
<1>6. SceneInv' /\ MemoInv' /\ FramesWhole' /\ AbsentInv'
  BY <1>2, <1>3, <1>4 DEF IInv, SceneInv, MemoInv, FramesWhole, AbsentInv
<1>7. logged' = modNum' => modNum' = modNum /\ built' = built
  BY <1>2, <1>3, <1>4
<1>8. UnseenInv' /\ PictureInv'
  BY <1>2, <1>7 DEF IInv, UnseenInv, PictureInv, UpToDate, Unseen
<1> QED BY <1>5, <1>6, <1>8 DEF IInv

LEMMA RequestKeeps == ASSUME IInv, RequestFullState \/ UNCHANGED vars PROVE IInv'
<1>1. UNCHANGED <<phase, modNum, cacheNum, built, tree, pos, cpos, logged, logMod, memo, served,
                  clients, unsent, onWire, pic, off>>
  BY DEF RequestFullState, vars, scene, loggers, links
<1>2. asked' \in BOOLEAN
  BY Zenon DEF RequestFullState, vars, IInv, TypeOK
<1>3. TypeOK'
  BY <1>1, <1>2 DEF IInv, TypeOK
<1>4. FramesWhole' /\ SceneInv' /\ MemoInv' /\ AbsentInv' /\ UnseenInv' /\ PictureInv'
  BY <1>1 DEF IInv, FramesWhole, SceneInv, MemoInv, AbsentInv, UnseenInv, PictureInv,
              UpToDate, Unseen
<1> QED BY <1>3, <1>4 DEF IInv

LEMMA LeaveKeeps == ASSUME IInv, NEW m \in Monitors, Leave(m) PROVE IInv'
<1>1. /\ UNCHANGED <<phase, modNum, cacheNum, built, tree, pos, cpos, logged, asked, logMod, memo, served>>
      /\ clients' = clients \ {m} /\ phase = "end"
      /\ unsent' = [unsent EXCEPT ![m] = None] /\ onWire' = [onWire EXCEPT ![m] = None]
      /\ pic' = [pic EXCEPT ![m] = Garbled] /\ off' = [off EXCEPT ![m] = FALSE]
  BY DEF Leave, scene, loggers
<1>2. TypeOK'
  <2>1. Garbled \in Pictures
    BY FeedBounds DEF Garbled, Pictures
  <2>2. off' \in [Monitors -> BOOLEAN]
    BY <1>1 DEF IInv, TypeOK
  <2>3. pic' \in [Monitors -> Pictures]
    BY <1>1, <2>1 DEF IInv, TypeOK
  <2>4. /\ unsent' \in [Monitors -> Rests \union {None}]
        /\ onWire' \in [Monitors -> Rests \union {None}]
    BY <1>1 DEF IInv, TypeOK
  <2> QED BY <1>1, <2>2, <2>3, <2>4 DEF IInv, TypeOK
<1>3. ASSUME NEW x \in Monitors, x # m
      PROVE  unsent'[x] = unsent[x] /\ onWire'[x] = onWire[x] /\ pic'[x] = pic[x] /\ off'[x] = off[x]
  BY <1>1, <1>3 DEF IInv, TypeOK
<1>4. unsent'[m] = None /\ onWire'[m] = None
  BY <1>1 DEF IInv, TypeOK
<1>5. FramesWhole' /\ AbsentInv'
  BY <1>1, <1>3, <1>4 DEF IInv, FramesWhole, AbsentInv
<1>6. SceneInv' /\ MemoInv' /\ UnseenInv'
  BY <1>1 DEF IInv, SceneInv, MemoInv, UnseenInv, Unseen
<1>7. PictureInv'
  <2> SUFFICES ASSUME NEW x \in clients', ~off'[x], unsent'[x] = None, logged' = modNum'
               PROVE  UpToDate(x)'
    BY DEF PictureInv
  <2>1. x \in clients /\ x # m /\ x \in Monitors
    BY <1>1 DEF IInv, TypeOK
  <2>2. UpToDate(x)
    BY <1>1, <1>3, <2>1 DEF IInv, PictureInv
  <2> QED BY <1>1, <1>3, <2>1, <2>2 DEF UpToDate
<1> QED BY <1>2, <1>5, <1>6, <1>7 DEF IInv

(* A move in the update of a cycle was sent to all monitors, or they were  *)
(* not served and are given up.                                            *)
LEMMA NextCycleKeeps == ASSUME IInv, NextCycle PROVE IInv'
<1>1. /\ UNCHANGED <<modNum, cacheNum, built, tree, pos, cpos, logged, asked, logMod, clients,
                     unsent, onWire>>
      /\ phase' = "start" /\ served' = {} /\ memo' = None
      /\ off' = [m \in Monitors |->
           off[m] \/ (m \in clients /\ "sent" \notin served /\ memo # None /\ memo.moved)]
      /\ pic' = [m \in Monitors |-> IF off'[m] THEN Garbled ELSE pic[m]]
  BY DEF NextCycle, scene
<1>2. TypeOK'
  <2>1. pic' \in [Monitors -> Pictures]
    BY <1>1, GarbledIsPicture DEF IInv, TypeOK
  <2>2. off' \in [Monitors -> BOOLEAN]
    <3>1. ASSUME NEW m \in Monitors
          PROVE  (off[m] \/ (m \in clients /\ "sent" \notin served /\ memo # None /\ memo.moved))
                   \in BOOLEAN
      BY Zenon
    <3> QED BY <1>1, <3>1, Zenon
  <2> QED BY <1>1, <2>1, <2>2 DEF IInv, TypeOK
<1>3. FramesWhole' /\ SceneInv' /\ MemoInv' /\ AbsentInv'
  BY <1>1 DEF IInv, FramesWhole, SceneInv, MemoInv, AbsentInv
<1>4. UnseenInv'
  BY <1>1 DEF IInv, UnseenInv, Unseen
<1>5. PictureInv'
  <2> SUFFICES ASSUME NEW x \in clients, ~off'[x], unsent[x] = None, logged = modNum
               PROVE  UpToDate(x)'
    BY <1>1 DEF PictureInv
  <2>1. x \in Monitors
    BY DEF IInv, TypeOK
  <2>2. ~off[x] /\ ~("sent" \notin served /\ memo # None /\ memo.moved)
    BY <1>1, <2>1
  <2>3. UpToDate(x) /\ pic'[x] = pic[x]
    BY <1>1, <2>1, <2>2 DEF IInv, PictureInv
  <2> QED BY <1>1, <2>2, <2>3 DEF UpToDate
<1> QED BY <1>2, <1>3, <1>4, <1>5 DEF IInv

-----------------------------------------------------------------------------
(* The log file: it takes changes away from monitors only when these have  *)
(* not been sent, and then marks them.                                     *)
LEMMA LogEndKeeps == ASSUME IInv, LogEnd PROVE IInv'
<1>1. /\ UNCHANGED <<phase, modNum, cacheNum, built, tree, pos, logged, asked, clients, unsent, onWire>>
      /\ phase = "end" /\ served' = served \union {"log"}
  BY DEF LogEnd, scene
<1>2. FramesWhole' /\ SceneInv' /\ AbsentInv'
  BY <1>1 DEF IInv, FramesWhole, SceneInv, AbsentInv
<1>3. CASE /\ logMod' = modNum
           /\ cpos' = Noted
           /\ off' = [m \in Monitors |-> off[m] \/ (m \in clients /\ Unseen)]
           /\ pic' = [m \in Monitors |-> IF off'[m] THEN Garbled ELSE pic[m]]
           /\ UNCHANGED memo
  <2>1. off' \in [Monitors -> BOOLEAN]
    BY <1>3, Zenon
  <2>2. pic' \in [Monitors -> Pictures]
    <3>1. Garbled \in Pictures
      BY FeedBounds DEF Garbled, Pictures
    <3> QED BY <1>3, <3>1 DEF IInv, TypeOK
  <2>3. cpos' = pos
    BY <1>3 DEF Noted
  <2>4. TypeOK'
    BY <1>1, <1>3, <2>1, <2>2, <2>3 DEF IInv, TypeOK
  <2>5. MemoInv' /\ UnseenInv'
    BY <1>1, <1>3, <2>3 DEF IInv, MemoInv, UnseenInv, Unseen
  <2>6. PictureInv'
    <3> SUFFICES ASSUME NEW x \in clients, ~off'[x], unsent[x] = None, logged = modNum
                 PROVE  UpToDate(x)'
      BY <1>1 DEF PictureInv
    <3>1. x \in Monitors
      BY DEF IInv, TypeOK
    <3>2. ~off[x] /\ cpos = pos
      BY <1>3, <3>1 DEF Unseen
    <3>3. UpToDate(x)
      BY <3>2 DEF IInv, PictureInv
    <3>4. pic'[x] = pic[x]
      BY <1>3, <3>1
    <3> QED BY <1>1, <1>3, <2>3, <3>2, <3>3, <3>4 DEF UpToDate
  <2> QED BY <1>2, <2>4, <2>5, <2>6 DEF IInv
<1>4. CASE /\ modNum = logMod
           /\ memo' = Data
           /\ cpos' = IF memo = None /\ Unseen THEN Noted ELSE cpos
           /\ UNCHANGED <<logMod, off, pic>>
  <2>1. memo' = Data /\ Data = IF memo = None THEN Part(tree, Unseen, pos) ELSE memo
    BY <1>4 DEF Data
  <2>2. Unseen \in BOOLEAN
    BY DEF Unseen
  <2>3. Part(tree, Unseen, pos) \in Messages /\ Part(tree, Unseen, pos).moved = Unseen
    BY <2>2, PartIsMessage DEF IInv, Part
  <2>4. memo' \in Messages
    BY <2>1, <2>3 DEF IInv, TypeOK
  <2>5. cpos' = pos
    BY <1>4 DEF IInv, MemoInv, Noted, Unseen
  <2>6. TypeOK'
    BY <1>1, <1>4, <2>4, <2>5 DEF IInv, TypeOK
  <2>7. memo' # None /\ memo' = Part(tree, memo'.moved, pos)
    BY <2>1, <2>3, <2>4, NoneIsNoMessage DEF IInv, MemoInv
  <2>8. MemoInv' /\ UnseenInv'
    BY <1>1, <2>5, <2>7 DEF MemoInv, UnseenInv, Unseen
  <2>9. PictureInv'
    <3> SUFFICES ASSUME NEW x \in clients, ~off[x], unsent[x] = None, logged = modNum
                 PROVE  UpToDate(x)'
      BY <1>1, <1>4 DEF PictureInv
    <3>1. UpToDate(x) /\ pic' = pic
      BY <1>4 DEF IInv, PictureInv
    <3>2. CASE memo = None /\ Unseen
      <4>1. "sent" \notin served
        BY <3>2 DEF IInv, UnseenInv
      <4>2. memo'.moved
        BY <2>1, <2>3, <3>2
      <4> QED BY <1>1, <2>7, <3>1, <4>1, <4>2 DEF UpToDate
    <3>3. CASE memo = None /\ ~Unseen
      BY <1>1, <2>5, <3>1, <3>3 DEF UpToDate, Unseen
    <3>4. CASE memo # None
      <4>1. memo' = memo /\ cpos' = cpos
        BY <1>4, <2>1, <3>4
      <4> QED BY <1>1, <3>1, <4>1 DEF UpToDate
    <3> QED BY <3>2, <3>3, <3>4
  <2> QED BY <1>2, <2>6, <2>8, <2>9 DEF IInv
<1> QED BY <1>3, <1>4 DEF LogEnd

-----------------------------------------------------------------------------
(* The monitors: what one of them has after it was served.                 *)
Served(m) ==
  ~off'[m] /\ unsent'[m] = None => pic'[m] = [tree |-> built, pos |-> pos]

(* A full state brings monitors, node cache and numbers up to date.        *)
LEMMA FullServes ==
  ASSUME IInv, phase = "end", NEW taken, SendFull(taken),
         UNCHANGED <<phase, modNum, cacheNum, built, tree, pos, logMod, clients>>
  PROVE  /\ \A m \in clients : Served(m)
         /\ served' = served \union {"monitor", "sent"} => IInv'
<1>1. /\ logged' = modNum /\ asked' = FALSE /\ cpos' = pos /\ memo' = memo
      /\ cacheNum = modNum /\ tree = built /\ modNum \in Nat
      /\ off' = [m \in Monitors |-> IF m \in clients THEN Lost(m) ELSE off[m]]
  BY DEF SendFull, Kind, NowLogged, Noted, IInv, SceneInv, TypeOK
<1>2. off' \in [Monitors -> BOOLEAN]
  BY <1>1 DEF Lost, IInv, TypeOK
<1>3. /\ unsent' \in [Monitors -> Rests \union {None}]
      /\ onWire' \in [Monitors -> Rests \union {None}]
      /\ pic' \in [Monitors -> Pictures]
      /\ FramesWhole'
      /\ \A x \in Monitors : x \notin clients => unsent'[x] = unsent[x]
      /\ \A x \in clients : unsent'[x] = None /\ ~off'[x] =>
                              pic'[x] = Applied(pic[x], Header)
  <2>1. Header \in Messages
    BY HeaderIsMessage DEF IInv
  <2>2. SendAll(clients, Header, taken)
    BY DEF SendFull
  <2>3. TypeOK /\ FramesWhole /\ clients \in SUBSET Monitors
    BY DEF IInv, TypeOK
  <2> HIDE DEF Header, SendAll
  <2> QED BY <1>2, <2>1, <2>2, <2>3, SendAllKeeps
<1>4. ASSUME NEW m \in clients, ~off'[m], unsent'[m] = None
      PROVE  pic'[m] = [tree |-> built, pos |-> pos]
  <2>1. m \in Monitors
    BY DEF IInv, TypeOK
  <2>2. pic'[m] = [tree |-> tree, pos |-> pos]
    BY <1>3, <1>4, HeaderApplied
  <2> QED BY <1>1, <2>2
<1>5. ASSUME served' = served \union {"monitor", "sent"} PROVE IInv'
  <2>1. asked' \in BOOLEAN
    BY <1>1, Zenon
  <2>2. TypeOK'
    BY <1>1, <1>2, <1>3, <1>5, <2>1 DEF IInv, TypeOK
  <2>4. SceneInv' /\ UnseenInv' /\ AbsentInv'
    BY <1>1, <1>3 DEF IInv, SceneInv, UnseenInv, Unseen, AbsentInv
  <2>5. PictureInv'
    <3> SUFFICES ASSUME NEW x \in clients, ~off'[x], unsent'[x] = None
                 PROVE  UpToDate(x)'
      BY DEF PictureInv
    <3> QED BY <1>1, <1>4 DEF UpToDate
  <2>3. MemoInv'
    BY <1>1 DEF IInv, MemoInv
  <2> QED BY <1>3, <2>2, <2>3, <2>4, <2>5 DEF IInv
<1> QED BY <1>4, <1>5 DEF Served

(* An update says what moved since the last one that all were sent.        *)
LEMMA UpdateServes ==
  ASSUME IInv, phase = "end", NEW taken, SendUpdate(taken),
         UNCHANGED <<phase, modNum, cacheNum, built, tree, pos, logMod, clients>>
  PROVE  /\ \A m \in clients : Served(m)
         /\ served' = served \union {"monitor", "sent"} => IInv'
<1>1. /\ logged' = logged /\ asked' = asked /\ memo' = Data
      /\ logged = modNum /\ modNum \in Nat
      /\ off' = [m \in Monitors |-> off[m] \/ (m \in clients /\ Lost(m))]
  BY DEF SendUpdate, Kind, IInv, SceneInv, TypeOK
<1>2. off' \in [Monitors -> BOOLEAN]
  BY <1>1, Zenon
<1>3. cpos' = pos
  BY DEF SendUpdate, IInv, MemoInv, Noted, Unseen
<1>4. /\ Data \in Messages /\ Data.moved \in BOOLEAN /\ Data = Part(tree, Data.moved, pos)
      /\ memo = None => Data.moved = Unseen
      /\ memo # None => Data = memo
  <2>1. Unseen \in BOOLEAN
    BY DEF Unseen
  <2>2. Part(tree, Unseen, pos) \in Messages /\ Part(tree, Unseen, pos).moved = Unseen
    BY <2>1, PartIsMessage DEF IInv, Part
  <2>3. Data \in Messages
    BY <2>2 DEF Data, IInv, TypeOK
  <2>4. Data.moved \in BOOLEAN
    BY <2>3 DEF Messages
  <2> QED BY <2>2, <2>3, <2>4 DEF Data, IInv, MemoInv
<1>5. /\ unsent' \in [Monitors -> Rests \union {None}]
      /\ onWire' \in [Monitors -> Rests \union {None}]
      /\ pic' \in [Monitors -> Pictures]
      /\ FramesWhole'
      /\ \A x \in Monitors : x \notin clients => unsent'[x] = unsent[x]
      /\ \A x \in clients : unsent'[x] = None /\ ~off'[x] =>
                              pic'[x] = Applied(pic[x], Data)
  <2>1. SendAll(clients, Data, taken)
    BY DEF SendUpdate
  <2>2. TypeOK /\ FramesWhole /\ clients \in SUBSET Monitors
    BY DEF IInv, TypeOK
  <2> HIDE DEF Data, SendAll
  <2> QED BY <1>2, <1>4, <2>1, <2>2, SendAllKeeps
<1>6. ASSUME NEW m \in clients, ~off'[m], unsent'[m] = None
      PROVE  pic'[m] = [tree |-> built, pos |-> pos] /\ tree = built
  <2>1. m \in Monitors /\ pic[m] \in Pictures
    BY DEF IInv, TypeOK
  <2>2. unsent[m] = None /\ ~off[m]
    BY <1>1, <1>6, <2>1 DEF Lost
  <2>3. UpToDate(m)
    BY <1>1, <2>2 DEF IInv, PictureInv
  <2>4. Data.moved \/ pic[m].pos = pos
    BY <1>4, <2>3 DEF UpToDate, Unseen, IInv, MemoInv
  <2>5. pic[m].tree = tree
    BY <2>3 DEF UpToDate
  <2>6. Applied(pic[m], Data) = [tree |-> tree, pos |-> pos]
    <3> HIDE DEF Data
    <3> QED BY <1>4, <2>1, <2>4, <2>5, PartApplied
  <2> QED BY <1>5, <1>6, <2>3, <2>6 DEF UpToDate
<1>7. ASSUME served' = served \union {"monitor", "sent"} PROVE IInv'
  <2>1. TypeOK'
    BY <1>1, <1>2, <1>3, <1>4, <1>5, <1>7 DEF IInv, TypeOK
  <2>2. SceneInv' /\ UnseenInv' /\ AbsentInv'
    BY <1>1, <1>3, <1>5 DEF IInv, SceneInv, UnseenInv, Unseen, AbsentInv
  <2>3. MemoInv'
    BY <1>1, <1>3, <1>4 DEF MemoInv
  <2>4. PictureInv'
    <3> SUFFICES ASSUME NEW x \in clients, ~off'[x], unsent'[x] = None
                 PROVE  UpToDate(x)'
      BY DEF PictureInv
    <3> QED BY <1>3, <1>6 DEF UpToDate
  <2> QED BY <1>5, <2>1, <2>2, <2>3, <2>4 DEF IInv
<1> QED BY <1>6, <1>7 DEF Served

(* Nothing is sent as long as the cached children are old, or to nobody.   *)
LEMMA NothingKeeps ==
  ASSUME IInv, phase = "end", served' = served \union {"monitor"},
         UNCHANGED <<cpos, logged, asked, memo, unsent, onWire, pic, off>>,
         UNCHANGED <<phase, modNum, cacheNum, built, tree, pos, logMod, clients>>
  PROVE  IInv'
<1>1. TypeOK'
  BY DEF IInv, TypeOK
<1>2. FramesWhole' /\ SceneInv' /\ MemoInv' /\ AbsentInv'
  BY DEF IInv, FramesWhole, SceneInv, MemoInv, AbsentInv
<1>3. UnseenInv' /\ PictureInv'
  BY DEF IInv, UnseenInv, PictureInv, UpToDate, Unseen
<1> QED BY <1>1, <1>2, <1>3 DEF IInv

LEMMA MonitorEndServes ==
  ASSUME IInv, MonitorEnd
  PROVE  IInv' /\ (Kind # "nothing" => \A m \in clients : Served(m))
<1>1. phase = "end" /\ UNCHANGED <<phase, modNum, cacheNum, built, tree, pos, logMod, clients>>
  BY DEF MonitorEnd, scene
<1>2. CASE clients = {} \/ Kind = "nothing"
  <2>1. /\ served' = served \union {"monitor"}
        /\ UNCHANGED <<cpos, logged, asked, memo, unsent, onWire, pic, off>>
    BY <1>2 DEF MonitorEnd
  <2> QED BY <1>1, <1>2, <2>1, NothingKeeps
<1>3. CASE ~(clients = {} \/ Kind = "nothing")
  <2>1. /\ served' = served \union {"monitor", "sent"}
        /\ \E taken \in Takings : SendFull(taken) \/ SendUpdate(taken)
    BY <1>3 DEF MonitorEnd
  <2>2. PICK taken \in Takings : SendFull(taken) \/ SendUpdate(taken)
    BY <2>1
  <2>3. CASE SendFull(taken)
    BY <1>1, <2>1, <2>3, FullServes
  <2>4. CASE SendUpdate(taken)
    BY <1>1, <2>1, <2>4, UpdateServes
  <2> QED BY <2>2, <2>3, <2>4
<1> QED BY <1>2, <1>3

-----------------------------------------------------------------------------
LEMMA NextIInv == ASSUME IInv, [Next]_vars PROVE IInv'
<1>1. CASE AgentConnect
  BY <1>1, AgentConnectKeeps
<1>2. CASE \E m \in Monitors : \E taken \in Taking(m) : ClientConnect(m, taken)
  BY <1>2, ClientConnectKeeps
<1>3. CASE \E m \in Monitors : Leave(m)
  BY <1>3, LeaveKeeps
<1>4. CASE RequestFullState \/ UNCHANGED vars
  BY <1>4, RequestKeeps
<1>5. CASE Step
  BY <1>5, StepKeeps
<1>6. CASE MonitorEnd
  BY <1>6, MonitorEndServes
<1>7. CASE LogEnd
  BY <1>7, LogEndKeeps
<1>8. CASE NextCycle
  BY <1>8, NextCycleKeeps
<1>9. CASE SkipStep
  BY <1>9, SkipStepKeeps
<1> QED BY <1>1, <1>2, <1>3, <1>4, <1>5, <1>6, <1>7, <1>8, <1>9 DEF Next

LEMMA Inductive == Spec => []IInv
<1>1. Init => IInv
  BY InitIInv
<1>2. IInv /\ [Next]_vars => IInv'
  BY NextIInv
<1> QED BY <1>1, <1>2, PTL DEF Spec

(* Type correctness of the feed.                                           *)
THEOREM FeedTypes == Spec => []TypeOK
<1>1. IInv => TypeOK
  BY DEF IInv
<1> QED BY <1>1, Inductive, PTL

(* NetControl::SendClientMessage sends what was left over first: messages  *)
(* do not begin inside one another, whatever the sockets take.             *)
THEOREM MessagesStayWhole == Spec => []FramesWhole
<1>1. IInv => FramesWhole
  BY DEF IInv
<1> QED BY <1>1, Inductive, PTL

(* MonitorControl::EndCycle leaves every monitor that has missed nothing   *)
(* and waits for nothing with the structure of the scene and the place of  *)
(* the node, although it shares the node cache with the log file.          *)
THEOREM PicturesStayCurrent == Spec => PictureCurrent
<1>1. IInv /\ [Next]_vars =>
        [MonitorEnd /\ Kind # "nothing" =>
           \A m \in clients : ~off'[m] /\ unsent'[m] = None =>
                                pic'[m] = [tree |-> built, pos |-> pos]]_vars
  BY MonitorEndServes DEF Served
<1> QED BY <1>1, Inductive, PTL DEF Spec, PictureCurrent
=============================================================================
