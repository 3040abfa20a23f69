--------------------------- MODULE SPLGame_proofs ---------------------------
(***************************************************************************)
(* What holds of every match, whatever its durations, players, trainer     *)
(* commands and time steps: the types, that the periods last as long as    *)
(* they should, the order of the phases, one goal per kick-off, no ball in *)
(* a break, penalties served in full.                                      *)
(*                                                                         *)
(* The operations on the game state are summed up by what they can do to   *)
(* it (Stamped), so that a step is a chain of such operations.             *)
(***************************************************************************)
EXTENDS SPLGame, TLAPS

(* h comes of g by operations that let no time pass and stamp mLastModeChange *)
(* with the present when they change the SPL state.                        *)
Stamped(g, h) ==
  /\ h \in Games /\ h.time = g.time
  /\ h.state # g.state => h.lastChange = g.time
  /\ h.lastChange \in {g.lastChange, g.time}

LEMMA StampedChain ==
  ASSUME NEW g, NEW h, NEW k, Stamped(g, h), Stamped(h, k)
  PROVE  Stamped(g, k)
BY DEF Stamped

LEMMA SetStateStamps ==
  ASSUME NEW g \in Games, NEW s \in States
  PROVE  /\ Stamped(g, SetState(g, s))
         /\ SetState(g, s).state = s
         /\ SetState(g, s).half = g.half
         /\ SetState(g, s).score = g.score
BY DEF SetState, Stamped, Games

LEMMA SetPlayModeStamps ==
  ASSUME NEW g \in Games, NEW m \in Modes
  PROVE  /\ Stamped(g, SetPlayMode(g, m))
         /\ SetPlayMode(g, m).state = g.state
         /\ SetPlayMode(g, m).half = g.half
         /\ SetPlayMode(g, m).score = g.score
BY DEF SetPlayMode, Stamped, Games

LEMMA KickOffsStamp ==
  ASSUME NEW g \in Games, NEW ti \in Sides \union {"none"}, NEW h \in KickOffs(g, ti)
  PROVE  /\ Stamped(g, h)
         /\ h.half = g.half /\ h.score = g.score
         /\ h.state = IF g.state = "Initial" THEN "Ready" ELSE g.state
<1>1. PICK taker \in KickOffTakers(g, ti) : h = KickOffBy(g, ti, taker)
  BY DEF KickOffs
<1>2. taker \in Sides
  BY DEF KickOffTakers, Games, Sides
<1>3. KickOffMode(taker) \in Modes
  BY DEF KickOffMode, Modes
<1> DEFINE next == IF ti # "none" \/ ~NewHalf(g) THEN g.nextKickOff
                   ELSE IF ChangeSides THEN taker ELSE Opponent(taker)
           p == SetPlayMode(g, KickOffMode(taker))
           k == [p EXCEPT !.nextKickOff = next, !.lastKickOffHalf = g.half]
<1>4. next \in Sides \union {"none"}
  BY <1>2 DEF Games, Opponent, Sides
<1>5. /\ Stamped(g, p) /\ p.state = g.state /\ p.half = g.half /\ p.score = g.score
  BY <1>3, SetPlayModeStamps
<1>6. /\ k \in Games /\ k.time = p.time /\ k.state = p.state /\ k.half = p.half
      /\ k.score = p.score /\ k.lastChange = p.lastChange
  <2> HIDE DEF p, next
  <2> QED BY <1>4, <1>5 DEF Games, Stamped
<1>7. h = IF k.state = "Initial" THEN SetState(k, "Ready") ELSE k
  BY <1>1 DEF KickOffBy
<1> HIDE DEF k, p
<1>8. Stamped(g, k)
  BY <1>5, <1>6 DEF Stamped
<1>9. CASE k.state = "Initial"
  <2>1. /\ Stamped(k, SetState(k, "Ready")) /\ SetState(k, "Ready").state = "Ready"
        /\ SetState(k, "Ready").half = k.half /\ SetState(k, "Ready").score = k.score
    BY <1>6, SetStateStamps DEF States
  <2> QED BY <1>5, <1>6, <1>7, <1>8, <1>9, <2>1, StampedChain
<1>10. CASE k.state # "Initial"
  BY <1>5, <1>6, <1>7, <1>8, <1>10
<1> QED BY <1>9, <1>10

(* CheckTime ends halves and matches and touches no score.                 *)
LEMMA CheckTimeStamps ==
  ASSUME NEW g \in Games, g.half \in {"first", "second"}
  PROVE  /\ Stamped(g, CheckTime(g))
         /\ CheckTime(g).score = g.score
         /\ CheckTime(g).state \in {g.state, "Initial", "Finished"}
         /\ CheckTime(g).half \in {"first", "second"}
         /\ CheckTime(g).half # g.half =>
              CheckTime(g).half = "second" /\ CheckTime(g).state = "Initial"
         /\ (g.state = "Finished" => SingleHalfTime \/ g.half = "second") =>
              /\ g.state = "Finished" => CheckTime(g).state = "Finished"
              /\ CheckTime(g).state = "Finished" =>
                   SingleHalfTime \/ CheckTime(g).half = "second"
<1>1. CASE g.half = "first" /\ g.time >= HalfTime
  <2>1. CASE SingleHalfTime
    <3>1. CheckTime(g) = SetState(g, "Finished")
      BY <1>1, <2>1 DEF CheckTime
    <3> QED BY <1>1, <2>1, <3>1, SetStateStamps DEF States
  <2>2. CASE ~SingleHalfTime
    <3> DEFINE s == SetState(g, "Initial")
    <3>1. CheckTime(g) = [s EXCEPT !.half = "second"]
      BY <1>1, <2>2 DEF CheckTime
    <3>2. Stamped(g, s) /\ s.state = "Initial" /\ s.score = g.score
      BY SetStateStamps DEF States
    <3> HIDE DEF s
    <3>3. /\ [s EXCEPT !.half = "second"] \in Games
          /\ [s EXCEPT !.half = "second"].state = s.state
          /\ [s EXCEPT !.half = "second"].score = s.score
          /\ [s EXCEPT !.half = "second"].time = s.time
          /\ [s EXCEPT !.half = "second"].lastChange = s.lastChange
          /\ [s EXCEPT !.half = "second"].half = "second"
      BY <3>2 DEF Stamped, Games, Halves
    <3> QED BY <1>1, <2>2, <3>1, <3>2, <3>3 DEF Stamped
  <2> QED BY <2>1, <2>2
<1>2. CASE ~(g.half = "first" /\ g.time >= HalfTime) /\ g.half = "second" /\ g.time >= 2 * HalfTime
  <2>1. CheckTime(g) = SetState(g, "Finished")
    BY <1>2 DEF CheckTime
  <2> QED BY <1>2, <2>1, SetStateStamps DEF States
<1>3. CASE ~(g.half = "first" /\ g.time >= HalfTime) /\ ~(g.half = "second" /\ g.time >= 2 * HalfTime)
  <2>1. CheckTime(g) = g
    BY <1>3 DEF CheckTime
  <2> QED BY <2>1 DEF Stamped
<1> QED BY <1>1, <1>2, <1>3

LEMMA UpdateKickOffStamps ==
  ASSUME NEW g \in Games
  PROVE  /\ Stamped(g, UpdateKickOff(g))
         /\ UpdateKickOff(g).score = g.score
         /\ UpdateKickOff(g).state = g.state
         /\ UpdateKickOff(g).half = g.half
<1> DEFINE next == CASE g.mode \in {"KickOff_Left", "Goal_Right"} -> "left"
                     [] g.mode \in {"KickOff_Right", "Goal_Left"} -> "right"
                     [] OTHER -> g.nextKickOff
<1>1. next \in Sides \union {"none"}
  BY DEF Games, Sides
<1>2. UpdateKickOff(g) = [g EXCEPT !.nextKickOff = next]
  BY DEF UpdateKickOff
<1> HIDE DEF next
<1> QED BY <1>1, <1>2 DEF Games, Stamped

LEMMA ScoreGoalStamps ==
  ASSUME NEW g \in Games, NEW side \in Sides
  PROVE  /\ Stamped(g, ScoreGoal(g, side))
         /\ ScoreGoal(g, side).state = g.state
         /\ ScoreGoal(g, side).half = g.half
<1> DEFINE scorer == Opponent(side)
           s == [g EXCEPT !.score[scorer] = @ + 1]
           m == IF scorer = "left" THEN "Goal_Left" ELSE "Goal_Right"
<1>1. scorer \in Sides /\ m \in Modes
  BY DEF Opponent, Sides, Modes
<1>2. ScoreGoal(g, side) = SetPlayMode(s, m)
  BY DEF ScoreGoal
<1> HIDE DEF m, scorer
<1>3. /\ s \in Games /\ s.time = g.time /\ s.state = g.state /\ s.half = g.half
      /\ s.lastChange = g.lastChange
  BY <1>1 DEF Games
<1> HIDE DEF s
<1>4. Stamped(g, s)
  BY <1>3 DEF Stamped
<1>5. /\ Stamped(s, SetPlayMode(s, m)) /\ SetPlayMode(s, m).state = s.state
      /\ SetPlayMode(s, m).half = s.half
  BY <1>1, <1>3, SetPlayModeStamps
<1> QED BY <1>2, <1>3, <1>4, <1>5, StampedChain

LEMMA UpdateTimePasses ==
  ASSUME NEW g \in Games, NEW d \in Deltas
  PROVE  /\ UpdateTime(g, d) \in Games
         /\ UpdateTime(g, d).time \in {g.time, g.time + d}
         /\ g.state \notin {"Initial", "Finished"} => UpdateTime(g, d).time = g.time + d
         /\ UpdateTime(g, d).state = g.state
         /\ UpdateTime(g, d).half = g.half
         /\ UpdateTime(g, d).score = g.score
         /\ UpdateTime(g, d).lastChange = g.lastChange
<1>1. d \in Nat /\ WaitBeforeKickOff \in Nat
  BY SPLAssumption
<1>2. CASE g.state = "Initial"
  <2>1. UpdateTime(g, d) = [g EXCEPT !.lead = IF @ > WaitBeforeKickOff THEN @ ELSE @ + d]
    BY <1>2 DEF UpdateTime
  <2> QED BY <1>1, <1>2, <2>1 DEF Games
<1>3. CASE g.state = "Finished"
  <2>1. UpdateTime(g, d) = g
    BY <1>3 DEF UpdateTime
  <2> QED BY <1>3, <2>1
<1>4. CASE g.state \notin {"Initial", "Finished"}
  <2>1. UpdateTime(g, d) = [g EXCEPT !.time = @ + d]
    BY <1>4 DEF UpdateTime
  <2> QED BY <1>1, <1>4, <2>1 DEF Games
<1> QED BY <1>2, <1>3, <1>4

(* The end of every update keeps the state the handler chose, or ends the  *)
(* half or the match.                                                      *)
LEMMA FinishStamps ==
  ASSUME NEW g, NEW h, Stamped(g, h), h.half \in {"first", "second"}, Finish(h)
  PROVE  /\ Stamped(g, game') /\ game'.score = h.score
         /\ game'.state \in {h.state, "Initial", "Finished"}
         /\ game'.half \in {"first", "second"}
         /\ game'.half # h.half => game'.half = "second" /\ game'.state = "Initial"
         /\ (h.state = "Finished" => SingleHalfTime \/ h.half = "second") =>
              /\ h.state = "Finished" => game'.state = "Finished"
              /\ game'.state = "Finished" => SingleHalfTime \/ game'.half = "second"
<1> DEFINE c == CheckTime(h)
<1>1. h \in Games
  BY DEF Stamped
<1>2. /\ Stamped(h, c) /\ c.score = h.score
      /\ c.state \in {h.state, "Initial", "Finished"}
      /\ c.half \in {"first", "second"}
      /\ c.half # h.half => c.half = "second" /\ c.state = "Initial"
      /\ (h.state = "Finished" => SingleHalfTime \/ h.half = "second") =>
           /\ h.state = "Finished" => c.state = "Finished"
           /\ c.state = "Finished" => SingleHalfTime \/ c.half = "second"
  BY <1>1, CheckTimeStamps
<1>3. game' = UpdateKickOff(c)
  BY DEF Finish
<1> HIDE DEF c
<1>4. c \in Games
  BY <1>2 DEF Stamped
<1>5. /\ Stamped(c, UpdateKickOff(c)) /\ UpdateKickOff(c).score = c.score
      /\ UpdateKickOff(c).state = c.state /\ UpdateKickOff(c).half = c.half
  BY <1>4, UpdateKickOffStamps
<1>6. Stamped(g, c)
  BY <1>2, StampedChain
<1>7. Stamped(g, game')
  BY <1>3, <1>5, <1>6, StampedChain
<1> QED BY <1>2, <1>3, <1>5, <1>7

(* What the handlers of the states make of the game: h of g.               *)
Turn(g, h) ==
  /\ Stamped(g, h) /\ h.half = g.half
  /\ \/ h.state = g.state /\ g.state # "Unknown" /\ h.score = g.score
     \/ g.state = "Unknown" /\ h.state = "Initial" /\ h.score = g.score
     \/ g.state = "Initial" /\ h.state = "Ready" /\ h.score = g.score
     \/ /\ g.state = "Ready" /\ h.state = "Set" /\ h.score = g.score
        /\ g.time - g.lastChange > ReadyDuration
     \/ /\ g.state = "Set" /\ h.state = "Playing" /\ h.score = g.score
        /\ g.time - g.lastChange > SetDuration
     \/ g.state = "Playing" /\ h.state = "Ready"

LEMMA UpdateTurns ==
  ASSUME TypeOK, NEW d \in Deltas, Update(d)
  PROVE  \E h : Turn(UpdateTime(game, d), h) /\ Finish(h)
<1> DEFINE g == UpdateTime(game, d)
<1>1. g \in Games
  BY UpdateTimePasses DEF TypeOK
<1>2. UpdateUnknown(g) \/ UpdateInitial(g) \/ UpdateReady(g) \/ UpdateSet(g)
        \/ Goal(g) \/ Play(g) \/ UpdateFinish(g)
  BY DEF Update
<1>3. Stamped(g, g)
  BY <1>1 DEF Stamped
<1> HIDE DEF g
<1> SUFFICES \E h : Turn(g, h) /\ Finish(h)
  BY DEF g
<1>4. CASE UpdateUnknown(g)
  <2>1. g.state = "Unknown" /\ Finish(SetState(g, "Initial"))
    BY <1>4 DEF UpdateUnknown
  <2> QED BY <1>1, <2>1, SetStateStamps DEF Turn, States
<1>5. CASE UpdateInitial(g)
  <2>1. /\ g.state = "Initial"
        /\ \E h \in KickOffs(g, "none") \union {g} : Finish(h)
    BY <1>5 DEF UpdateInitial
  <2>2. PICK h \in KickOffs(g, "none") \union {g} : Finish(h)
    BY <2>1
  <2>3. CASE h = g
    BY <1>3, <2>1, <2>2, <2>3 DEF Turn
  <2>4. CASE h \in KickOffs(g, "none")
    BY <1>1, <2>1, <2>2, <2>4, KickOffsStamp DEF Turn
  <2> QED BY <2>3, <2>4
<1>6. CASE UpdateReady(g)
  <2>1. /\ g.state = "Ready"
        /\ Finish(IF StateTime(g) > ReadyDuration THEN SetState(g, "Set") ELSE g)
    BY <1>6 DEF UpdateReady
  <2>2. StateTime(g) = g.time - g.lastChange
    BY <2>1 DEF StateTime
  <2> QED BY <1>1, <1>3, <2>1, <2>2, SetStateStamps DEF Turn, States
<1>7. CASE UpdateSet(g)
  <2>1. /\ g.state = "Set"
        /\ Finish(IF StateTime(g) > SetDuration THEN SetState(g, "Playing") ELSE g)
    BY <1>7 DEF UpdateSet
  <2>2. StateTime(g) = g.time - g.lastChange
    BY <2>1 DEF StateTime
  <2> QED BY <1>1, <1>3, <2>1, <2>2, SetStateStamps DEF Turn, States
<1>8. CASE Goal(g)
  <2> DEFINE s == ScoreGoal(g, ball)
  <2>1. /\ g.state = "Playing" /\ ball \in Sides /\ Finish(SetState(s, "Ready"))
    BY <1>8 DEF Goal
  <2>2. Stamped(g, s) /\ s.half = g.half
    BY <1>1, <2>1, ScoreGoalStamps
  <2> HIDE DEF s
  <2>3. /\ Stamped(s, SetState(s, "Ready")) /\ SetState(s, "Ready").state = "Ready"
        /\ SetState(s, "Ready").half = s.half
    BY <2>2, SetStateStamps DEF Stamped, States
  <2>4. Stamped(g, SetState(s, "Ready"))
    BY <2>2, <2>3, StampedChain
  <2> QED BY <2>1, <2>2, <2>3, <2>4 DEF Turn
<1>9. CASE Play(g) \/ UpdateFinish(g)
  <2>1. g.state \in {"Playing", "Finished"} /\ Finish(g)
    BY <1>9 DEF Play, UpdateFinish
  <2> QED BY <1>3, <2>1 DEF Turn
<1> QED BY <1>2, <1>4, <1>5, <1>6, <1>7, <1>8, <1>9

(* The same, seen from before the update to after it.                      *)
LEMMA UpdatePhases ==
  ASSUME TypeOK, PhaseInv, NEW d \in Deltas, Update(d)
  PROVE  /\ Stamped(UpdateTime(game, d), game')
         /\ game'.half \in {"first", "second"}
         /\ game'.half # game.half => game'.half = "second" /\ game'.state = "Initial"
         /\ game.state = "Finished" => game'.state = "Finished"
         /\ game'.state = "Finished" => SingleHalfTime \/ game'.half = "second"
         /\ game'.state = "Playing" => game.state \in {"Set", "Playing"}
         /\ game'.state = "Playing" /\ game.state = "Playing" => game'.score = game.score
         /\ game'.state = "Set" => game.state \in {"Ready", "Set"}
         /\ game'.score # game.score => game.state = "Playing"
         /\ game.state \notin Break => game'.state # "Unknown"
         /\ game.state = "Ready" /\ game'.state = "Set" =>
              UpdateTime(game, d).time - game.lastChange > ReadyDuration
         /\ game.state = "Set" /\ game'.state = "Playing" =>
              UpdateTime(game, d).time - game.lastChange > SetDuration
<1> DEFINE g == UpdateTime(game, d)
<1>1. /\ g.state = game.state /\ g.half = game.half /\ g.score = game.score
      /\ g.lastChange = game.lastChange /\ g.half \in {"first", "second"}
      /\ g.state = "Finished" => SingleHalfTime \/ g.half = "second"
  BY UpdateTimePasses DEF TypeOK, PhaseInv
<1>2. PICK h : Turn(g, h) /\ Finish(h)
  BY UpdateTurns
<1> HIDE DEF g
<1>3. /\ Stamped(g, h) /\ h.half \in {"first", "second"} /\ h.half = g.half
  BY <1>1, <1>2 DEF Turn
<1>4. h.state = "Finished" => SingleHalfTime \/ h.half = "second"
  BY <1>1, <1>2 DEF Turn
<1>5. /\ Stamped(g, game') /\ game'.score = h.score
      /\ game'.state \in {h.state, "Initial", "Finished"}
      /\ game'.half \in {"first", "second"}
      /\ game'.half # h.half => game'.half = "second" /\ game'.state = "Initial"
      /\ h.state = "Finished" => game'.state = "Finished"
      /\ game'.state = "Finished" => SingleHalfTime \/ game'.half = "second"
  BY <1>2, <1>3, <1>4, FinishStamps
<1> QED BY <1>1, <1>2, <1>3, <1>5 DEF Turn, Break, g

(* What an update does to ball and robots.                                 *)
LEMMA UpdateField ==
  ASSUME TypeOK, NEW d \in Deltas, Update(d)
  PROVE  /\ ball' \in {"field", "out", "hidden"} \union Sides
         /\ place' \in [Robots -> Places]
         /\ till' \in [Robots -> Nat \union {NoPenalty}]
         /\ \A r \in Robots :
              \/ till'[r] = till[r]
              \/ /\ till[r] = NoPenalty
                 /\ till'[r] = UpdateTime(game, d).time + PenaltyDuration
              \/ /\ till[r] # NoPenalty /\ till'[r] = NoPenalty
                 /\ UpdateTime(game, d).time > till[r]
         /\ dropForced' \in {dropForced, FALSE}
         /\ game.state \notin Break => dropForced' = FALSE
         /\ game.state \in {"Initial", "Ready"} /\ ~dropForced => ball' = "hidden"
<1> DEFINE g == UpdateTime(game, d)
<1>1. g.time \in Nat /\ g.state = game.state
  BY UpdateTimePasses DEF TypeOK, Games
<1>2. UpdateUnknown(g) \/ UpdateInitial(g) \/ UpdateReady(g) \/ UpdateSet(g)
        \/ Goal(g) \/ Play(g) \/ UpdateFinish(g)
  BY DEF Update
<1> HIDE DEF g
<1>3. CASE UpdateUnknown(g) \/ UpdateInitial(g) \/ UpdateReady(g)
  <2>1. /\ g.state \in {"Unknown", "Initial", "Ready"}
        /\ g.state # "Unknown" => HideBall
        /\ g.state = "Unknown" => ball' = ball
        /\ UNCHANGED <<dropForced, robots>>
    BY <1>3 DEF UpdateUnknown, UpdateInitial, UpdateReady
  <2> QED BY <1>1, <2>1 DEF HideBall, robots, TypeOK, Break
<1>4. CASE UpdateSet(g)
  <2>1. /\ g.state = "Set" /\ dropForced' = FALSE /\ ball' = "field" /\ till' = till
        /\ place' = [r \in Robots |-> Placed(g, r)]
    BY <1>4 DEF UpdateSet
  <2>2. \A r \in Robots : Placed(g, r) \in Places
    BY DEF Placed, TypeOK, Places
  <2> QED BY <1>1, <2>1, <2>2 DEF TypeOK, Break
<1>5. CASE Goal(g) \/ UpdateFinish(g)
  <2>1. /\ g.state \in {"Playing", "Finished"} /\ dropForced' = FALSE
        /\ UNCHANGED <<ball, robots>>
    BY <1>5 DEF Goal, UpdateFinish
  <2> QED BY <1>1, <2>1 DEF robots, TypeOK, Break
<1>6. CASE Play(g)
  <2>1. /\ g.state = "Playing" /\ dropForced' = FALSE
        /\ ball' \in {"out", "field", ball}
        /\ till' = [r \in Robots |-> PenalisedUntil(g, r)]
        /\ place' = [r \in Robots |-> IF till'[r] = till[r] THEN place[r] ELSE "side"]
    BY <1>6 DEF Play
  <2>2. place' \in [Robots -> Places]
    BY <2>1 DEF TypeOK, Places
  <2>3. PenaltyDuration \in Nat
    BY SPLAssumption
  <2>4. ASSUME NEW r \in Robots
        PROVE  /\ till'[r] \in Nat \union {NoPenalty}
               /\ \/ till'[r] = till[r]
                  \/ till[r] = NoPenalty /\ till'[r] = g.time + PenaltyDuration
                  \/ till[r] # NoPenalty /\ till'[r] = NoPenalty /\ g.time > till[r]
    BY <1>1, <2>1, <2>3 DEF PenalisedUntil, TypeOK, NoPenalty
  <2>5. till' \in [Robots -> Nat \union {NoPenalty}]
    BY <2>1, <2>4
  <2> QED BY <1>1, <2>1, <2>2, <2>4, <2>5 DEF TypeOK, Break, g
<1> QED BY <1>2, <1>3, <1>4, <1>5, <1>6 DEF g
-----------------------------------------------------------------------------
IInv == TypeOK /\ StampInv /\ PenaltyInv /\ PhaseInv

LEMMA InitIInv == Init => IInv
<1> SUFFICES ASSUME Init PROVE IInv
  OBVIOUS
<1>1. TypeOK
  <2>1. game \in Games
    BY DEF Init, Games, States, Modes, Halves, Sides
  <2>2. restarted \in BOOLEAN /\ dropped \in BOOLEAN /\ dropForced \in BOOLEAN
        /\ clockSet \in BOOLEAN
    BY Zenon DEF Init
  <2>3. place \in [Robots -> Places] /\ till \in [Robots -> Nat \union {NoPenalty}]
    BY DEF Init, Places
  <2>4. ball \in {"field", "out", "hidden"} \union Sides /\ starter \in Sides \union {"none"}
    BY DEF Init
  <2>5. commands \in 0..MaxCommands /\ spent \in Nat /\ served \in [Robots -> Nat]
    BY SPLAssumption DEF Init
  <2> QED BY <2>1, <2>2, <2>3, <2>4, <2>5 DEF TypeOK
<1>2. StampInv /\ PenaltyInv
  BY DEF Init, StampInv, PenaltyInv
<1>3. PhaseInv
  BY DEF Init, PhaseInv, Break
<1> QED BY <1>1, <1>2, <1>3 DEF IInv

LEMMA UpdateIInv ==
  ASSUME IInv, NEW d \in Deltas, Update(d)
  PROVE  IInv'
<1> DEFINE g == UpdateTime(game, d)
<1>1. TypeOK /\ StampInv /\ PenaltyInv /\ PhaseInv /\ d \in Nat
  BY SPLAssumption DEF IInv
<1>2. /\ g \in Games /\ g.time \in {game.time, game.time + d}
      /\ g.lastChange = game.lastChange /\ g.state = game.state
  BY <1>1, UpdateTimePasses DEF TypeOK
<1>3. /\ Stamped(g, game')
      /\ game'.half \in {"first", "second"}
      /\ game'.state = "Finished" => SingleHalfTime \/ game'.half = "second"
      /\ game'.state = "Playing" => game.state \in {"Set", "Playing"}
      /\ game'.state = "Playing" /\ game.state = "Playing" => game'.score = game.score
      /\ game.state \notin Break => game'.state # "Unknown"
  BY <1>1, UpdatePhases
<1>4. /\ spent' = IF game'.state # game.state THEN 0 ELSE spent + game'.time - game.time
      /\ starter' \in {starter, "left", "right"}
      /\ served' = [r \in Robots |-> IF till[r] = NoPenalty THEN 0
                                     ELSE served[r] + game'.time - game.time]
      /\ UNCHANGED <<commands, clockSet>>
  BY DEF Update, Remember
<1>5. restarted' = IF game.state = "Set" THEN TRUE
                  ELSE IF game'.score # game.score THEN FALSE ELSE restarted
  BY Zenon DEF Update
<1>6. dropped' = (dropped /\ game.state \in Break)
  BY DEF Update
<1>7. /\ ball' \in {"field", "out", "hidden"} \union Sides
      /\ place' \in [Robots -> Places]
      /\ till' \in [Robots -> Nat \union {NoPenalty}]
      /\ \A r \in Robots :
           \/ till'[r] = till[r]
           \/ till[r] = NoPenalty /\ till'[r] = g.time + PenaltyDuration
           \/ till[r] # NoPenalty /\ till'[r] = NoPenalty /\ g.time > till[r]
      /\ dropForced' \in {dropForced, FALSE}
      /\ game.state \notin Break => dropForced' = FALSE
  BY <1>1, UpdateField
<1> HIDE DEF g
<1>8. game' \in Games /\ game'.time = g.time
  BY <1>3 DEF Stamped
<1>9. game'.time \in Nat /\ game.time \in Nat /\ game'.time >= game.time
  BY <1>1, <1>2, <1>8 DEF TypeOK, Games
<1>10. TypeOK'
  <2>1. spent' \in Nat
    BY <1>1, <1>4, <1>9 DEF TypeOK
  <2>2. served' \in [Robots -> Nat]
    BY <1>1, <1>4, <1>9 DEF TypeOK
  <2>3. restarted' \in BOOLEAN /\ dropped' \in BOOLEAN /\ dropForced' \in BOOLEAN
    BY <1>1, <1>5, <1>6, <1>7, Zenon DEF TypeOK
  <2>4. starter' \in Sides \union {"none"}
    BY <1>1, <1>4 DEF TypeOK, Sides
  <2> QED BY <1>1, <1>4, <1>7, <1>8, <2>1, <2>2, <2>3, <2>4 DEF TypeOK
<1>11. StampInv'
  BY <1>1, <1>2, <1>3, <1>4, <1>8, <1>9 DEF StampInv, Stamped, TypeOK, Games
<1>12. PenaltyInv'
  <2> SUFFICES ASSUME NEW r \in Robots, till'[r] # NoPenalty, ~clockSet'
               PROVE  till'[r] = game'.time - served'[r] + PenaltyDuration
    BY DEF PenaltyInv
  <2>1. /\ served'[r] = IF till[r] = NoPenalty THEN 0
                        ELSE served[r] + game'.time - game.time
        /\ served[r] \in Nat
    BY <1>1, <1>4 DEF TypeOK
  <2>2. PenaltyDuration \in Nat
    BY SPLAssumption
  <2>3. CASE till'[r] = till[r]
    BY <1>1, <1>4, <1>9, <2>1, <2>2, <2>3 DEF PenaltyInv
  <2>4. CASE till[r] = NoPenalty /\ till'[r] = g.time + PenaltyDuration
    BY <1>8, <1>9, <2>1, <2>2, <2>4
  <2> QED BY <1>7, <2>3, <2>4
<1>13. PhaseInv'
  <2>1. game'.state = "Playing" => restarted'
    BY <1>1, <1>3, <1>5 DEF PhaseInv
  <2>2. game'.state \in Break /\ dropForced' => dropped'
    BY <1>1, <1>6, <1>7 DEF PhaseInv
  <2> QED BY <1>3, <2>1, <2>2 DEF PhaseInv
<1> QED BY <1>10, <1>11, <1>12, <1>13 DEF IInv

(* The commands that run the kick-off or change the play mode.             *)
LEMMA StampIInv ==
  ASSUME IInv, Stamped(game, game'), game'.half = game.half,
         \/ game'.state = game.state
         \/ game.state = "Initial" /\ game'.state = "Ready",
         spent' = IF game'.state # game.state THEN 0 ELSE spent,
         starter' \in Sides \union {"none"},
         ball' \in {ball, "field"},
         dropForced' \in BOOLEAN, dropped' \in BOOLEAN,
         \/ dropForced' = dropForced /\ dropped' = dropped
         \/ dropped' = TRUE,
         Command, clockSet' = clockSet
  PROVE  IInv'
<1>1. TypeOK /\ StampInv /\ PenaltyInv /\ PhaseInv
  BY DEF IInv
<1>2. /\ commands' \in 0..MaxCommands /\ place' = place /\ till' = till
      /\ served' = served /\ restarted' = restarted
  BY <1>1, SPLAssumption DEF Command, robots, TypeOK
<1>3. game' \in Games /\ game'.time = game.time
  BY DEF Stamped
<1>4. TypeOK'
  <2>1. spent' \in Nat /\ ball' \in {"field", "out", "hidden"} \union Sides
    BY <1>1 DEF TypeOK
  <2>2. clockSet' \in BOOLEAN /\ restarted' \in BOOLEAN
    BY <1>1, <1>2, Zenon DEF TypeOK
  <2> QED BY <1>1, <1>2, <1>3, <2>1, <2>2 DEF TypeOK
<1>5. StampInv'
  BY <1>1 DEF StampInv, Stamped, TypeOK, Games
<1>6. PenaltyInv'
  BY <1>1, <1>2, <1>3 DEF PenaltyInv
<1>7. PhaseInv'
  <2>1. game'.state = "Playing" => restarted'
    BY <1>1, <1>2, Zenon DEF PhaseInv
  <2>2. game'.state \in Break => game.state \in Break
    BY DEF Break
  <2>3. game'.state \in Break /\ dropForced' => dropped'
    BY <1>1, <2>2 DEF PhaseInv
  <2> QED BY <1>1, <2>1, <2>3 DEF PhaseInv
<1> QED BY <1>4, <1>5, <1>6, <1>7 DEF IInv

LEMMA TrainerIInv == ASSUME IInv, Trainer PROVE IInv'
<1>1. TypeOK /\ StampInv /\ PenaltyInv /\ PhaseInv /\ game \in Games
  BY DEF IInv, TypeOK
<1>2. dropForced \in BOOLEAN /\ dropped \in BOOLEAN
  BY <1>1, Zenon DEF TypeOK
<1>3. spent \in Nat /\ starter \in Sides \union {"none"}
  BY <1>1 DEF TypeOK
<1>4. ASSUME NEW m \in TrainerModes, PlayModeCommand(m) PROVE IInv'
  <2>1. m \in Modes
    BY TrainerModesAssumption
  <2>2. /\ Stamped(game, game') /\ game'.half = game.half /\ game'.state = game.state
    BY <1>1, <1>4, <2>1, SetPlayModeStamps DEF PlayModeCommand
  <2> QED BY <1>2, <1>3, <1>4, <2>2, StampIInv DEF PlayModeCommand
<1>5. ASSUME NEW ti \in Sides \union {"none"}, KickOffCommand(ti) PROVE IInv'
  <2>1. /\ Stamped(game, game') /\ game'.half = game.half
        /\ game'.state = IF game.state = "Initial" THEN "Ready" ELSE game.state
    BY <1>1, <1>5, KickOffsStamp DEF KickOffCommand
  <2>2. spent' = IF game'.state # game.state THEN 0 ELSE spent
    BY <1>1, <1>3, <1>5, <2>1 DEF KickOffCommand, Remember, Stamped, Games
  <2>3. starter' \in Sides \union {"none"}
    BY <1>3, <1>5 DEF KickOffCommand, Remember, Sides
  <2>4. /\ Command /\ ball' = ball /\ dropForced' = dropForced
        /\ clockSet' = clockSet /\ dropped' = dropped
    BY <1>5 DEF KickOffCommand
  <2> QED BY <1>2, <2>1, <2>2, <2>3, <2>4, StampIInv
<1>6. ASSUME DropBall PROVE IInv'
  <2>1. /\ Stamped(game, game') /\ game'.half = game.half /\ game'.state = game.state
    BY <1>1, <1>6, SetPlayModeStamps DEF DropBall, Modes
  <2> QED BY <1>3, <1>6, <2>1, StampIInv DEF DropBall
<1>7. ASSUME NEW t \in TrainerTimes, TimeCommand(t) PROVE IInv'
  <2>1. t \in Nat /\ MaxCommands \in Nat
    BY SPLAssumption
  <2>2. /\ game' = [game EXCEPT !.time = t] /\ clockSet' = TRUE
        /\ UNCHANGED <<ball, dropForced, spent, starter, dropped, served, restarted>>
        /\ place' = place /\ till' = till
        /\ commands < MaxCommands /\ commands' = commands + 1
    BY <1>7 DEF TimeCommand, Command, robots
  <2>3. /\ game' \in Games /\ game'.state = game.state /\ game'.half = game.half
    BY <1>1, <2>1, <2>2 DEF Games
  <2>4. restarted' \in BOOLEAN /\ dropped' \in BOOLEAN /\ dropForced' \in BOOLEAN
        /\ clockSet' \in BOOLEAN
    BY <1>1, <2>2, Zenon DEF TypeOK
  <2>5. TypeOK'
    BY <1>1, <2>1, <2>2, <2>3, <2>4 DEF TypeOK
  <2>6. StampInv' /\ PenaltyInv'
    BY <2>2 DEF StampInv, PenaltyInv
  <2>7. PhaseInv'
    BY <1>1, <2>2, <2>3 DEF PhaseInv
  <2> QED BY <2>5, <2>6, <2>7 DEF IInv
<1>8. ASSUME NEW score \in [Sides -> TrainerScores], ScoreCommand(score) PROVE IInv'
  <2>1. /\ game' = [game EXCEPT !.score = score]
        /\ UNCHANGED <<ball, dropForced, spent, starter, clockSet, dropped>>
        /\ Command
    BY <1>8 DEF ScoreCommand
  <2>2. score \in [Sides -> Nat]
    BY SPLAssumption
  <2>3. /\ Stamped(game, game') /\ game'.half = game.half /\ game'.state = game.state
    BY <1>1, <2>1, <2>2 DEF Stamped, Games
  <2> QED BY <1>2, <1>3, <2>1, <2>3, StampIInv
<1> QED BY <1>4, <1>5, <1>6, <1>7, <1>8 DEF Trainer

(* The histories, SPL state and penalties are out of reach of ball and     *)
(* robots.                                                                 *)
LEMMA OthersIInv ==
  ASSUME IInv,
         \/ Roll
         \/ \E r \in Robots, p \in Places : Walk(r, p)
         \/ UNCHANGED vars
  PROVE  IInv'
<1>1. TypeOK /\ StampInv /\ PenaltyInv /\ PhaseInv
  BY DEF IInv
<1>2. /\ UNCHANGED <<game, dropForced, till, commands, spent, served, clockSet,
                    restarted, dropped, starter>>
      /\ ball' \in {"field", "out", "hidden"} \union Sides
      /\ place' \in [Robots -> Places]
  BY <1>1 DEF Roll, Walk, vars, robots, history, TypeOK
<1>3. TypeOK'
  <2>1. restarted' \in BOOLEAN /\ dropped' \in BOOLEAN /\ dropForced' \in BOOLEAN
        /\ clockSet' \in BOOLEAN
    BY <1>1, <1>2, Zenon DEF TypeOK
  <2> QED BY <1>1, <1>2, <2>1 DEF TypeOK
<1>4. StampInv' /\ PenaltyInv' /\ PhaseInv'
  BY <1>1, <1>2 DEF StampInv, PenaltyInv, PhaseInv
<1> QED BY <1>3, <1>4 DEF IInv

LEMMA NextIInv == IInv /\ [Next]_vars => IInv'
BY UpdateIInv, TrainerIInv, OthersIInv DEF Next

LEMMA Invariance == Spec => []IInv
BY InitIInv, NextIInv, PTL DEF Spec

(* Every variable of the match keeps its type.                             *)
THEOREM TypeCorrect == Spec => []TypeOK
<1>1. IInv => TypeOK
  BY DEF IInv
<1> QED BY <1>1, Invariance, PTL
-----------------------------------------------------------------------------
(* Only updates move the game on otherwise than the trainer may.           *)
LEMMA CommandSteps ==
  ASSUME IInv, [Next]_vars, ~\E d \in Deltas : Update(d)
  PROVE  /\ till' = till
         /\ game'.half = game.half
         /\ \/ game'.state = game.state
            \/ game.state = "Initial" /\ game'.state = "Ready"
         /\ commands' = commands => game' = game
<1>1. game \in Games /\ commands \in Nat
  BY SPLAssumption DEF IInv, TypeOK
<1>2. CASE Roll \/ (\E r \in Robots, p \in Places : Walk(r, p)) \/ UNCHANGED vars
  BY <1>2 DEF Roll, Walk, vars, robots
<1>3. CASE Trainer
  <2>1. Command
    BY <1>3 DEF Trainer, PlayModeCommand, KickOffCommand, DropBall, TimeCommand, ScoreCommand
  <2>2. commands' # commands /\ till' = till
    BY <1>1, <2>1 DEF Command, robots
  <2>3. /\ game'.half = game.half
        /\ \/ game'.state = game.state
           \/ game.state = "Initial" /\ game'.state = "Ready"
    <3>1. CASE \E m \in TrainerModes : PlayModeCommand(m)
      BY <1>1, <3>1, SetPlayModeStamps, TrainerModesAssumption DEF PlayModeCommand
    <3>2. CASE \E ti \in Sides \union {"none"} : KickOffCommand(ti)
      BY <1>1, <3>2, KickOffsStamp DEF KickOffCommand
    <3>3. CASE DropBall
      BY <1>1, <3>3, SetPlayModeStamps DEF DropBall, Modes
    <3>4. CASE \E t \in TrainerTimes : TimeCommand(t)
      BY <1>1, <3>4 DEF TimeCommand, Games
    <3>5. CASE \E score \in [Sides -> TrainerScores] : ScoreCommand(score)
      BY <1>1, <3>5 DEF ScoreCommand, Games
    <3> QED BY <1>3, <3>1, <3>2, <3>3, <3>4, <3>5 DEF Trainer
  <2> QED BY <2>2, <2>3
<1> QED BY <1>2, <1>3 DEF Next

(* The robots have all of ReadyDuration and of SetDuration: the shared     *)
(* time stamp is never older than the state (StampInv).                    *)
THEOREM PeriodsLast == Spec => RobotsGetTheirTime
<1>1. ASSUME IInv, [Next]_vars
      PROVE  ~clockSet' => /\ Ends("Ready", "Set") => TimeSpent > ReadyDuration
                           /\ Ends("Set", "Playing") => TimeSpent > SetDuration
  <2>1. CASE \E d \in Deltas : Update(d)
    <3>1. PICK d \in Deltas : Update(d)
      BY <2>1
    <3>2. TypeOK /\ PhaseInv /\ StampInv
      BY <1>1 DEF IInv
    <3>3. /\ Stamped(UpdateTime(game, d), game')
          /\ game.state = "Ready" /\ game'.state = "Set" =>
               UpdateTime(game, d).time - game.lastChange > ReadyDuration
          /\ game.state = "Set" /\ game'.state = "Playing" =>
               UpdateTime(game, d).time - game.lastChange > SetDuration
      BY <3>1, <3>2, UpdatePhases
    <3>4. game'.time = UpdateTime(game, d).time /\ game'.time \in Nat
      BY <3>3 DEF Stamped, Games
    <3>5. clockSet' = clockSet
      BY <3>1 DEF Update
    <3>6. game.time \in Nat /\ game.lastChange \in Nat /\ spent \in Nat
          /\ ReadyDuration \in Nat /\ SetDuration \in Nat
      BY <3>2, SPLAssumption DEF TypeOK, Games
    <3> QED BY <3>2, <3>3, <3>4, <3>5, <3>6 DEF StampInv, Ends, TimeSpent
  <2>2. CASE ~\E d \in Deltas : Update(d)
    BY <1>1, <2>2, CommandSteps DEF Ends
  <2> QED BY <2>1, <2>2
<1> QED BY <1>1, Invariance, PTL DEF Spec, RobotsGetTheirTime

(* The phases of a match follow one another as they should.                *)
THEOREM PhasesInOrder == Spec => PhaseOrder
<1>1. ASSUME IInv, [Next]_vars
      PROVE  /\ game'.state = "Playing" => game.state \in {"Set", "Playing"}
             /\ game'.state = "Set" => game.state \in {"Ready", "Set"}
             /\ game.state = "Finished" => game'.state = "Finished"
             /\ game.half # game'.half => game'.half = "second" /\ game'.state = "Initial"
  <2>1. CASE \E d \in Deltas : Update(d)
    BY <1>1, <2>1, UpdatePhases DEF IInv
  <2>2. CASE ~\E d \in Deltas : Update(d)
    BY <1>1, <2>2, CommandSteps
  <2> QED BY <2>1, <2>2
<1> QED BY <1>1, Invariance, PTL DEF Spec, PhaseOrder

(* A ball in the goal is counted once.                                     *)
THEOREM GoalCountedOnce == Spec => OneGoalPerKickOff
<1>1. ASSUME IInv, [Next]_vars
      PROVE  commands' = commands /\ game'.score # game.score => restarted
  <2>1. CASE \E d \in Deltas : Update(d)
    <3>1. TypeOK /\ PhaseInv
      BY <1>1 DEF IInv
    <3>2. game'.score # game.score => game.state = "Playing"
      BY <2>1, <3>1, UpdatePhases
    <3> QED BY <3>1, <3>2 DEF PhaseInv
  <2>2. CASE ~\E d \in Deltas : Update(d)
    BY <1>1, <2>2, CommandSteps
  <2> QED BY <2>1, <2>2
<1> QED BY <1>1, Invariance, PTL DEF Spec, OneGoalPerKickOff

(* There is no ball in a break the trainer did not drop in that break.     *)
THEOREM NoBallInBreak == Spec => BallAway
<1>1. ASSUME IInv, \E d \in Deltas : Update(d),
             game.state \in {"Initial", "Ready"}, ~dropped
      PROVE  ball' = "hidden"
  <2>1. TypeOK /\ PhaseInv
    BY <1>1 DEF IInv
  <2>2. ~dropForced
    BY <1>1, <2>1 DEF PhaseInv, Break
  <2> QED BY <1>1, <2>1, <2>2, UpdateField
<1> QED BY <1>1, Invariance, PTL DEF Spec, BallAway

(* No penalty ends early: it is counted in the game time that also counts  *)
(* the robot's time off the field (PenaltyInv).                            *)
THEOREM PenaltiesServed == Spec => PenaltyServed
<1>1. ASSUME IInv, [Next]_vars
      PROVE  \A r \in Robots :
               till[r] # NoPenalty /\ till'[r] = NoPenalty /\ ~clockSet
               => served'[r] > PenaltyDuration
  <2>1. CASE \E d \in Deltas : Update(d)
    <3>1. PICK d \in Deltas : Update(d)
      BY <2>1
    <3>2. TypeOK /\ PhaseInv /\ PenaltyInv
      BY <1>1 DEF IInv
    <3> SUFFICES ASSUME NEW r \in Robots, till[r] # NoPenalty, till'[r] = NoPenalty,
                        ~clockSet
                 PROVE  served'[r] > PenaltyDuration
      OBVIOUS
    <3>3. UpdateTime(game, d).time > till[r]
      BY <3>1, <3>2, UpdateField
    <3>4. /\ game'.time = UpdateTime(game, d).time /\ game'.time \in Nat
      BY <3>1, <3>2, UpdatePhases DEF Stamped, Games
    <3>5. served'[r] = served[r] + game'.time - game.time
      BY <3>1 DEF Update
    <3>6. served[r] \in Nat /\ game.time \in Nat /\ PenaltyDuration \in Nat
      BY <3>2, SPLAssumption DEF TypeOK, Games
    <3> QED BY <3>2, <3>3, <3>4, <3>5, <3>6 DEF PenaltyInv
  <2>2. CASE ~\E d \in Deltas : Update(d)
    BY <1>1, <2>2, CommandSteps
  <2> QED BY <2>1, <2>2
<1> QED BY <1>1, Invariance, PTL DEF Spec, PenaltyServed
=============================================================================
