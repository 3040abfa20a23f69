----------------------------- MODULE HearChannel ----------------------------
(***************************************************************************)
(* What the players hear of each other.  A say effector hands a message    *)
(* to SoccerRuleAspect::Broadcast, which puts it into the AgentState of    *)
(* the players addressed; the hear perceptor of each of them takes it out  *)
(* in the next cycle.  A player has one box for its own words, one for     *)
(* its team mates and one for its opponents, and for the latter two a      *)
(* capacity (mHearMateCap, mHearOppCap) that each message costs HearDecay  *)
(* and each sensing restores by HearInc.                                   *)
(*                                                                         *)
(* The text, the label and the direction of a message are left out: a box  *)
(* is empty or it holds a message.  Places are abstracted to the set of    *)
(* players within mAudioCutDist of the speaker, chosen at each message.    *)
(***************************************************************************)
EXTENDS Integers

CONSTANTS
  Players,    \* agents that connect, register in a team and leave
  HearMax,    \* mHearMax: a capacity below it is restored
  HearInc,    \* mHearInc: by this much at each sensing
  HearDecay   \* mHearDecay: what a message costs

ASSUME HearNumbers ==
  HearMax \in Nat \ {0} /\ HearInc \in Nat \ {0} /\ HearDecay \in Nat \ {0}

(* With what one sensing adds a second message cannot be afforded, and     *)
(* a rested player can afford one.                                         *)
ASSUME HearShares == HearDecay <= HearMax /\ HearMax + HearInc <= 2 * HearDecay

VARIABLES
  team,     \* "absent" before the robot is created, "none" (TI_NONE) before Init
  self,     \* mIfSelfMsg
  box,      \* mIfMateMsg, mIfOppMsg
  cap,      \* mHearMateCap, mHearOppCap
  due       \* history: what the messages heard cost, less what time paid back

hearVars == <<team, self, box, cap, due>>

Sides    == {"left", "right"}
Channels == {"mate", "opp"}
Ears     == Players \X Channels
Most     == HearMax + HearInc - 1    \* the highest capacity GetMessage leads to

HearTypeOK ==
  /\ team \in [Players -> Sides \union {"absent", "none"}]
  /\ self \in [Players -> BOOLEAN]
  /\ box \in [Ears -> BOOLEAN]
  /\ cap \in [Ears -> Int]
  /\ due \in [Ears -> Nat]

HearInit ==
  /\ team = [p \in Players |-> "absent"]
  /\ self = [p \in Players |-> FALSE]
  /\ box = [e \in Ears |-> FALSE]
  /\ cap = [e \in Ears |-> HearMax]
  /\ due = [e \in Ears |-> 0]

Present == {p \in Players : team[p] # "absent"}

-----------------------------------------------------------------------------
(* SoccerBase::GetAgentStates: all agents when the index is TI_NONE.       *)
AgentStates(side) == {p \in Present : side = "none" \/ team[p] = side}

OpponentTeam(side) ==
  CASE side = "left" -> "right" [] side = "right" -> "left" [] OTHER -> "none"

(* Players are told apart by their number: one that did not register has   *)
(* number 0, as all those that did not.                                    *)
SameNumber(p, s) == p = s \/ (team[p] = "none" /\ team[s] = "none")

(* Broadcast: who finds the message in the box of its own words, and at    *)
(* which ears the message arrives, when the players near hear the speaker. *)
SelfAddressed(s) == {p \in AgentStates(team[s]) : SameNumber(p, s)}

Addressed(s, near) ==
  (((AgentStates(team[s]) \ SelfAddressed(s)) \intersect near) \X {"mate"})
    \union ((AgentStates(OpponentTeam(team[s])) \intersect near) \X {"opp"})

(* Mutant: a message may leave the capacity below nothing.                 *)
AcceptedInDebt(s, near) == {e \in Addressed(s, near) : cap[e] > 0}

(* AddMessage: the ears that can afford the message take it.               *)
Accepted(s, near) == {e \in Addressed(s, near) : cap[e] >= HearDecay}

(* Realize refuses a message with an illegal character, Broadcast one that *)
(* is too long; such a message changes nothing.                            *)
Say(s, near) ==
  /\ s \in Present /\ s \in near
  /\ self' = [p \in Players |-> self[p] \/ p \in SelfAddressed(s)]
  /\ box' = [e \in Ears |-> box[e] \/ e \in Accepted(s, near)]
  /\ cap' = [e \in Ears |-> IF e \in Accepted(s, near) THEN cap[e] - HearDecay ELSE cap[e]]
  /\ due' = [e \in Ears |-> IF e \in Accepted(s, near) THEN due[e] + HearDecay ELSE due[e]]
  /\ UNCHANGED team

(* Mutants: no upper bound, and nothing restored when no message came.     *)
RestoredAlways(e) == cap[e] + HearInc
RestoredWhenHeard(e) == IF cap[e] < HearMax /\ box[e] THEN cap[e] + HearInc ELSE cap[e]

(* GetMessage restores the capacity, message or not.                       *)
Restored(e) == IF cap[e] < HearMax THEN cap[e] + HearInc ELSE cap[e]

Sense(p) ==
  /\ p \in Present
  /\ self' = [self EXCEPT ![p] = FALSE]
  /\ box' = [e \in Ears |-> box[e] /\ e[1] # p]
  /\ cap' = [e \in Ears |-> IF e[1] = p THEN Restored(e) ELSE cap[e]]
  /\ due' = [e \in Ears |-> IF e[1] # p THEN due[e]
                            ELSE IF due[e] < HearInc THEN 0 ELSE due[e] - HearInc]
  /\ UNCHANGED team

(* The scene effector creates the robot with a fresh AgentState, the init  *)
(* effector gives it team and number, and the AgentState goes away with    *)
(* the agent.                                                              *)
Create(p) ==
  /\ team[p] = "absent"
  /\ team' = [team EXCEPT ![p] = "none"]
  /\ UNCHANGED <<self, box, cap, due>>

Register(p, side) ==
  /\ team[p] = "none"
  /\ team' = [team EXCEPT ![p] = side]
  /\ UNCHANGED <<self, box, cap, due>>

Leave(p) ==
  /\ p \in Present
  /\ team' = [team EXCEPT ![p] = "absent"]
  /\ self' = [self EXCEPT ![p] = FALSE]
  /\ box' = [e \in Ears |-> box[e] /\ e[1] # p]
  /\ cap' = [e \in Ears |-> IF e[1] = p THEN HearMax ELSE cap[e]]
  /\ due' = [e \in Ears |-> IF e[1] = p THEN 0 ELSE due[e]]

HearNext ==
  \E p \in Players :
    \/ \E near \in SUBSET Players : Say(p, near)
    \/ Sense(p)
    \/ Create(p)
    \/ \E side \in Sides : Register(p, side)
    \/ Leave(p)

HearSpec == HearInit /\ [][HearNext]_hearVars

(* The server queries the perceptors of every agent in every cycle.        *)
FairHearSpec == HearSpec /\ \A p \in Players : WF_hearVars(Sense(p))

-----------------------------------------------------------------------------
(* Of one team a player hears no more than its share, however often and    *)
(* however many speak between two sensings: over any stretch of time the   *)
(* messages taken cost at most HearMax and what the sensings in it gave    *)
(* back (due is the greatest excess over all stretches that end now).      *)
SharesKept == \A e \in Ears : due[e] <= Most

(* The message heard is the first to arrive: AddMessage never puts one     *)
(* over another that the player has not sensed yet.  It does not look at   *)
(* the box, only at the capacity.                                          *)
NothingOverwritten ==
  [][\A e \in Ears : cap'[e] < cap[e] /\ team'[e[1]] # "absent" => ~box[e]]_hearVars

(* A player is not kept deaf by those who shout at it all the time: as     *)
(* long as it senses, it can again and again afford a message.             *)
NeverDeaf == \A e \in Ears : []<>(cap[e] >= HearDecay)
=============================================================================
