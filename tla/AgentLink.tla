------------------------------ MODULE AgentLink -----------------------------
(***************************************************************************)
(* What agents send to the server: NetControl reads it from the TCP        *)
(* connections into one NetBuffer per address, NetMessage cuts it into     *)
(* messages, AgentControl has the agents realize them, and in              *)
(* synchronised mode AgentControl::StartCycle repeats this until every     *)
(* agent has sent its sync command or is given up.                         *)
(*                                                                         *)
(* A message is a length prefix ("head") and a payload, which commands a   *)
(* sync ("syn") or something else ("act"); the network delivers the two    *)
(* apart or together.  What a payload does to the world is left out.  One  *)
(* address is used for several connections one after the other, as a       *)
(* client that binds its port, or a port that comes round again, does.     *)
(***************************************************************************)
EXTENDS Naturals, Sequences

CONSTANTS
  Addrs,         \* addresses (host and port) clients connect from
  SyncMode,      \* mSyncMode
  TimeOut,       \* mSyncTimeOutCount: trials before KillUnSyncAgent (60)
  Warmup,        \* an agent counts as synced in its first cycles (5)
  MaxConnects,   \* bound: connections in all
  MaxMessages    \* bound: messages on one connection

ASSUME LinkNumbers ==
  /\ SyncMode \in BOOLEAN
  /\ TimeOut \in Nat /\ Warmup \in Nat \ {0}
  /\ MaxConnects \in Nat /\ MaxMessages \in Nat

VARIABLES
  link,      \* "off", "queued" (not accepted yet) or "client" (in mClients)
  fin,       \* the client has closed its end
  wire,      \* sent and not read yet
  buf,       \* mBuffers: by address, never erased
  synced,    \* AgentAspect::mIsSynced
  cycles,    \* AgentAspect::mPerceptorCycle, up to Warmup
  closing,   \* mCloseClients, as a set: a second entry of it is only logged
  pc,        \* "read" in StartCycle, "simulate" from there to EndCycle
  trial,     \* n of StartCycle
  first,     \* the next select waits for mReadTimeout
  excl,      \* sockets taken out of client_fds in this call
  connects,  \* bound: connections so far
  realized,  \* history: what was cut out for this connection
  rest,      \* history: how much of an earlier connection it found in the buffer
  answered,  \* history: agents that realized a sync since the last EndCycle
  heard,     \* history: this trial has read something
  idle       \* history: a trial of this StartCycle neither read nor waited

net    == <<link, fin, wire, connects>>
agents == <<synced, cycles>>
loop   == <<pc, trial, first, excl>>
hist   == <<realized, rest, answered, heard, idle>>
vars   == <<net, buf, agents, closing, loop, hist>>

Payloads == {"act", "syn"}
Units    == Payloads \union {"head"}

TypeOK ==
  /\ link \in [Addrs -> {"off", "queued", "client"}]
  /\ fin \in [Addrs -> BOOLEAN]
  /\ wire \in [Addrs -> Seq(Units)]
  /\ buf \in [Addrs -> Seq(Units)]
  /\ synced \in [Addrs -> BOOLEAN]
  /\ cycles \in [Addrs -> 0..Warmup]
  /\ closing \subseteq Addrs
  /\ pc \in {"read", "simulate"}
  /\ trial \in 0..(TimeOut + 1)
  /\ first \in BOOLEAN
  /\ excl \subseteq Addrs
  /\ connects \in 0..MaxConnects
  /\ realized \in [Addrs -> Seq(Units)]
  /\ rest \in [Addrs -> Nat]
  /\ answered \subseteq Addrs
  /\ heard \in BOOLEAN
  /\ idle \in BOOLEAN

Nothing == [a \in Addrs |-> <<>>]
Nowhere == [a \in Addrs |-> FALSE]

Init ==
  /\ link = [a \in Addrs |-> "off"] /\ fin = Nowhere /\ wire = Nothing
  /\ connects = 0
  /\ buf = Nothing
  /\ synced = [a \in Addrs |-> TRUE] /\ cycles = [a \in Addrs |-> 0]
  /\ closing = {}
  /\ pc = "read" /\ trial = 0 /\ first = TRUE /\ excl = {}
  /\ realized = Nothing /\ rest = [a \in Addrs |-> 0] /\ answered = {}
  /\ heard = FALSE /\ idle = FALSE

Clients == {a \in Addrs : link[a] = "client"}

-----------------------------------------------------------------------------
(* The clients.  A connection is queued until the server accepts it, and   *)
(* can be used at once.                                                    *)
Connect(a) ==
  /\ link[a] = "off" /\ connects < MaxConnects
  /\ link' = [link EXCEPT ![a] = "queued"]
  /\ connects' = connects + 1
  /\ realized' = [realized EXCEPT ![a] = <<>>]
  /\ rest' = [rest EXCEPT ![a] = Len(buf[a])]
  /\ UNCHANGED <<fin, wire, buf, agents, closing, loop, answered, heard, idle>>

(* All that is known of a connection: what was cut out for it, what is in  *)
(* its buffer and what is on the way.                                      *)
Stream(a) == realized[a] \o buf[a] \o wire[a]
Sent(a)   == Len(Stream(a)) - rest[a]

Send(a) ==
  /\ link[a] # "off" /\ ~fin[a]
  /\ Sent(a) < 2 * MaxMessages
  /\ \E u \in IF Sent(a) % 2 = 0 THEN {"head"} ELSE Payloads :
       wire' = [wire EXCEPT ![a] = Append(@, u)]
  /\ UNCHANGED <<link, fin, connects, buf, agents, closing, loop, hist>>

Close(a) ==
  /\ link[a] # "off" /\ ~fin[a]
  /\ fin' = [fin EXCEPT ![a] = TRUE]
  /\ UNCHANGED <<link, wire, connects, buf, agents, closing, loop, hist>>

-----------------------------------------------------------------------------
(* ReadTCPMessages: a round reads one fragment from each socket that       *)
(* select found readable; one that has nothing more is at its end.         *)
Ready  == {a \in Clients \ excl : wire[a] # <<>> \/ fin[a]}
Ended  == {a \in Ready : wire[a] = <<>>}

(* Mutant: a fragment replaces what the buffer holds.                      *)
FragmentReplaces(a) == wire[a]

StoreFragment(a) == buf[a] \o wire[a]

ReadRound ==
  /\ pc = "read" /\ Ready # {}
  /\ buf' = [a \in Addrs |-> IF a \in Ready \ Ended THEN StoreFragment(a) ELSE buf[a]]
  /\ wire' = [a \in Addrs |-> IF a \in Ready THEN <<>> ELSE wire[a]]
  /\ excl' = excl \union Ended
  /\ closing' = closing \union Ended
  /\ first' = FALSE
  /\ heard' = (heard \/ Ready # Ended)
  /\ UNCHANGED <<link, fin, connects, agents, pc, trial, realized, rest, answered, idle>>

(* NetMessage::Extract until the buffer holds no complete message.         *)
Whole(a)  == 2 * (Len(buf[a]) \div 2)
Cut(a)    == SubSeq(buf[a], 1, Whole(a))
Left(a)   == SubSeq(buf[a], Whole(a) + 1, Len(buf[a]))

SaysSync(s) ==
  \E i \in 1..Len(s) : i % 2 = 0 /\ s[i - 1] = "head" /\ s[i] = "syn"

(* IsSynced, when the agents in done realized a sync in this trial.        *)
IsSynced(a, done) == a \in done \/ synced[a] \/ cycles[a] < Warmup

(* Mutant: an agent that has sent something is not given up.               *)
UnsyncedSilent(known, done) ==
  {a \in known \ closing : ~IsSynced(a, done) /\ realized[a] = <<>>}

(* KillUnSyncAgent marks these clients.                                    *)
Unsynced(known, done) == {a \in known \ closing : ~IsSynced(a, done)}

(* Select finds nothing more to read, in synchronised mode after a second  *)
(* unless something came first; then connections are accepted, messages    *)
(* cut and realized, agents given up, and StartCycle ends or tries again.  *)
EndTrial ==
  /\ pc = "read" /\ Ready = {}
  /\ LET known == {a \in Addrs : link[a] # "off"}
         done  == {a \in known : SaysSync(Cut(a))}
         late  == SyncMode /\ trial > TimeOut
         gone  == closing \union (IF late THEN Unsynced(known, done) ELSE {})
         over  == ~SyncMode \/ \A a \in known \ gone : IsSynced(a, done)
     IN
     /\ link' = [a \in Addrs |-> IF a \in known THEN "client" ELSE "off"]
     /\ buf' = [a \in Addrs |-> IF a \in known THEN Left(a) ELSE buf[a]]
     /\ realized' = [a \in Addrs |-> IF a \in known THEN realized[a] \o Cut(a) ELSE realized[a]]
     /\ synced' = [a \in Addrs |-> synced[a] \/ a \in done]
     /\ answered' = answered \union done
     /\ closing' = gone
     /\ pc' = IF over THEN "simulate" ELSE "read"
     /\ trial' = IF over THEN 0 ELSE IF late THEN 1 ELSE trial + 1
     /\ idle' = (~over /\ (idle \/ (Clients # {} /\ ~first /\ ~heard)))
  /\ first' = TRUE /\ excl' = {} /\ heard' = FALSE
  /\ UNCHANGED <<fin, wire, connects, cycles, rest>>

(* Mutant: the sync of an earlier cycle still counts.                      *)
SyncStays(a) == synced[a]

AskedAgain(a) == synced[a] /\ ~SyncMode

(* EndCycle closes the connections marked dead and queries the perceptors  *)
(* of the agents that are left; the agent of a closed one is disposed of.  *)
EndCycle ==
  /\ pc = "simulate"
  /\ pc' = "read"
  /\ link' = [a \in Addrs |-> IF a \in closing THEN "off" ELSE link[a]]
  /\ fin' = [a \in Addrs |-> fin[a] /\ a \notin closing]
  /\ wire' = [a \in Addrs |-> IF a \in closing THEN <<>> ELSE wire[a]]
  /\ synced' = [a \in Addrs |-> a \in closing \/ IF a \in Clients THEN AskedAgain(a) ELSE synced[a]]
  /\ cycles' = [a \in Addrs |-> IF a \in closing THEN 0
                                ELSE IF a \in Clients /\ cycles[a] < Warmup THEN cycles[a] + 1
                                ELSE cycles[a]]
  /\ realized' = [a \in Addrs |-> IF a \in closing THEN <<>> ELSE realized[a]]
  /\ rest' = [a \in Addrs |-> IF a \in closing THEN 0 ELSE rest[a]]
  /\ closing' = {} /\ answered' = {}
  /\ UNCHANGED <<connects, buf, trial, first, excl, heard, idle>>

Server == ReadRound \/ EndTrial \/ EndCycle

Next == Server \/ \E a \in Addrs : Connect(a) \/ Send(a) \/ Close(a)

Spec == Init /\ [][Next]_vars

(* The main loop runs on; select returns after its time at the latest.     *)
FairSpec == Spec /\ WF_vars(Server)

-----------------------------------------------------------------------------
(* What the agent of a connection realizes is what the client sent: whole  *)
(* messages, however they were cut on the way and whatever other clients   *)
(* do, unless the buffer of the address held an unfinished message of an   *)
(* earlier connection.                                                     *)
MessagesWhole ==
  \A a \in Addrs : link[a] # "off" /\ rest[a] = 0 =>
    \A i \in 1..Len(Stream(a)) : (Stream(a)[i] = "head") <=> (i % 2 = 1)

(* In synchronised mode the server goes on to the next cycle only when     *)
(* every agent that is past its first cycles and not given up has answered *)
(* since the cycle before.                                                 *)
InStep ==
  [][EndCycle /\ SyncMode =>
       \A a \in Clients \ closing : cycles[a] < Warmup \/ a \in answered]_vars

(* No client can hold the simulation for ever: StartCycle returns.         *)
StartCycleReturns == pc = "read" ~> pc = "simulate"

(* Claimed, and violated: an agent is given up only after trials that have *)
(* read a message or waited for one.                                       *)
PatientKill ==
  [][EndTrial => (closing' # closing => ~idle)]_vars
=============================================================================
