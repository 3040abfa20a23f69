-------------------------- MODULE AgentLink_proofs --------------------------
(***************************************************************************)
(* The connections for every set of addresses and all numbers: messages    *)
(* come out as they were sent, and in synchronised mode no agent that      *)
(* counts is left behind.                                                  *)
(***************************************************************************)
EXTENDS AgentLink, SequenceTheorems, TLAPS

(* Only the server's clients have had cycles and can be marked.            *)
ClientInv ==
  /\ closing \subseteq Clients
  /\ \A a \in Addrs : link[a] # "client" => cycles[a] = 0
  /\ \A a \in Addrs : link[a] = "off" => wire[a] = <<>>

(* Past the first cycles an agent counts as synced for a sync it realized  *)
(* after the last EndCycle; with the simulation waits nobody who does not. *)
SyncInv ==
  SyncMode =>
    /\ \A a \in Addrs : synced[a] => a \in answered \/ cycles[a] < Warmup
    /\ pc = "simulate" => \A a \in Clients \ closing : IsSynced(a, {})

IInv == TypeOK /\ ClientInv /\ SyncInv /\ MessagesWhole

(* Prefixes and payloads in turn.                                          *)
Alternates(s) == \A i \in 1..Len(s) : (s[i] = "head") <=> (i % 2 = 1)

-----------------------------------------------------------------------------
LEMMA Associative == \A s, t, u \in Seq(Units) : (s \o t) \o u = s \o (t \o u)
BY ConcatAssociative

(* NetMessage::Extract splits the buffer and loses nothing of it.          *)
LEMMA CutAndLeft ==
  ASSUME TypeOK, NEW a \in Addrs
  PROVE  /\ Cut(a) \in Seq(Units) /\ Left(a) \in Seq(Units)
         /\ Cut(a) \o Left(a) = buf[a]
<1>1. buf[a] \in Seq(Units) /\ Len(buf[a]) \in Nat
  BY LenProperties DEF TypeOK
<1>2. Whole(a) \in Nat /\ Whole(a) <= Len(buf[a])
  <2>1. \A n \in Nat : n \div 2 \in Nat /\ 2 * (n \div 2) <= n
    OBVIOUS
  <2>2. PICK h \in Nat : h = Len(buf[a]) \div 2 /\ 2 * h <= Len(buf[a])
    BY <1>1, <2>1
  <2>3. Whole(a) = 2 * h
    BY <2>2 DEF Whole
  <2>4. 2 * h \in Nat
    OBVIOUS
  <2> HIDE DEF Whole
  <2> QED BY <2>2, <2>3, <2>4
<1>3. \A i \in 1..Len(buf[a]) : buf[a][i] \in Units
  BY <1>1, ElementOfSeq
<1>4. Cut(a) \in Seq(Units)
  <2>1. \A i \in 1..Whole(a) : buf[a][i] \in Units
    BY <1>1, <1>2, <1>3
  <2> QED BY <1>2, <2>1, SubSeqProperties DEF Cut
<1>5. Left(a) \in Seq(Units)
  <2>1. \A i \in Whole(a) + 1..Len(buf[a]) : buf[a][i] \in Units
    BY <1>1, <1>2, <1>3
  <2> QED BY <1>1, <1>2, <2>1, SubSeqProperties DEF Left
<1>6. Cut(a) \o Left(a) = SubSeq(buf[a], 1, Len(buf[a]))
  <2>1. 1 \in 1..Len(buf[a]) + 1 /\ Whole(a) \in 0..Len(buf[a]) /\ Len(buf[a]) \in Whole(a)..Len(buf[a])
    BY <1>1, <1>2
  <2>2. SubSeq(buf[a], 1, Whole(a)) \o SubSeq(buf[a], Whole(a) + 1, Len(buf[a]))
          = SubSeq(buf[a], 1, Len(buf[a]))
    <3>1. 0 = 1 - 1
      OBVIOUS
    <3> QED BY <1>1, <2>1, <3>1, ConcatAdjacentSubSeq, Zenon
  <2> QED BY <2>2 DEF Cut, Left
<1> QED BY <1>1, <1>4, <1>5, <1>6, SubSeqFull

LEMMA StreamType ==
  ASSUME TypeOK, NEW a \in Addrs
  PROVE  Stream(a) \in Seq(Units) /\ Len(Stream(a)) \in Nat
<1>1. realized[a] \in Seq(Units) /\ buf[a] \in Seq(Units) /\ wire[a] \in Seq(Units)
  BY DEF TypeOK
<1>2. Stream(a) \in Seq(Units)
  BY <1>1, ConcatProperties DEF Stream
<1> QED BY <1>2, LenProperties

(* Moving units from the wire to the buffer, and from there to the agent,  *)
(* leaves the stream as it was.                                            *)
LEMMA ReadKeepsStream ==
  ASSUME TypeOK, NEW a \in Addrs
  PROVE  (realized[a] \o (buf[a] \o wire[a])) \o <<>> = Stream(a)
<1>1. realized[a] \in Seq(Units) /\ buf[a] \in Seq(Units) /\ wire[a] \in Seq(Units)
  BY DEF TypeOK
<1>2. realized[a] \o (buf[a] \o wire[a]) = Stream(a)
  BY <1>1, Associative DEF Stream
<1> QED BY <1>2, StreamType, ConcatEmptySeq

LEMMA CutKeepsStream ==
  ASSUME TypeOK, NEW a \in Addrs
  PROVE  ((realized[a] \o Cut(a)) \o Left(a)) \o wire[a] = Stream(a)
<1>1. realized[a] \in Seq(Units)
  BY DEF TypeOK
<1>2. (realized[a] \o Cut(a)) \o Left(a) = realized[a] \o (Cut(a) \o Left(a))
  BY <1>1, CutAndLeft, Associative
<1> QED BY <1>2, CutAndLeft DEF Stream

(* What is sent comes last.                                                *)
LEMMA SendExtendsStream ==
  ASSUME TypeOK, NEW a \in Addrs, NEW u \in Units
  PROVE  (realized[a] \o buf[a]) \o Append(wire[a], u) = Append(Stream(a), u)
<1>1. realized[a] \in Seq(Units) /\ buf[a] \in Seq(Units) /\ wire[a] \in Seq(Units)
  BY DEF TypeOK
<1>2. realized[a] \o buf[a] \in Seq(Units)
  BY <1>1, ConcatProperties
<1>3. Append(wire[a], u) = wire[a] \o <<u>>
  BY <1>1, AppendIsConcat
<1>4. <<u>> \in Seq(Units)
  OBVIOUS
<1>5. (realized[a] \o buf[a]) \o (wire[a] \o <<u>>) = Stream(a) \o <<u>>
  BY <1>1, <1>2, <1>4, Associative DEF Stream
<1> QED BY <1>3, <1>5, StreamType, AppendIsConcat

LEMMA AppendAlternates ==
  ASSUME NEW s \in Seq(Units), Alternates(s), NEW u \in Units,
         (u = "head") <=> (Len(s) % 2 = 0)
  PROVE  Alternates(Append(s, u))
<1>1. Len(s) \in Nat
  BY LenProperties
<1>2. /\ Len(Append(s, u)) = Len(s) + 1
      /\ \A i \in 1..Len(s) : Append(s, u)[i] = s[i]
      /\ Append(s, u)[Len(s) + 1] = u
  BY AppendProperties
<1>3. (Len(s) + 1) % 2 = 1 <=> Len(s) % 2 = 0
  BY <1>1
<1> QED BY <1>1, <1>2, <1>3 DEF Alternates

(* Messages stay whole where the streams stay as they are.                 *)
LEMMA SameStreams ==
  ASSUME MessagesWhole,
         \A a \in Addrs : link'[a] # "off" /\ rest'[a] = 0 =>
           link[a] # "off" /\ rest[a] = 0 /\ Stream(a)' = Stream(a)
  PROVE  MessagesWhole'
BY DEF MessagesWhole

-----------------------------------------------------------------------------
LEMMA InitIInv == ASSUME Init PROVE IInv
<1> USE LinkNumbers
<1>1. /\ fin \in [Addrs -> BOOLEAN] /\ synced \in [Addrs -> BOOLEAN]
      /\ first \in BOOLEAN /\ heard \in BOOLEAN /\ idle \in BOOLEAN
  BY Zenon DEF Init, Nowhere
<1>2. Nothing \in [Addrs -> Seq(Units)]
  BY DEF Nothing
<1>3. link \in [Addrs -> {"off", "queued", "client"}] /\ pc \in {"read", "simulate"}
  BY DEF Init
<1>4. cycles \in [Addrs -> 0..Warmup] /\ rest \in [Addrs -> Nat]
  BY DEF Init
<1>5. TypeOK
  BY <1>1, <1>2, <1>3, <1>4 DEF Init, TypeOK
<1>6. ClientInv
  BY DEF Init, ClientInv, Clients, Nothing
<1>7. SyncInv /\ MessagesWhole
  BY DEF Init, SyncInv, MessagesWhole, Clients
<1> QED BY <1>5, <1>6, <1>7 DEF IInv

(* A connection finds nothing on the way; what it finds in the buffer of   *)
(* its address is counted in rest.                                         *)
LEMMA ConnectKeeps == ASSUME IInv, NEW a \in Addrs, Connect(a) PROVE IInv'
<1>1. /\ link[a] = "off" /\ link' = [link EXCEPT ![a] = "queued"]
      /\ realized' = [realized EXCEPT ![a] = <<>>]
      /\ rest' = [rest EXCEPT ![a] = Len(buf[a])]
      /\ connects' = connects + 1 /\ connects < MaxConnects
      /\ UNCHANGED <<fin, wire, buf, synced, cycles, closing, pc, trial, first, excl,
                     answered, heard, idle>>
  BY DEF Connect, agents, loop
<1>2. buf[a] \in Seq(Units) /\ Len(buf[a]) \in Nat
  BY LenProperties DEF IInv, TypeOK
<1>3. TypeOK'
  <2>1. connects' \in 0..MaxConnects
    BY <1>1, LinkNumbers DEF IInv, TypeOK
  <2>2. realized' \in [Addrs -> Seq(Units)]
    BY <1>1 DEF IInv, TypeOK
  <2>3. rest' \in [Addrs -> Nat] /\ link' \in [Addrs -> {"off", "queued", "client"}]
    BY <1>1, <1>2 DEF IInv, TypeOK
  <2> QED BY <1>1, <2>1, <2>2, <2>3 DEF IInv, TypeOK
<1>4. ASSUME NEW b \in Addrs, b # a
      PROVE  link'[b] = link[b] /\ realized'[b] = realized[b] /\ rest'[b] = rest[b]
  BY <1>1, <1>4 DEF IInv, TypeOK
<1>5. link'[a] = "queued" /\ realized'[a] = <<>> /\ rest'[a] = Len(buf[a])
  BY <1>1 DEF IInv, TypeOK
<1>6. Clients' = Clients
  BY <1>1, <1>4, <1>5 DEF Clients
<1>7. ClientInv'
  BY <1>1, <1>4, <1>5, <1>6 DEF IInv, ClientInv
<1>8. SyncInv'
  BY <1>1, <1>6 DEF IInv, SyncInv, IsSynced
<1>9. MessagesWhole'
  <2> SUFFICES ASSUME NEW b \in Addrs, link'[b] # "off", rest'[b] = 0
               PROVE  \A i \in 1..Len(Stream(b)') : (Stream(b)'[i] = "head") <=> (i % 2 = 1)
    BY DEF MessagesWhole
  <2>1. CASE b = a
    <3>1. buf[a] = <<>>
      BY <1>2, <1>5, <2>1, EmptySeq
    <3>2. wire[a] = <<>>
      BY <1>1 DEF IInv, ClientInv
    <3>3. Stream(b)' = (<<>> \o <<>>) \o <<>>
      BY <1>1, <1>5, <2>1, <3>1, <3>2 DEF Stream
    <3>4. Stream(b)' = <<>>
      BY <3>3
    <3> QED BY <3>4
  <2>2. CASE b # a
    <3>1. Stream(b)' = Stream(b)
      BY <1>1, <1>4, <2>2 DEF Stream
    <3> QED BY <1>4, <2>2, <3>1 DEF IInv, MessagesWhole
  <2> QED BY <2>1, <2>2
<1> QED BY <1>3, <1>7, <1>8, <1>9 DEF IInv

(* A client sends a prefix when it has sent whole messages, and then a     *)
(* payload.                                                                *)
LEMMA SendKeeps == ASSUME IInv, NEW a \in Addrs, Send(a) PROVE IInv'
<1>1. /\ link[a] # "off"
      /\ UNCHANGED <<link, fin, connects, buf, synced, cycles, closing, pc, trial, first, excl,
                     realized, rest, answered, heard, idle>>
  BY DEF Send, agents, loop, hist
<1>2. PICK u \in IF Sent(a) % 2 = 0 THEN {"head"} ELSE Payloads :
             wire' = [wire EXCEPT ![a] = Append(@, u)]
  BY DEF Send
<1>3. u \in Units /\ (u = "head" <=> Sent(a) % 2 = 0)
  BY <1>2 DEF Payloads, Units
<1>4. wire \in [Addrs -> Seq(Units)]
  BY DEF IInv, TypeOK
<1>5. wire'[a] = Append(wire[a], u) /\ \A b \in Addrs : b # a => wire'[b] = wire[b]
  BY <1>2, <1>4
<1>6. TypeOK'
  <2>1. Append(wire[a], u) \in Seq(Units)
    BY <1>3, <1>4, AppendProperties
  <2>2. wire' \in [Addrs -> Seq(Units)]
    BY <1>2, <1>4, <2>1
  <2> QED BY <1>1, <2>2 DEF IInv, TypeOK
<1>7. ClientInv'
  BY <1>1, <1>5 DEF IInv, ClientInv, Clients
<1>8. SyncInv'
  BY <1>1 DEF IInv, SyncInv, IsSynced, Clients
<1>9. MessagesWhole'
  <2> SUFFICES ASSUME NEW b \in Addrs, link[b] # "off", rest[b] = 0
               PROVE  Alternates(Stream(b)')
    BY <1>1 DEF MessagesWhole, Alternates
  <2>1. Alternates(Stream(b))
    BY DEF IInv, MessagesWhole, Alternates
  <2>2. CASE b = a
    <3>1. Stream(b)' = Append(Stream(a), u)
      BY <1>1, <1>3, <1>5, <2>2, SendExtendsStream DEF Stream, IInv
    <3>2. Stream(a) \in Seq(Units) /\ Len(Stream(a)) \in Nat
      BY StreamType DEF IInv
    <3>3. Sent(a) = Len(Stream(a))
      BY <2>2, <3>2 DEF Sent
    <3> QED BY <1>3, <2>1, <2>2, <3>1, <3>2, <3>3, AppendAlternates
  <2>3. CASE b # a
    <3>1. Stream(b)' = Stream(b)
      BY <1>1, <1>5, <2>3 DEF Stream
    <3> QED BY <2>1, <3>1
  <2> QED BY <2>2, <2>3
<1> QED BY <1>6, <1>7, <1>8, <1>9 DEF IInv

LEMMA CloseKeeps == ASSUME IInv, (\E a \in Addrs : Close(a)) \/ UNCHANGED vars PROVE IInv'
<1>1. UNCHANGED <<link, wire, connects, buf, synced, cycles, closing, pc, trial, first, excl,
                  realized, rest, answered, heard, idle>>
  BY DEF Close, vars, net, agents, loop, hist
<1>2. fin' \in [Addrs -> BOOLEAN]
  BY DEF Close, vars, net, IInv, TypeOK
<1>3. TypeOK'
  BY <1>1, <1>2 DEF IInv, TypeOK
<1>4. ClientInv' /\ SyncInv'
  BY <1>1 DEF IInv, ClientInv, SyncInv, IsSynced, Clients
<1>5. MessagesWhole'
  BY <1>1 DEF IInv, MessagesWhole, Stream
<1> QED BY <1>3, <1>4, <1>5 DEF IInv

-----------------------------------------------------------------------------
(* A round of reading moves what is on the way into the buffers.           *)
LEMMA ReadRoundKeeps == ASSUME IInv, ReadRound PROVE IInv'
<1>1. /\ pc = "read" /\ excl' = excl \union Ended /\ closing' = closing \union Ended
      /\ first' = FALSE /\ heard' = (heard \/ Ready # Ended)
      /\ UNCHANGED <<link, fin, connects, synced, cycles, pc, trial, realized, rest, answered, idle>>
  BY DEF ReadRound, agents
<1>2. /\ buf' = [a \in Addrs |-> IF a \in Ready \ Ended THEN StoreFragment(a) ELSE buf[a]]
      /\ wire' = [a \in Addrs |-> IF a \in Ready THEN <<>> ELSE wire[a]]
  BY DEF ReadRound
<1>3. Ended \subseteq Ready /\ Ready \subseteq Clients /\ Clients \subseteq Addrs
  BY DEF Ended, Ready, Clients
<1>4. ASSUME NEW a \in Addrs
      PROVE  StoreFragment(a) \in Seq(Units) /\ buf[a] \in Seq(Units) /\ wire[a] \in Seq(Units)
  BY ConcatProperties DEF StoreFragment, IInv, TypeOK
<1>5. TypeOK'
  <2>1. buf' \in [Addrs -> Seq(Units)] /\ wire' \in [Addrs -> Seq(Units)]
    <3>1. <<>> \in Seq(Units)
      OBVIOUS
    <3> HIDE DEF Ready, Ended, StoreFragment
    <3> QED BY <1>2, <1>4, <3>1
  <2>2. excl' \subseteq Addrs /\ closing' \subseteq Addrs
    BY <1>1, <1>3 DEF IInv, TypeOK
  <2>3. first' \in BOOLEAN /\ heard' \in BOOLEAN
    BY <1>1, Zenon
  <2> QED BY <1>1, <2>1, <2>2, <2>3 DEF IInv, TypeOK
<1>6. Clients' = Clients
  BY <1>1 DEF Clients
<1>7. ClientInv'
  <2>1. \A a \in Addrs : link[a] = "off" => wire'[a] = <<>>
    BY <1>2 DEF IInv, ClientInv
  <2> QED BY <1>1, <1>3, <1>6, <2>1 DEF IInv, ClientInv
<1>8. SyncInv'
  BY <1>1 DEF IInv, SyncInv
<1>9. ASSUME NEW a \in Addrs PROVE Stream(a)' = Stream(a)
  <2>1. CASE a \in Ready \ Ended
    <3>1. buf'[a] = buf[a] \o wire[a] /\ wire'[a] = <<>> /\ realized'[a] = realized[a]
      BY <1>1, <1>2, <2>1 DEF StoreFragment
    <3> QED BY <3>1, ReadKeepsStream, ConcatAssociative DEF Stream, IInv
  <2>2. CASE a \in Ended
    <3>1. wire[a] = <<>>
      BY <2>2 DEF Ended
    <3>2. buf'[a] = buf[a] /\ wire'[a] = <<>>
      BY <1>2, <1>3, <2>2
    <3> QED BY <1>1, <3>1, <3>2 DEF Stream
  <2>3. CASE a \notin Ready
    <3>1. buf'[a] = buf[a] /\ wire'[a] = wire[a]
      BY <1>2, <2>3
    <3> QED BY <1>1, <3>1 DEF Stream
  <2> QED BY <2>1, <2>2, <2>3
<1>10. MessagesWhole'
  BY <1>1, <1>9, SameStreams DEF IInv
<1> QED BY <1>5, <1>7, <1>8, <1>10 DEF IInv

(* The end of a trial: messages go from the buffers to the agents, and the *)
(* simulation goes on when all agents that are kept are synced.            *)
LEMMA EndTrialKeeps == ASSUME IInv, EndTrial PROVE IInv'
<1> DEFINE known == {a \in Addrs : link[a] # "off"}
           done  == {a \in known : SaysSync(Cut(a))}
           late  == SyncMode /\ trial > TimeOut
           gone  == closing \union (IF late THEN Unsynced(known, done) ELSE {})
           over  == ~SyncMode \/ \A a \in known \ gone : IsSynced(a, done)
<1>1. /\ link' = [a \in Addrs |-> IF a \in known THEN "client" ELSE "off"]
      /\ buf' = [a \in Addrs |-> IF a \in known THEN Left(a) ELSE buf[a]]
      /\ realized' = [a \in Addrs |-> IF a \in known THEN realized[a] \o Cut(a) ELSE realized[a]]
      /\ synced' = [a \in Addrs |-> synced[a] \/ a \in done]
      /\ answered' = answered \union done /\ closing' = gone
      /\ pc' = IF over THEN "simulate" ELSE "read"
      /\ trial' = IF over THEN 0 ELSE IF late THEN 1 ELSE trial + 1
  BY DEF EndTrial
<1>2. /\ first' = TRUE /\ excl' = {} /\ heard' = FALSE
      /\ UNCHANGED <<fin, wire, connects, cycles, rest>>
  BY DEF EndTrial
<1>3. idle' \in BOOLEAN
  BY Zenon DEF EndTrial
<1>4. known \subseteq Addrs /\ done \subseteq known /\ Clients \subseteq known
  BY DEF Clients
<1>5. gone \subseteq known
  BY <1>4 DEF Unsynced, IInv, ClientInv
<1>6. Clients' = known
  BY <1>1 DEF Clients
<1>7. ASSUME NEW a \in Addrs
      PROVE  Left(a) \in Seq(Units) /\ realized[a] \o Cut(a) \in Seq(Units)
  BY CutAndLeft, ConcatProperties DEF IInv, TypeOK
<1>8. ~over => SyncMode
  OBVIOUS
<1> HIDE DEF known, done, over
<1>9. TypeOK'
  <2>1. link' \in [Addrs -> {"off", "queued", "client"}]
    BY <1>1
  <2>2. buf' \in [Addrs -> Seq(Units)] /\ realized' \in [Addrs -> Seq(Units)]
    BY <1>1, <1>7 DEF IInv, TypeOK
  <2>3. synced' \in [Addrs -> BOOLEAN]
    BY <1>1, Zenon
  <2>4. trial' \in 0..(TimeOut + 1)
    BY <1>1, <1>8, LinkNumbers DEF IInv, TypeOK
  <2>5. first' \in BOOLEAN /\ heard' \in BOOLEAN
    BY <1>2, Zenon
  <2>6. closing' \subseteq Addrs /\ answered' \subseteq Addrs
    BY <1>1, <1>4, <1>5 DEF IInv, TypeOK
  <2>7. pc' \in {"read", "simulate"}
    BY <1>1
  <2> QED BY <1>2, <1>3, <2>1, <2>2, <2>3, <2>4, <2>5, <2>6, <2>7 DEF IInv, TypeOK
<1>10. ClientInv'
  <2>1. \A a \in Addrs : link'[a] # "client" => link[a] = "off"
    BY <1>1 DEF known
  <2>2. \A a \in Addrs : link'[a] = "off" => link[a] = "off"
    BY <1>1 DEF known
  <2> QED BY <1>1, <1>2, <1>5, <1>6, <2>1, <2>2 DEF IInv, ClientInv
<1>11. SyncInv'
  <2> SUFFICES ASSUME SyncMode
               PROVE  /\ \A a \in Addrs : synced'[a] => a \in answered' \/ cycles'[a] < Warmup
                      /\ pc' = "simulate" => \A a \in known \ gone : IsSynced(a, {})'
    BY <1>1, <1>6 DEF SyncInv
  <2>1. ASSUME NEW a \in Addrs, synced'[a] PROVE a \in answered' \/ cycles'[a] < Warmup
    BY <1>1, <1>2, <2>1 DEF IInv, SyncInv
  <2>2. ASSUME pc' = "simulate", NEW a \in known \ gone PROVE IsSynced(a, {})'
    <3>1. over
      BY <1>1, <2>2
    <3>2. IsSynced(a, done)
      BY <3>1 DEF over
    <3>3. a \in Addrs
      BY <1>4
    <3> QED BY <1>1, <1>2, <3>2, <3>3 DEF IsSynced
  <2> QED BY <2>1, <2>2
<1>12. ASSUME NEW a \in Addrs PROVE Stream(a)' = Stream(a)
  <2>1. CASE a \in known
    <3>1. buf'[a] = Left(a) /\ realized'[a] = realized[a] \o Cut(a) /\ wire'[a] = wire[a]
      BY <1>1, <1>2, <2>1
    <3> QED BY <3>1, CutKeepsStream DEF Stream, IInv
  <2>2. CASE a \notin known
    BY <1>1, <1>2, <2>2 DEF Stream
  <2> QED BY <2>1, <2>2
<1>13. MessagesWhole'
  <2>1. \A a \in Addrs : link'[a] # "off" => link[a] # "off"
    BY <1>1 DEF known
  <2> QED BY <1>2, <1>12, <2>1, SameStreams DEF IInv
<1> QED BY <1>9, <1>10, <1>11, <1>13 DEF IInv

(* The end of the cycle: connections marked dead go, and whoever is left   *)
(* has to answer anew.                                                     *)
LEMMA EndCycleKeeps == ASSUME IInv, EndCycle PROVE IInv'
<1>1. /\ pc = "simulate" /\ pc' = "read"
      /\ link' = [a \in Addrs |-> IF a \in closing THEN "off" ELSE link[a]]
      /\ wire' = [a \in Addrs |-> IF a \in closing THEN <<>> ELSE wire[a]]
      /\ cycles' = [a \in Addrs |-> IF a \in closing THEN 0
                                    ELSE IF a \in Clients /\ cycles[a] < Warmup THEN cycles[a] + 1
                                    ELSE cycles[a]]
      /\ realized' = [a \in Addrs |-> IF a \in closing THEN <<>> ELSE realized[a]]
      /\ rest' = [a \in Addrs |-> IF a \in closing THEN 0 ELSE rest[a]]
      /\ closing' = {} /\ answered' = {}
      /\ UNCHANGED <<connects, buf, trial, first, excl, heard, idle>>
  BY DEF EndCycle
<1>2. synced' = [a \in Addrs |-> a \in closing \/ IF a \in Clients THEN AskedAgain(a) ELSE synced[a]]
  BY DEF EndCycle
<1>3. TypeOK'
  <2>1. fin' \in [Addrs -> BOOLEAN]
    BY Zenon DEF EndCycle
  <2>2. synced' \in [Addrs -> BOOLEAN]
    BY <1>2 DEF AskedAgain, IInv, TypeOK
  <2>3. cycles' \in [Addrs -> 0..Warmup]
    BY <1>1, LinkNumbers DEF IInv, TypeOK
  <2>4. wire' \in [Addrs -> Seq(Units)] /\ realized' \in [Addrs -> Seq(Units)]
    BY <1>1 DEF IInv, TypeOK
  <2>5. link' \in [Addrs -> {"off", "queued", "client"}] /\ rest' \in [Addrs -> Nat]
    BY <1>1 DEF IInv, TypeOK
  <2> QED BY <1>1, <2>1, <2>2, <2>3, <2>4, <2>5 DEF IInv, TypeOK
<1>4. ClientInv'
  <2>1. \A a \in Addrs : link'[a] # "client" => cycles'[a] = 0
    BY <1>1 DEF IInv, ClientInv, Clients
  <2>2. \A a \in Addrs : link'[a] = "off" => wire'[a] = <<>>
    BY <1>1 DEF IInv, ClientInv
  <2> QED BY <1>1, <2>1, <2>2 DEF ClientInv
<1>5. SyncInv'
  <2> SUFFICES ASSUME SyncMode, NEW a \in Addrs, synced'[a] PROVE cycles'[a] < Warmup
    BY <1>1 DEF SyncInv
  <2>1. CASE a \in closing
    BY <1>1, <2>1, LinkNumbers
  <2>2. CASE a \notin closing /\ a \in Clients
    BY <1>2, <2>2 DEF AskedAgain
  <2>3. CASE a \notin closing /\ a \notin Clients
    <3>1. link[a] # "client"
      BY <2>3 DEF Clients
    <3>2. cycles[a] = 0
      BY <3>1 DEF IInv, ClientInv
    <3> QED BY <1>1, <2>3, <3>2, LinkNumbers
  <2> QED BY <2>1, <2>2, <2>3
<1>6. MessagesWhole'
  <2>1. ASSUME NEW a \in Addrs, link'[a] # "off"
        PROVE  link[a] # "off" /\ rest'[a] = rest[a] /\ Stream(a)' = Stream(a)
    BY <1>1, <2>1 DEF Stream
  <2> QED BY <2>1, SameStreams DEF IInv
<1> QED BY <1>3, <1>4, <1>5, <1>6 DEF IInv

LEMMA NextIInv == ASSUME IInv, [Next]_vars PROVE IInv'
<1>1. CASE \E a \in Addrs : Connect(a)
  BY <1>1, ConnectKeeps
<1>2. CASE \E a \in Addrs : Send(a)
  BY <1>2, SendKeeps
<1>3. CASE (\E a \in Addrs : Close(a)) \/ UNCHANGED vars
  BY <1>3, CloseKeeps
<1>4. CASE Server
  BY <1>4, ReadRoundKeeps, EndTrialKeeps, EndCycleKeeps DEF Server
<1> QED BY <1>1, <1>2, <1>3, <1>4 DEF Next

LEMMA Inductive == Spec => []IInv
<1>1. Init => IInv
  BY InitIInv
<1>2. IInv /\ [Next]_vars => IInv'
  BY NextIInv
<1> QED BY <1>1, <1>2, PTL DEF Spec

-----------------------------------------------------------------------------
(* Type correctness of the connections.                                    *)
THEOREM LinkTypes == Spec => []TypeOK
<1>1. IInv => TypeOK
  BY DEF IInv
<1> QED BY <1>1, Inductive, PTL

(* NetControl and NetMessage give an agent whole messages, however they    *)
(* arrive, if its address left nothing unfinished behind.                  *)
THEOREM MessagesAreWhole == Spec => []MessagesWhole
<1>1. IInv => MessagesWhole
  BY DEF IInv
<1> QED BY <1>1, Inductive, PTL

(* AgentControl::StartCycle lets the simulation go on only when every      *)
(* agent that counts has answered since the last EndCycle.                 *)
THEOREM AgentsInStep == Spec => InStep
<1>1. IInv => (EndCycle /\ SyncMode =>
                 \A a \in Clients \ closing : cycles[a] < Warmup \/ a \in answered)
  <2> SUFFICES ASSUME IInv, EndCycle, SyncMode, NEW a \in Clients \ closing
               PROVE  cycles[a] < Warmup \/ a \in answered
    OBVIOUS
  <2>1. IsSynced(a, {}) /\ a \in Addrs
    BY DEF IInv, SyncInv, EndCycle, Clients
  <2> QED BY <2>1 DEF IsSynced, IInv, SyncInv
<1> QED BY <1>1, Inductive, PTL DEF InStep
=============================================================================
