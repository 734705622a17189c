---------------------------- MODULE StatsdProofs ----------------------------
(* Theorems about StatsdServer, for any clients, processors and limits.      *)
EXTENDS StatsdServer, FiniteSetTheorems, SequenceTheorems, TLAPS

Places   == {"none", "top", "read", "send", "ended"}
Reading  == {"top", "read", "send"}

(* The type invariant in parts.                                              *)
ReadersOK ==
    /\ at \in [Sources -> Places] /\ sent \in [Sources -> Nat]
    /\ overwritten \in SUBSET PacketType

QueueOK == queue \in Seq(PacketType) /\ Len(queue) <= QueueSize

TcpOK ==
    /\ client \in [Clients -> {"away", "dialled", "open", "gone", "refused"}]
    /\ handler \in {"top", "accept", "track", "ended"} /\ accepted \in Sources
    /\ eof \in SUBSET Clients /\ unfair \in SUBSET Clients

ProcsOK ==
    /\ proc \in [Processors -> {"take", "ended"}]
    /\ taken \in Seq(PacketType) /\ garbled \in SUBSET PacketType

FlagsOK ==
    /\ ctxDone \in BOOLEAN /\ closed \in BOOLEAN
    /\ run \in {"up", "returned", "exited", "panicked"}

(* The limit is tested one step before a connection is put on the list, by   *)
(* the goroutine that puts it there: meanwhile the list only gets shorter.   *)
SlotInv ==
    /\ tracked \in SUBSET Clients
    /\ Cardinality(tracked) <= MaxConnections + 1
    /\ handler = "track" => accepted \in Clients /\ Cardinality(tracked) <= MaxConnections
    /\ \A c \in Clients : at[c] \in Reading => c \in tracked

IInv == ReadersOK /\ QueueOK /\ TcpOK /\ ProcsOK /\ FlagsOK /\ SlotInv

LEMMA PacketIsPacket ==
    ASSUME ReadersOK, NEW s \in Sources PROVE Packet(s, sent[s]) \in PacketType
  BY DEF ReadersOK, Packet, PacketType

LEMMA TrackedIsFinite ==
    ASSUME NEW S \in SUBSET Clients PROVE IsFiniteSet(S) /\ Cardinality(S) \in Nat
  BY StatsdAssumption, FS_Subset, FS_CardinalityType DEF StatsdAssumption

(* Parts of the invariant that a step leaves alone.                          *)
LEMMA ReadersKept == ASSUME ReadersOK, UNCHANGED <<at, sent, overwritten>> PROVE ReadersOK'
  BY DEF ReadersOK
LEMMA QueueKept == ASSUME QueueOK, UNCHANGED queue PROVE QueueOK'
  BY DEF QueueOK
LEMMA TcpKept == ASSUME TcpOK, UNCHANGED <<client, handler, accepted, eof, unfair>> PROVE TcpOK'
  BY DEF TcpOK
LEMMA ProcsKept == ASSUME ProcsOK, UNCHANGED procVars PROVE ProcsOK'
  BY DEF ProcsOK, procVars
LEMMA FlagsKept == ASSUME FlagsOK, UNCHANGED <<ctxDone, closed, run>> PROVE FlagsOK'
  BY DEF FlagsOK
LEMMA SlotsKept ==
    ASSUME SlotInv, UNCHANGED <<tracked, accepted>>, handler' = "track" => handler = "track",
           \A c \in Clients : at'[c] \in Reading => at[c] \in Reading
    PROVE  SlotInv'
  BY DEF SlotInv

(* A reader that ends gives its slot back.                                   *)
LEMMA SlotFreed ==
    ASSUME SlotInv, ReadersOK, UNCHANGED <<handler, accepted>>, NEW s \in Sources,
           tracked' = tracked \ {s}, Goto(s, "ended")
    PROVE  SlotInv'
  <1>1. /\ tracked' \in SUBSET Clients
        /\ Cardinality(tracked') <= Cardinality(tracked)
        /\ Cardinality(tracked') \in Nat /\ Cardinality(tracked) \in Nat
    BY TrackedIsFinite, FS_Subset DEF SlotInv
  <1>2. MaxConnections \in Nat
    BY StatsdAssumption DEF StatsdAssumption
  <1>3. \A c \in Clients : at'[c] \in Reading => c # s /\ at[c] \in Reading
    BY DEF Goto, ReadersOK, Reading, Places, Sources
  <1> QED BY <1>1, <1>2, <1>3 DEF SlotInv

LEMMA InitIInv == ASSUME Init PROVE IInv
  <1>1. <<>> \in Seq(PacketType) /\ Len(<<>>) = 0
    OBVIOUS
  <1>2. ReadersOK
    BY DEF Init, ReadersOK, Places
  <1>3. QueueOK
    BY <1>1, StatsdAssumption DEF Init, QueueOK, StatsdAssumption
  <1>4. TcpOK
    BY DEF Init, TcpOK, Sources
  <1>5. ProcsOK /\ FlagsOK
    BY <1>1 DEF Init, ProcsOK, FlagsOK
  <1>6. SlotInv
    BY StatsdAssumption, FS_EmptySet DEF Init, StatsdAssumption, SlotInv, Sources, Reading
  <1> QED BY <1>2, <1>3, <1>4, <1>5, <1>6 DEF IInv

-----------------------------------------------------------------------------
(* The readers.                                                              *)

LEMMA TestDoneIInv == ASSUME IInv, NEW s \in Sources, TestDone(s) PROVE IInv'
  <1>1. QueueOK' /\ TcpOK' /\ ProcsOK' /\ FlagsOK'
    BY QueueKept, TcpKept, ProcsKept, FlagsKept DEF IInv, TestDone, ReadersOnly
  <1>2. ReadersOK'
    BY DEF IInv, ReadersOK, Places, TestDone, Goto
  <1>3. SlotInv'
    <2>1. CASE ctxDone
      BY <2>1, SlotFreed DEF IInv, TestDone
    <2>2. CASE ~ctxDone
      <3>1. \A c \in Clients : at'[c] \in Reading => at[c] \in Reading
        BY <2>2 DEF IInv, ReadersOK, TestDone, Goto, Reading, Sources
      <3> QED BY <2>2, <3>1, SlotsKept DEF IInv, TestDone
    <2> QED BY <2>1, <2>2
  <1> QED BY <1>1, <1>2, <1>3 DEF IInv

LEMMA ReadIInv == ASSUME IInv, NEW s \in Sources, Read(s) PROVE IInv'
  <1>1. QueueOK' /\ TcpOK' /\ ProcsOK' /\ FlagsOK'
    BY QueueKept, TcpKept, ProcsKept, FlagsKept DEF IInv, Read, ReadersOnly, tcpVars
  <1>2. ReadersOK'
    <2>1. at' \in [Sources -> Places] /\ sent' \in [Sources -> Nat]
      BY DEF IInv, ReadersOK, Places, Read, Goto
    <2>2. overwritten' \in SUBSET PacketType
      BY DEF IInv, ReadersOK, QueueOK, Read
    <2> QED BY <2>1, <2>2 DEF ReadersOK
  <1>3. SlotInv'
    <2>1. \A c \in Clients : at'[c] \in Reading => at[c] \in Reading
      BY DEF IInv, ReadersOK, Read, Goto, Reading, Sources
    <2> QED BY <2>1, SlotsKept DEF IInv, Read, tcpVars
  <1> QED BY <1>1, <1>2, <1>3 DEF IInv

LEMMA ReadEndsIInv == ASSUME IInv, NEW s \in Sources, ReadEnds(s) PROVE IInv'
  <1>1. QueueOK' /\ TcpOK' /\ ProcsOK' /\ FlagsOK'
    BY QueueKept, TcpKept, ProcsKept, FlagsKept DEF IInv, ReadEnds, ReadersOnly
  <1>2. ReadersOK'
    BY DEF IInv, ReadersOK, Places, ReadEnds, Goto
  <1>3. SlotInv'
    <2>1. CASE s = udp /\ Goto(s, "top") /\ UNCHANGED tracked
      <3>1. \A c \in Clients : at'[c] = at[c]
        BY <2>1, StatsdAssumption DEF StatsdAssumption, IInv, ReadersOK, Goto, Sources
      <3> QED BY <2>1, <3>1, SlotsKept DEF IInv, ReadEnds
    <2>2. CASE Goto(s, "ended") /\ tracked' = tracked \ {s}
      BY <2>2, SlotFreed DEF IInv, ReadEnds
    <2> QED BY <2>1, <2>2 DEF ReadEnds
  <1> QED BY <1>1, <1>2, <1>3 DEF IInv

LEMMA ReadEOFIInv == ASSUME IInv, NEW s \in Sources, ReadEOF(s) PROVE IInv'
  <1>1. ReadersOK' /\ QueueOK' /\ ProcsOK' /\ FlagsOK' /\ SlotInv'
    BY ReadersKept, QueueKept, ProcsKept, FlagsKept, SlotsKept DEF IInv, ReadEOF, ReadersOnly
  <1>2. TcpOK'
    BY DEF IInv, TcpOK, ReadEOF, Sources
  <1> QED BY <1>1, <1>2 DEF IInv

LEMMA ClientResetsIInv == ASSUME IInv, NEW c \in Clients, ClientResets(c) PROVE IInv'
  <1>0. c \in Sources
    BY DEF Sources
  <1>1. QueueOK' /\ ProcsOK' /\ FlagsOK'
    BY QueueKept, ProcsKept, FlagsKept DEF IInv, ClientResets, ReadersOnly
  <1>2. ReadersOK'
    BY <1>0 DEF IInv, ReadersOK, Places, ClientResets, Goto
  <1>3. TcpOK'
    BY DEF IInv, TcpOK, ClientResets
  <1>4. SlotInv'
    BY <1>0, SlotFreed DEF IInv, ClientResets
  <1> QED BY <1>1, <1>2, <1>3, <1>4 DEF IInv

LEMMA SendIInv == ASSUME IInv, NEW s \in Sources, Send(s) PROVE IInv'
  <1>1. TcpOK' /\ ProcsOK' /\ FlagsOK'
    BY TcpKept, ProcsKept, FlagsKept DEF IInv, Send, ReadersOnly, tcpVars
  <1>2. ReadersOK'
    BY DEF IInv, ReadersOK, Places, Send, Goto
  <1>3. QueueOK'
    <2>1. /\ queue' \in Seq(PacketType) /\ Len(queue') = Len(queue) + 1
      BY PacketIsPacket, AppendProperties DEF IInv, QueueOK, Send
    <2> QED BY <2>1, StatsdAssumption DEF StatsdAssumption, IInv, QueueOK, Send
  <1>4. SlotInv'
    <2>1. \A c \in Clients : at'[c] \in Reading => at[c] \in Reading
      BY DEF IInv, ReadersOK, Send, Goto, Reading, Sources
    <2> QED BY <2>1, SlotsKept DEF IInv, Send, tcpVars
  <1> QED BY <1>1, <1>2, <1>3, <1>4 DEF IInv

-----------------------------------------------------------------------------
(* The handler and the clients.                                              *)

LEMMA HandlerIInv ==
    ASSUME IInv, HandlerTestsDone \/ AcceptFails \/ \E c \in Clients : Dial(c) \/ HangUp(c)
    PROVE  IInv'
  <1>1. ReadersOK' /\ QueueOK' /\ ProcsOK' /\ FlagsOK' /\ SlotInv'
    BY ReadersKept, QueueKept, ProcsKept, FlagsKept, SlotsKept
    DEF IInv, HandlerTestsDone, AcceptFails, Dial, HangUp, HandlerOnly
  <1>2. TcpOK'
    BY DEF IInv, TcpOK, HandlerTestsDone, AcceptFails, Dial, HangUp, HandlerOnly
  <1> QED BY <1>1, <1>2 DEF IInv

LEMMA AcceptIInv == ASSUME IInv, NEW c \in Clients, Accept(c) PROVE IInv'
  <1>1. ReadersOK' /\ QueueOK' /\ ProcsOK' /\ FlagsOK'
    BY ReadersKept, QueueKept, ProcsKept, FlagsKept DEF IInv, Accept, Refuse, HandlerOnly
  <1>2. TcpOK'
    BY DEF IInv, TcpOK, Accept, Refuse, HandlerOnly, Sources
  <1>3. SlotInv'
    <2>1. UNCHANGED <<at, tracked>>
      BY DEF Accept, Refuse
    <2>2. handler' = "track" => accepted' \in Clients /\ Cardinality(tracked) <= MaxConnections
      BY DEF Accept, Refuse
    <2> QED BY <2>1, <2>2 DEF IInv, SlotInv
  <1> QED BY <1>1, <1>2, <1>3 DEF IInv

LEMMA TrackIInv == ASSUME IInv, Track PROVE IInv'
  <1>0. accepted \in Clients /\ accepted \in Sources
    BY DEF IInv, SlotInv, Track, Sources
  <1>1. QueueOK' /\ ProcsOK' /\ FlagsOK'
    BY QueueKept, ProcsKept, FlagsKept DEF IInv, Track, HandlerOnly
  <1>2. ReadersOK'
    BY <1>0 DEF IInv, ReadersOK, Places, Track, Goto, HandlerOnly
  <1>3. TcpOK'
    BY DEF IInv, TcpOK, Track, HandlerOnly, Sources
  <1>4. SlotInv'
    <2>1. Cardinality(tracked) <= MaxConnections /\ tracked \in SUBSET Clients
      BY DEF IInv, SlotInv, Track
    <2>2. Cardinality(tracked') <= MaxConnections + 1
      <3>1. /\ Cardinality(tracked \cup {accepted}) =
                 IF accepted \in tracked THEN Cardinality(tracked) ELSE Cardinality(tracked) + 1
            /\ Cardinality(tracked) \in Nat
        BY <2>1, TrackedIsFinite, FS_AddElement
      <3> QED BY <2>1, <3>1, StatsdAssumption DEF StatsdAssumption, Track
    <2>3. \A c \in Clients : at'[c] \in Reading => c = accepted \/ at[c] \in Reading
      BY <1>0 DEF IInv, ReadersOK, Track, Goto, Reading, Sources
    <2> QED BY <1>0, <2>1, <2>2, <2>3 DEF IInv, SlotInv, Track
  <1> QED BY <1>1, <1>2, <1>3, <1>4 DEF IInv

-----------------------------------------------------------------------------
(* The processors, and the ends.                                             *)

LEMMA TakeIInv == ASSUME IInv, NEW p \in Processors, Take(p) PROVE IInv'
  <1>1. /\ Head(queue) \in PacketType /\ Tail(queue) \in Seq(PacketType)
        /\ Len(Tail(queue)) = Len(queue) - 1 /\ Len(queue) \in Nat
    BY HeadTailProperties DEF IInv, QueueOK, Take
  <1>2. QueueOK'
    BY <1>1, StatsdAssumption DEF StatsdAssumption, IInv, QueueOK, Take
  <1>3. ReadersOK'
    BY <1>1 DEF IInv, ReadersOK, Take
  <1>4. ProcsOK'
    BY <1>1, AppendProperties DEF IInv, ProcsOK, Take
  <1>5. TcpOK' /\ FlagsOK' /\ SlotInv'
    BY TcpKept, FlagsKept, SlotsKept DEF IInv, Take, tcpVars
  <1> QED BY <1>2, <1>3, <1>4, <1>5 DEF IInv

LEMMA EndProcessorIInv == ASSUME IInv, NEW p \in Processors, EndProcessor(p) PROVE IInv'
  <1>1. ReadersOK' /\ QueueOK' /\ TcpOK' /\ FlagsOK' /\ SlotInv'
    BY ReadersKept, QueueKept, TcpKept, FlagsKept, SlotsKept
    DEF IInv, EndProcessor, readerVars, tcpVars
  <1>2. ProcsOK'
    BY DEF IInv, ProcsOK, EndProcessor
  <1> QED BY <1>1, <1>2 DEF IInv

LEMMA EndsIInv ==
    ASSUME IInv,
           CloseQueue \/ Return \/ Cancel \/ AgentExits \/ UNCHANGED vars
               \/ \E s \in Sources : SendPanics(s)
    PROVE  IInv'
  <1>1. UNCHANGED <<readerVars, tcpVars, procVars>>
    BY DEF CloseQueue, Return, Cancel, AgentExits, SendPanics, vars
  <1>2. ReadersOK' /\ QueueOK' /\ TcpOK' /\ ProcsOK' /\ SlotInv'
    BY <1>1, ReadersKept, QueueKept, TcpKept, ProcsKept, SlotsKept DEF IInv, readerVars, tcpVars
  <1>3. FlagsOK'
    BY DEF IInv, FlagsOK, CloseQueue, Return, Cancel, AgentExits, SendPanics, vars
  <1> QED BY <1>2, <1>3 DEF IInv

LEMMA NextIInv == ASSUME IInv, [Next]_vars PROVE IInv'
  <1>1. ASSUME NEW s \in Sources, ReaderStep(s) PROVE IInv'
    BY <1>1, TestDoneIInv, ReadIInv, ReadEndsIInv, ReadEOFIInv, SendIInv, EndsIInv DEF ReaderStep
  <1>2. CASE HandlerStep
    BY <1>2, HandlerIInv, TrackIInv, AcceptIInv DEF HandlerStep
  <1>3. ASSUME NEW p \in Processors, ProcessorStep(p) PROVE IInv'
    BY <1>3, TakeIInv, EndProcessorIInv DEF ProcessorStep
  <1>4. ASSUME NEW c \in Clients, ClientStep(c) PROVE IInv'
    BY <1>4, HandlerIInv, ClientResetsIInv DEF ClientStep
  <1>5. CASE CloseQueue \/ Return \/ Cancel \/ AgentExits \/ Finished \/ UNCHANGED vars
    BY <1>5, EndsIInv DEF Finished
  <1> QED BY <1>1, <1>2, <1>3, <1>4, <1>5 DEF Next

LEMMA IInvHolds == Spec => []IInv
  BY InitIInv, NextIInv, PTL DEF Spec

(* Every variable stays in its range, the queue within its size, and the TCP *)
(* readers within the slots, each of which a reader holds (statsd.go:405-    *)
(* 421).                                                                     *)
THEOREM TypeCorrect == Spec => []TypeOK
  <1>1. IInv => TypeOK
    <2> SUFFICES ASSUME IInv PROVE TypeOK
      OBVIOUS
    <2>1. SlotsBounded
      <3> DEFINE readers == {c \in Clients : at[c] \in Reading}
      <3>1. readers \in SUBSET tracked /\ tracked \in SUBSET Clients
        BY DEF IInv, SlotInv
      <3>2. /\ Cardinality(readers) <= Cardinality(tracked)
            /\ Cardinality(readers) \in Nat /\ Cardinality(tracked) \in Nat
        <4>1. readers \in SUBSET Clients
          OBVIOUS
        <4>2. IsFiniteSet(tracked) /\ Cardinality(tracked) \in Nat
          BY <3>1, TrackedIsFinite
        <4>3. Cardinality(readers) \in Nat
          BY <4>1, TrackedIsFinite
        <4>4. Cardinality(readers) <= Cardinality(tracked)
          BY <3>1, <4>2, FS_Subset
        <4> QED BY <4>2, <4>3, <4>4
      <3>3. Cardinality(readers) <= MaxConnections + 1
        BY <3>2, StatsdAssumption DEF StatsdAssumption, IInv, SlotInv
      <3> QED BY <3>3 DEF SlotsBounded, Reading, IInv, SlotInv
    <2> QED
      BY <2>1 DEF IInv, ReadersOK, QueueOK, TcpOK, ProcsOK, FlagsOK, SlotInv, Places, TypeOK
  <1> QED BY <1>1, IInvHolds, PTL
-----------------------------------------------------------------------------
(* The packets of a source.  Besides what PacketsInOrder says, a packet that *)
(* may be garbled by now is one its TCP reader has gone beyond.              *)

LineInv ==
    /\ \A i \in DOMAIN Line : Line[i].n \in HandedOver(Line[i].from)
    /\ \A s \in Sources : \A n \in HandedOver(s) : \E i \in DOMAIN Line : Line[i] = Packet(s, n)
    /\ \A i, j \in DOMAIN Line : i < j /\ Line[i].from = Line[j].from => Line[i].n < Line[j].n

(* A connection has no reader before it is tracked.                          *)
UntrackedInv ==
    /\ \A c \in Clients : client[c] \in {"away", "dialled"} => at[c] = "none"
    /\ handler = "track" =>
         at[accepted] = "none" /\ client[accepted] \notin {"away", "dialled"}

GoneBeyond(q) == q.from # udp /\ q.n < sent[q.from]

OrderInv ==
    /\ LineInv
    /\ \A q \in overwritten \cup garbled : GoneBeyond(q)
    /\ \A s \in Sources : at[s] = "send" => sent[s] >= 1

LEMMA LineIsLine ==
    ASSUME IInv
    PROVE  /\ Line \in Seq(PacketType) /\ Len(Line) \in Nat /\ DOMAIN Line = 1..Len(Line)
           /\ \A i \in DOMAIN Line : Line[i] \in PacketType /\ Line[i].from \in Sources
  <1>1. Line \in Seq(PacketType)
    BY ConcatProperties DEF IInv, QueueOK, ProcsOK, Line
  <1>2. Len(Line) \in Nat /\ DOMAIN Line = 1..Len(Line)
    BY <1>1, LenProperties
  <1>3. ASSUME NEW i \in DOMAIN Line PROVE Line[i] \in PacketType
    BY <1>1, <1>2, <1>3, ElementOfSeq
  <1> QED BY <1>1, <1>2, <1>3 DEF PacketType

LEMMA HandedOverIs ==
    ASSUME IInv, NEW s \in Sources
    PROVE  /\ sent[s] \in Nat
           /\ \A n : n \in HandedOver(s) <=> n \in 1..sent[s] /\ ~(at[s] = "send" /\ n = sent[s])
  BY DEF IInv, ReadersOK, HandedOver

(* Every step but Send leaves the line as it is, and what was handed over.   *)
LEMMA LineStays ==
    ASSUME IInv, LineInv, Line' = Line, \A s \in Sources : HandedOver(s)' = HandedOver(s)
    PROVE  LineInv'
  <1>1. \A i \in DOMAIN Line : Line[i].from \in Sources
    BY LineIsLine
  <1> QED BY <1>1 DEF LineInv, Packet

LEMMA OrderKept ==
    ASSUME IInv, OrderInv, UNCHANGED <<sent, overwritten, garbled>>, Line' = Line,
           \A s \in Sources : at'[s] = "send" <=> at[s] = "send"
    PROVE  OrderInv'
  <1>1. \A s \in Sources : HandedOver(s)' = HandedOver(s)
    BY DEF HandedOver
  <1> QED BY <1>1, LineStays DEF OrderInv, GoneBeyond

LEMMA ReadOrder == ASSUME IInv, OrderInv, NEW s \in Sources, Read(s) PROVE OrderInv'
  <1>1. /\ sent' = [sent EXCEPT ![s] = sent[s] + 1] /\ at' = [at EXCEPT ![s] = "send"]
        /\ at[s] = "read" /\ UNCHANGED <<queue, taken, garbled>>
        /\ at \in [Sources -> Places] /\ sent \in [Sources -> Nat]
    BY DEF Read, Goto, ReadersOnly, procVars, IInv, ReadersOK
  <1>2. \A t \in Sources : sent[t] \in Nat /\ sent'[t] \in Nat /\ sent'[t] >= sent[t]
    BY <1>1
  <1>3. \A t \in Sources : HandedOver(t)' = HandedOver(t)
    <2> TAKE t \in Sources
    <2>1. CASE t = s
      <3>1. /\ sent'[s] = sent[s] + 1 /\ at'[s] = "send" /\ at[s] # "send" /\ sent[s] \in Nat
        BY <1>1
      <3> QED BY <2>1, <3>1 DEF HandedOver
    <2>2. CASE t # s
      BY <2>2, <1>1 DEF HandedOver
    <2> QED BY <2>1, <2>2
  <1>4. LineInv'
    BY <1>1, <1>3, LineStays DEF OrderInv, Line
  <1>5. ASSUME NEW i \in DOMAIN queue, queue[i].from = s
        PROVE  queue[i].n \in Nat /\ queue[i].n <= sent[s]
    <2>1. /\ queue \in Seq(PacketType) /\ taken \in Seq(PacketType)
      BY DEF IInv, QueueOK, ProcsOK
    <2>2. Len(taken) + i \in DOMAIN Line /\ Line[Len(taken) + i] = queue[i]
      BY <2>1, ConcatProperties, LenProperties DEF Line
    <2>3. queue[i].n \in HandedOver(s)
      BY <2>2, <1>5 DEF OrderInv, LineInv
    <2> QED BY <2>3, HandedOverIs
  <1>6. \A q \in overwritten \cup garbled : q.from \in Sources /\ q.n \in Nat
    BY DEF IInv, ReadersOK, ProcsOK, PacketType
  <1>7. ASSUME NEW q \in overwritten \cup garbled PROVE GoneBeyond(q)'
    <2>1. q.from # udp /\ q.n < sent[q.from] /\ q.from \in Sources /\ q.n \in Nat
      BY <1>6, <1>7 DEF OrderInv, GoneBeyond
    <2> QED BY <2>1, <1>2 DEF GoneBeyond
  <1>8. ASSUME s # udp, NEW i \in DOMAIN queue, queue[i].from = s PROVE GoneBeyond(queue[i])'
    <2>1. sent'[s] = sent[s] + 1 /\ sent[s] \in Nat
      BY <1>1
    <2> QED BY <1>1, <1>5, <1>8, <2>1 DEF GoneBeyond
  <1>9. \A q \in (overwritten \cup garbled)' : GoneBeyond(q)'
    BY <1>1, <1>7, <1>8 DEF Read
  <1>10. ASSUME NEW t \in Sources, at'[t] = "send" PROVE sent'[t] >= 1
    BY <1>1, <1>2, <1>10 DEF OrderInv
  <1> QED BY <1>4, <1>9, <1>10 DEF OrderInv

(* The packet goes to the end of the line, behind all that its source sent.  *)
LEMMA SendOrder == ASSUME IInv, OrderInv, NEW s \in Sources, Send(s) PROVE OrderInv'
  <1> DEFINE e == Packet(s, sent[s])
             last == Len(Line) + 1
  <1>1. /\ at[s] = "send" /\ queue' = Append(queue, e) /\ UNCHANGED <<sent, overwritten, taken, garbled>>
        /\ at \in [Sources -> Places] /\ sent \in [Sources -> Nat]
        /\ at' = [at EXCEPT ![s] = IF s = udp THEN "top" ELSE "read"]
    BY DEF Send, Goto, ReadersOnly, procVars, IInv, ReadersOK
  <1>2. sent[s] \in Nat /\ sent[s] >= 1 /\ at'[s] # "send" /\ e.from = s /\ e.n = sent[s]
    BY <1>1 DEF OrderInv, Packet
  <1>3. /\ Len(Line) \in Nat /\ DOMAIN Line = 1..Len(Line) /\ DOMAIN Line' = 1..last
        /\ \A i \in DOMAIN Line : Line'[i] = Line[i]
        /\ Line'[last] = e
    <2>1. /\ queue \in Seq(PacketType) /\ taken \in Seq(PacketType) /\ e \in PacketType
      BY PacketIsPacket DEF IInv, QueueOK, ProcsOK
    <2> HIDE DEF e
    <2>2. taken \o Append(queue, e) = Append(taken \o queue, e)
      BY <2>1, AppendProperties, ConcatProperties, LenProperties
    <2>3. Line \in Seq(PacketType)
      BY LineIsLine
    <2>4. Line' = Append(Line, e)
      BY <1>1, <2>2 DEF Line
    <2> QED BY <2>1, <2>3, <2>4, AppendProperties, LenProperties
  <1>4. \A n : n \in HandedOver(s)' <=> n \in HandedOver(s) \/ n = sent[s]
    BY <1>1, <1>2 DEF HandedOver
  <1>5. \A t \in Sources \ {s} : HandedOver(t)' = HandedOver(t)
    BY <1>1 DEF HandedOver
  <1>6. \A i \in DOMAIN Line : Line[i].from = s => Line[i].n \in Nat /\ Line[i].n < sent[s]
    BY <1>1, <1>2, HandedOverIs DEF OrderInv, LineInv
  <1>7. \A i \in DOMAIN Line : Line[i].from \in Sources
    BY LineIsLine
  <1> HIDE DEF e
  <1>8. ASSUME NEW i \in DOMAIN Line', NEW t, t = Line'[i].from PROVE Line'[i].n \in HandedOver(t)'
    <2>1. CASE i \in DOMAIN Line
      <3>1. Line'[i] = Line[i] /\ t \in Sources /\ Line[i].from = t
        BY <2>1, <1>3, <1>7, <1>8
      <3>2. Line[i].n \in HandedOver(t)
        BY <2>1, <3>1 DEF OrderInv, LineInv
      <3> QED BY <3>1, <3>2, <1>4, <1>5
    <2>2. CASE i = last
      <3>1. Line'[i].n = sent[s] /\ t = s
        BY <2>2, <1>2, <1>3, <1>8
      <3> QED BY <3>1, <1>4
    <2> QED BY <1>3, <1>8, <2>1, <2>2
  <1>9. ASSUME NEW t \in Sources, NEW n \in HandedOver(t)'
        PROVE  \E i \in DOMAIN Line' : Line'[i] = Packet(t, n)
    <2>1. CASE n \in HandedOver(t)
      <3>1. PICK i \in DOMAIN Line : Line[i] = Packet(t, n)
        BY <2>1 DEF OrderInv, LineInv
      <3>2. i \in DOMAIN Line' /\ Line'[i] = Line[i]
        BY <1>3
      <3> QED BY <3>1, <3>2
    <2>2. CASE n \notin HandedOver(t)
      <3>1. t = s /\ n = sent[s]
        BY <2>2, <1>4, <1>5, <1>9
      <3> QED BY <3>1, <1>3 DEF e
    <2> QED BY <2>1, <2>2
  <1>10. ASSUME NEW i \in DOMAIN Line', NEW j \in DOMAIN Line', i < j, Line'[i].from = Line'[j].from
         PROVE  Line'[i].n < Line'[j].n
    <2>1. i \in DOMAIN Line /\ Line'[i] = Line[i]
      BY <1>3, <1>10
    <2>2. CASE j \in DOMAIN Line
      <3>1. Line'[j] = Line[j]
        BY <2>2, <1>3
      <3> QED BY <2>1, <2>2, <3>1, <1>10 DEF OrderInv, LineInv
    <2>3. CASE j = last
      BY <2>1, <2>3, <1>2, <1>3, <1>6, <1>10
    <2> QED BY <1>3, <1>10, <2>2, <2>3
  <1>11. \A t \in Sources : at'[t] = "send" => at[t] = "send"
    BY <1>1
  <1>12. LineInv'
    <2>1. \A i \in DOMAIN Line' : \A t : t = Line'[i].from => Line'[i].n \in HandedOver(t)'
      BY <1>8
    <2>2. \A t \in Sources : \A n \in HandedOver(t)' : \E i \in DOMAIN Line' : Line'[i] = Packet(t, n)
      BY <1>9
    <2>3. \A i, j \in DOMAIN Line' :
            i < j /\ Line'[i].from = Line'[j].from => Line'[i].n < Line'[j].n
      BY <1>10
    <2> QED BY <2>1, <2>2, <2>3 DEF LineInv, HandedOver, Packet
  <1> QED BY <1>1, <1>11, <1>12 DEF OrderInv, GoneBeyond

(* Taking a packet moves the border between the two halves of the line.      *)
LEMMA TakeOrder == ASSUME IInv, OrderInv, NEW p \in Processors, Take(p) PROVE OrderInv'
  <1>1. queue \in Seq(PacketType) /\ taken \in Seq(PacketType) /\ queue # <<>>
    BY DEF IInv, QueueOK, ProcsOK, Take
  <1>2. Append(taken, Head(queue)) \o Tail(queue) = taken \o queue
    <2>1. Head(queue) \in PacketType /\ Tail(queue) \in Seq(PacketType)
          /\ queue = <<Head(queue)>> \o Tail(queue)
      BY <1>1, HeadTailProperties, ConcatProperties, LenProperties
    <2> QED BY <1>1, <2>1, AppendProperties, ConcatProperties, LenProperties
  <1>3. Line' = Line /\ UNCHANGED <<at, sent>>
    BY <1>2 DEF Take, Line
  <1>4. LineInv'
    BY <1>3, LineStays DEF OrderInv, HandedOver
  <1>5. overwritten' \cup garbled' \subseteq overwritten \cup garbled
    BY DEF Take
  <1> QED BY <1>3, <1>4, <1>5 DEF OrderInv, GoneBeyond

LEMMA UntrackedKept ==
    ASSUME IInv, UntrackedInv, handler' = "track" => handler = "track", accepted' = accepted,
           \A s \in Sources : at[s] = "none" => at'[s] = "none",
           \A c \in Clients : client'[c] \in {"away", "dialled"} => client[c] \in {"away", "dialled"}
    PROVE  UntrackedInv'
  <1>1. handler = "track" => accepted \in Clients /\ accepted \in Sources
    BY DEF IInv, SlotInv, Sources
  <1> QED BY <1>1 DEF UntrackedInv, Sources

LEMMA NextUntracked == ASSUME IInv, UntrackedInv, [Next]_vars PROVE UntrackedInv'
  <1>0. /\ Clients \subseteq Sources /\ at \in [Sources -> Places]
        /\ client \in [Clients -> {"away", "dialled", "open", "gone", "refused"}]
    BY DEF Sources, IInv, ReadersOK, TcpOK
  <1>1. ASSUME NEW s \in Sources, ReaderStep(s) PROVE UntrackedInv'
    <2>1. UNCHANGED <<client, handler, accepted>>
      BY <1>1 DEF ReaderStep, TestDone, Read, ReadEnds, ReadEOF, Send, SendPanics, tcpVars
    <2>2. \A t \in Sources : at[t] = "none" => at'[t] = "none"
      BY <1>0, <1>1
      DEF ReaderStep, TestDone, Read, ReadEnds, ReadEOF, Send, SendPanics, Goto, readerVars
    <2> QED BY <2>1, <2>2, UntrackedKept
  <1>2. CASE HandlerTestsDone \/ AcceptFails
    BY <1>2, UntrackedKept DEF HandlerTestsDone, AcceptFails
  <1>3. CASE Track
    <2>1. accepted \in Clients /\ client[accepted] \notin {"away", "dialled"}
      BY <1>3 DEF UntrackedInv, IInv, SlotInv, Track
    <2> QED BY <1>0, <1>3, <2>1 DEF UntrackedInv, Track, Goto
  <1>4. ASSUME NEW c \in Clients, Accept(c) PROVE UntrackedInv'
    BY <1>0, <1>4 DEF UntrackedInv, Accept, Refuse
  <1>5. ASSUME NEW p \in Processors, ProcessorStep(p) PROVE UntrackedInv'
    BY <1>5, UntrackedKept DEF ProcessorStep, Take, EndProcessor, readerVars, tcpVars
  <1>6. ASSUME NEW c \in Clients, ClientStep(c) PROVE UntrackedInv'
    <2>1. UNCHANGED <<handler, accepted>>
      BY <1>6 DEF ClientStep, Dial, HangUp, ClientResets
    <2>2. /\ \A t \in Sources : at[t] = "none" => at'[t] = "none"
          /\ \A d \in Clients : client'[d] \in {"away", "dialled"} => client[d] \in {"away", "dialled"}
      BY <1>0, <1>6 DEF ClientStep, Dial, HangUp, ClientResets, Goto
    <2> QED BY <2>1, <2>2, UntrackedKept
  <1>7. CASE CloseQueue \/ Return \/ Cancel \/ AgentExits \/ Finished \/ UNCHANGED vars
    BY <1>7, UntrackedKept
    DEF CloseQueue, Return, Cancel, AgentExits, Finished, vars, readerVars, tcpVars
  <1> QED BY <1>1, <1>2, <1>3, <1>4, <1>5, <1>6, <1>7 DEF Next, HandlerStep

LEMMA NextOrder == ASSUME IInv, UntrackedInv, OrderInv, [Next]_vars PROVE OrderInv'
  <1>0. Clients \subseteq Sources /\ at \in [Sources -> Places]
    BY DEF Sources, IInv, ReadersOK
  <1>1. ASSUME NEW s \in Sources, ReaderStep(s) PROVE OrderInv'
    <2>1. CASE TestDone(s) \/ ReadEnds(s) \/ ReadEOF(s) \/ SendPanics(s)
      <3>1. UNCHANGED <<sent, overwritten, queue, taken, garbled>>
        BY <2>1 DEF TestDone, ReadEnds, ReadEOF, SendPanics, ReadersOnly, readerVars, procVars
      <3>2. \A t \in Sources : at'[t] = "send" <=> at[t] = "send"
        BY <1>0, <2>1 DEF TestDone, ReadEnds, ReadEOF, SendPanics, Goto, readerVars
      <3> QED BY <3>1, <3>2, OrderKept DEF Line
    <2> QED BY <1>1, <2>1, ReadOrder, SendOrder DEF ReaderStep
  <1>2. CASE HandlerStep
    <2>1. UNCHANGED <<sent, overwritten, queue, taken, garbled>>
      BY <1>2 DEF HandlerStep, HandlerTestsDone, AcceptFails, Track, Accept, HandlerOnly, procVars
    <2>2. \A t \in Sources : at'[t] = "send" <=> at[t] = "send"
      BY <1>0, <1>2 DEF UntrackedInv, HandlerStep, HandlerTestsDone, AcceptFails, Track, Accept, Refuse, Goto
    <2> QED BY <2>1, <2>2, OrderKept DEF Line
  <1>3. ASSUME NEW p \in Processors, EndProcessor(p) PROVE OrderInv'
    BY <1>3, OrderKept DEF EndProcessor, readerVars, Line
  <1>4. ASSUME NEW c \in Clients, ClientStep(c) PROVE OrderInv'
    <2>1. UNCHANGED <<sent, overwritten, queue, taken, garbled>>
      BY <1>4 DEF ClientStep, Dial, HangUp, ClientResets, HandlerOnly, ReadersOnly, procVars
    <2>2. \A t \in Sources : at'[t] = "send" <=> at[t] = "send"
      BY <1>0, <1>4 DEF ClientStep, Dial, HangUp, ClientResets, Goto
    <2> QED BY <2>1, <2>2, OrderKept DEF Line
  <1>5. CASE CloseQueue \/ Return \/ Cancel \/ AgentExits \/ Finished \/ UNCHANGED vars
    <2>1. UNCHANGED <<readerVars, procVars>>
      BY <1>5 DEF CloseQueue, Return, Cancel, AgentExits, Finished, vars
    <2> QED BY <2>1, OrderKept DEF readerVars, procVars, Line
  <1> QED BY <1>1, <1>2, <1>3, <1>4, <1>5, TakeOrder DEF Next, ProcessorStep

LEMMA InitOrder == ASSUME Init PROVE OrderInv /\ UntrackedInv
  <1>1. \A s \in Sources : sent[s] = 0 /\ at[s] # "send" /\ HandedOver(s) = {}
    BY DEF Init, HandedOver
  <1>2. Line = <<>> /\ DOMAIN Line = {}
    BY DEF Init, Line
  <1>3. OrderInv
    <2>1. overwritten \cup garbled = {}
      BY DEF Init
    <2>2. LineInv
      BY <1>1, <1>2 DEF LineInv
    <2> QED BY <1>1, <2>1, <2>2 DEF OrderInv
  <1>4. UntrackedInv
    BY StatsdAssumption DEF Init, UntrackedInv, Sources, StatsdAssumption
  <1> QED BY <1>3, <1>4

(* Whatever readers and processors interleave, the packets of one source are *)
(* processed once each and in the order it sent them, none is lost on the    *)
(* way, and only a TCP line whose reader has scanned on is ever processed    *)
(* garbled (statsd.go:373-392, 425-460, 483-512).                            *)
THEOREM PacketsKeepOrder == Spec => []PacketsInOrder
  <1>1. OrderInv => PacketsInOrder
    BY DEF OrderInv, LineInv, GoneBeyond, PacketsInOrder
  <1> QED BY <1>1, IInvHolds, InitOrder, NextUntracked, NextOrder, PTL DEF Spec
=============================================================================
