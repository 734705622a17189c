---------------------------- MODULE StatsdServer ----------------------------
(* The StatsD listener (internal/statsd/statsd.go): a UDP reader and one     *)
(* reader per TCP client put packets on one bounded queue, a pool of         *)
(* processors takes them off, and Start waits for the UDP reader, the TCP    *)
(* handler and the processors, but not for the TCP readers.  Cancelling the  *)
(* context makes the processors close the listeners and the clients.         *)
EXTENDS Naturals, Sequences, FiniteSets

CONSTANTS
    Clients,          \* TCP clients
    Processors,       \* npp packet processors
    MaxConnections,   \* statsd.max_tcp_connections
    QueueSize,        \* pqs
    MaxPackets        \* bound: packets sent altogether

CONSTANT udp          \* the UDP reader, as a source of packets

ASSUME StatsdAssumption ==
    /\ udp \notin Clients
    /\ IsFiniteSet(Clients) /\ IsFiniteSet(Processors)
    /\ MaxConnections \in Nat /\ QueueSize \in Nat \ {0} /\ MaxPackets \in Nat

Sources == Clients \cup {udp}

VARIABLES
    ctxDone,    \* groupCtx is done
    at,         \* where each source's reader is: "none" (not running), "top"
                \* (tests done), "read", "send", "ended"
    sent,       \* packets each source has sent
    client,     \* each client: "away", "dialled", "open", "gone" (closed its
                \* end), "refused"
    handler,    \* tcpHandler: "top", "accept", "track", "ended"
    accepted,   \* the connection tcpHandler is about to track
    tracked,    \* tcpConnections
    queue,      \* packetCh
    overwritten,\* queued TCP lines whose bytes the scanner has reused
    proc,       \* processors: "take", "ended"
    taken,      \* packets processed, in the order they were taken
    garbled,    \* packets that were not what the client sent when processed
    eof,        \* clients whose end of file their reader has read
    unfair,     \* clients refused while fewer than MaxConnections were in use
    closed,     \* packetCh is closed
    run         \* "up", "returned" (Start), "exited" (the agent), "panicked"

readerVars == <<at, sent, queue, overwritten>>
tcpVars    == <<client, handler, accepted, tracked, eof, unfair>>
procVars   == <<proc, taken, garbled>>
vars == <<ctxDone, readerVars, tcpVars, procVars, closed, run>>

Init ==
    /\ ctxDone = FALSE
    /\ at = [s \in Sources |-> IF s = udp THEN "top" ELSE "none"]
    /\ sent = [s \in Sources |-> 0]
    /\ client = [c \in Clients |-> "away"]
    /\ handler = "top" /\ accepted = udp /\ tracked = {} /\ eof = {} /\ unfair = {}
    /\ queue = <<>> /\ overwritten = {}
    /\ proc = [p \in Processors |-> "take"] /\ taken = <<>> /\ garbled = {}
    /\ closed = FALSE /\ run = "up"

Packet(s, n) == [from |-> s, n |-> n]
Goto(s, place) == at' = [at EXCEPT ![s] = place]

(* A panic or an exit ends every goroutine.                                  *)
Alive == run \in {"up", "returned"}

(* The processors close the listeners when they end; the slip forgets to.    *)
ListenersLeftOpen == FALSE
ListenersClosed == \E p \in Processors : proc[p] = "ended"

-----------------------------------------------------------------------------
(* udpReader and tcpReader.                                                  *)

ReadersOnly == Alive /\ UNCHANGED <<ctxDone, procVars, closed, run>>

(* done() at the top of the loop.  A TCP reader that ends closes the client's*)
(* connection and its slot.                                                  *)
TestDone(s) ==
    /\ at[s] = "top"
    /\ IF ctxDone
       THEN Goto(s, "ended") /\ tracked' = tracked \ {s}
       ELSE Goto(s, "read") /\ UNCHANGED tracked
    /\ UNCHANGED <<sent, queue, overwritten, client, handler, accepted, eof, unfair>>
    /\ ReadersOnly

Arrived == Len(taken) + Len(queue) + Cardinality({s \in Sources : at[s] = "send"})

(* A packet arrives.  UDP packets are copied; a TCP line is a slice of the   *)
(* scanner's buffer, and reading on may reuse the bytes of queued lines.     *)
Read(s) ==
    /\ at[s] = "read" /\ ~ListenersClosed /\ Arrived < MaxPackets
    /\ s # udp => client[s] = "open"
    /\ sent' = [sent EXCEPT ![s] = @ + 1]
    /\ Goto(s, "send")
    /\ \/ UNCHANGED overwritten
       \/ /\ s # udp
          /\ overwritten' = overwritten \cup {queue[i] : i \in {j \in DOMAIN queue : queue[j].from = s}}
    /\ UNCHANGED <<queue, tcpVars>>
    /\ ReadersOnly

(* Reading fails: the listener or the connection was closed, or a deadline   *)
(* passed.                                                                   *)
ReadEnds(s) ==
    /\ at[s] = "read"
    /\ \/ s = udp /\ ListenersClosed /\ Goto(s, "top") /\ UNCHANGED tracked
       \/ s # udp /\ ctxDone /\ Goto(s, "ended") /\ tracked' = tracked \ {s}
    /\ UNCHANGED <<sent, queue, overwritten, client, handler, accepted, eof, unfair>>
    /\ ReadersOnly

(* The end of the file is no error to a scanner: the reader scans again.     *)
ReadEOF(s) ==
    /\ s # udp /\ at[s] = "read" /\ client[s] = "gone" /\ s \notin eof
    /\ eof' = eof \cup {s}
    /\ UNCHANGED <<at, sent, queue, overwritten, client, handler, accepted, tracked, unfair>>
    /\ ReadersOnly

(* The client resets the connection: an error, which ends the reader.        *)
ClientResets(s) ==
    /\ s # udp /\ at[s] = "read" /\ client[s] = "open"
    /\ client' = [client EXCEPT ![s] = "gone"]
    /\ Goto(s, "ended") /\ tracked' = tracked \ {s}
    /\ UNCHANGED <<sent, queue, overwritten, handler, accepted, eof, unfair>>
    /\ ReadersOnly

(* Sending blocks while the queue is full; the slip drops the packet.  After *)
(* the close it panics.                                                      *)
SendOrDrop(s) ==
    /\ at[s] = "send" /\ ~closed
    /\ queue' = IF Len(queue) < QueueSize THEN Append(queue, Packet(s, sent[s])) ELSE queue
    /\ Goto(s, IF s = udp THEN "top" ELSE "read")
    /\ UNCHANGED <<sent, overwritten, tcpVars>>
    /\ ReadersOnly
Send(s) ==
    /\ at[s] = "send" /\ ~closed
    /\ Len(queue) < QueueSize
    /\ queue' = Append(queue, Packet(s, sent[s]))
    /\ Goto(s, IF s = udp THEN "top" ELSE "read")
    /\ UNCHANGED <<sent, overwritten, tcpVars>>
    /\ ReadersOnly

SendPanics(s) ==
    /\ Alive /\ at[s] = "send" /\ closed
    /\ run' = "panicked"
    /\ UNCHANGED <<ctxDone, readerVars, tcpVars, procVars, closed>>

-----------------------------------------------------------------------------
(* tcpHandler and its clients.                                               *)

HandlerOnly == Alive /\ UNCHANGED <<ctxDone, sent, eof, queue, overwritten, procVars, closed, run>>

Dial(c) ==
    /\ client[c] = "away" /\ ~ListenersClosed
    /\ client' = [client EXCEPT ![c] = "dialled"]
    /\ UNCHANGED <<at, handler, accepted, tracked, unfair>>
    /\ HandlerOnly

HangUp(c) ==
    /\ client[c] = "open"
    /\ client' = [client EXCEPT ![c] = "gone"]
    /\ UNCHANGED <<at, handler, accepted, tracked, unfair>>
    /\ HandlerOnly

HandlerTestsDone ==
    /\ handler = "top"
    /\ handler' = IF ctxDone THEN "ended" ELSE "accept"
    /\ UNCHANGED <<at, client, accepted, tracked, unfair>>
    /\ HandlerOnly

AcceptFails ==
    /\ handler = "accept" /\ ListenersClosed
    /\ handler' = "top"
    /\ UNCHANGED <<at, client, accepted, tracked, unfair>>
    /\ HandlerOnly

Refuse(c) ==
    /\ client' = [client EXCEPT ![c] = "refused"]
    /\ handler' = "top"
    /\ unfair' = IF Cardinality(tracked \ eof) < MaxConnections THEN unfair \cup {c} ELSE unfair
    /\ UNCHANGED <<at, accepted, tracked>>

(* The limit is tested here and the connection added to the list in the next *)
(* step, by the same goroutine.  The slip leaves adding it to the reader.    *)
AcceptAndGoOn(c) ==
    /\ handler = "accept" /\ client[c] = "dialled" /\ ~ListenersClosed
    /\ \/ Cardinality(tracked) > MaxConnections /\ Refuse(c)
       \/ /\ Cardinality(tracked) <= MaxConnections
          /\ client' = [client EXCEPT ![c] = "open"]
          /\ handler' = "top" /\ tracked' = tracked /\ Goto(c, "top")
          /\ UNCHANGED <<accepted, unfair>>
    /\ HandlerOnly
Accept(c) ==
    /\ handler = "accept" /\ client[c] = "dialled" /\ ~ListenersClosed
    /\ \/ Cardinality(tracked) > MaxConnections /\ Refuse(c)
       \/ /\ Cardinality(tracked) <= MaxConnections
          /\ client' = [client EXCEPT ![c] = "open"]
          /\ handler' = "track" /\ accepted' = c
          /\ UNCHANGED <<at, tracked, unfair>>
    /\ HandlerOnly

Track ==
    /\ handler = "track"
    /\ tracked' = tracked \cup {accepted}
    /\ Goto(accepted, "top")
    /\ handler' = "top" /\ accepted' = udp
    /\ UNCHANGED <<client, unfair>>
    /\ HandlerOnly

-----------------------------------------------------------------------------
(* The processors, and Start.                                                *)

Take(p) ==
    /\ Alive /\ proc[p] = "take" /\ queue # <<>>
    /\ taken' = Append(taken, Head(queue))
    /\ queue' = Tail(queue)
    /\ garbled' = IF Head(queue) \in overwritten THEN garbled \cup {Head(queue)} ELSE garbled
    /\ overwritten' = overwritten \ {Head(queue)}
    /\ UNCHANGED <<ctxDone, at, sent, tcpVars, proc, closed, run>>

(* Packets still queued stay where they are.                                 *)
EndProcessor(p) ==
    /\ Alive /\ proc[p] = "take" /\ ctxDone
    /\ proc' = [proc EXCEPT ![p] = "ended"]
    /\ UNCHANGED <<ctxDone, readerVars, tcpVars, taken, garbled, closed, run>>

GroupEnded ==
    /\ at[udp] = "ended" /\ handler = "ended"
    /\ \A p \in Processors : proc[p] = "ended"

(* The goroutine that waits for the group too, to flush the group metrics.   *)
CloseQueue ==
    /\ Alive /\ GroupEnded /\ ~closed
    /\ closed' = TRUE
    /\ UNCHANGED <<ctxDone, readerVars, tcpVars, procVars, run>>

Return ==
    /\ GroupEnded /\ run = "up"
    /\ run' = "returned"
    /\ UNCHANGED <<ctxDone, readerVars, tcpVars, procVars, closed>>

Cancel ==
    /\ Alive /\ ~ctxDone
    /\ ctxDone' = TRUE
    /\ UNCHANGED <<readerVars, tcpVars, procVars, closed, run>>

AgentExits ==
    /\ run = "returned"
    /\ run' = "exited"
    /\ UNCHANGED <<ctxDone, readerVars, tcpVars, procVars, closed>>

-----------------------------------------------------------------------------
ReaderStep(s) == TestDone(s) \/ Read(s) \/ ReadEnds(s) \/ ReadEOF(s) \/ Send(s) \/ SendPanics(s)
HandlerStep == HandlerTestsDone \/ AcceptFails \/ Track \/ \E c \in Clients : Accept(c)
ProcessorStep(p) == Take(p) \/ EndProcessor(p)
ClientStep(c) == Dial(c) \/ HangUp(c) \/ ClientResets(c)

(* The UDP reader waits for room on a queue that no processor empties.       *)
UdpStuck == at[udp] = "send" /\ Len(queue) = QueueSize /\ \A p \in Processors : proc[p] = "ended"

(* The process is gone, or hangs.                                            *)
Finished == (~Alive \/ UdpStuck) /\ UNCHANGED vars

Next ==
    \/ \E s \in Sources : ReaderStep(s)
    \/ HandlerStep
    \/ \E p \in Processors : ProcessorStep(p)
    \/ \E c \in Clients : ClientStep(c)
    \/ CloseQueue \/ Return \/ Cancel \/ AgentExits
    \/ Finished

Spec == Init /\ [][Next]_vars

(* Goroutines are scheduled.                                                 *)
FairSpec ==
    /\ Spec
    /\ \A s \in Sources : WF_vars(ReaderStep(s))
    /\ \A p \in Processors : WF_vars(ProcessorStep(p))
    /\ WF_vars(HandlerStep) /\ WF_vars(Return)
-----------------------------------------------------------------------------
(* What the listener guarantees.                                             *)

PacketType == [from : Sources, n : Nat]

(* Every running TCP reader holds a slot, and there is one more slot than    *)
(* statsd.max_tcp_connections at most: the limit is tested against the list  *)
(* before the new connection is on it (statsd.go:405-421).                   *)
SlotsBounded ==
    /\ Cardinality({c \in Clients : at[c] \in {"top", "read", "send"}}) <= MaxConnections + 1
    /\ \A c \in Clients : at[c] \in {"top", "read", "send"} => c \in tracked

(* Every variable stays in its range, the queue and the slots within their   *)
(* limits.                                                                   *)
TypeOK ==
    /\ SlotsBounded
    /\ ctxDone \in BOOLEAN /\ closed \in BOOLEAN
    /\ at \in [Sources -> {"none", "top", "read", "send", "ended"}]
    /\ sent \in [Sources -> Nat]
    /\ client \in [Clients -> {"away", "dialled", "open", "gone", "refused"}]
    /\ handler \in {"top", "accept", "track", "ended"} /\ accepted \in Sources
    /\ tracked \in SUBSET Clients
    /\ eof \in SUBSET Clients /\ unfair \in SUBSET Clients
    /\ queue \in Seq(PacketType) /\ Len(queue) <= QueueSize
    /\ overwritten \in SUBSET PacketType /\ garbled \in SUBSET PacketType
    /\ proc \in [Processors -> {"take", "ended"}]
    /\ taken \in Seq(PacketType)
    /\ run \in {"up", "returned", "exited", "panicked"}

(* What went through the queue or is in it, and what of a source has to be   *)
(* there: all but the packet in its reader's hands.                          *)
Line == taken \o queue
HandedOver(s) == {n \in 1..sent[s] : ~(at[s] = "send" /\ n = sent[s])}

(* Backpressure, not loss: whatever readers and processors interleave, the   *)
(* packets of one source are processed once each and in the order it sent    *)
(* them, and those not processed are queued or in its reader's hands; and    *)
(* they are what was sent, but for a TCP line that was still queued when its *)
(* reader scanned the next one into the same buffer (statsd.go:373-392,      *)
(* 425-460, 483-512).                                                        *)
PacketsInOrder ==
    /\ \A i \in DOMAIN Line : Line[i].n \in HandedOver(Line[i].from)
    /\ \A s \in Sources : \A n \in HandedOver(s) : \E i \in DOMAIN Line : Line[i] = Packet(s, n)
    /\ \A i, j \in DOMAIN Line : i < j /\ Line[i].from = Line[j].from => Line[i].n < Line[j].n
    /\ \A q \in garbled : q.from # udp /\ q.n < sent[q.from]

(* After a cancellation Start returns, unless the UDP reader is stuck on a   *)
(* queue that no processor empties any more, or the process panics: nothing  *)
(* else keeps the agent from ending.                                         *)
ShutdownEnds == ctxDone ~> (run # "up" \/ UdpStuck)

(* statsd.go:465, "max tcp client connections reached, refusing new          *)
(* connection attempt": a client is refused only while that many clients are *)
(* connected, those not counted whose end of file was read.                  *)
RefusedOnlyWhenFull == unfair = {}
=============================================================================
