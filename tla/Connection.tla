----------------------------- MODULE Connection -----------------------------
(* One reverse connection object (internal/reverse/connection): the Start    *)
(* loop that dials the broker and answers it, the command reader and the     *)
(* command processor it starts for every session, the unbuffered channels    *)
(* between the three, and the broker at the other end of the TLS connection. *)
(*                                                                           *)
(* Goroutines of an earlier session outlive it: they notice that their       *)
(* context is cancelled, or their socket closed, only at their next select   *)
(* or read.  Sessions are therefore numbered and every session keeps its own *)
(* reader and processor.                                                     *)
EXTENDS Integers, Sequences, FiniteSets

CONSTANTS
    MaxSessions,       \* bound: sessions the broker accepts
    MaxAsked,          \* bound: units (commands) the broker sends
    Units,             \* kinds of units the broker sends
    MaxCommTimeouts,   \* read timeouts in a row that are ignored
    ConfigRetryLimit,  \* attempts after which the check is refreshed
    MaxConnRetry,      \* reverse.max_conn_retry, -1 for no limit
    MaxDelay, MinDelayStep, MaxDelayStep   \* retry delays, in seconds

ASSUME ConnectionAssumption ==
    /\ MaxSessions \in Nat /\ MaxAsked \in Nat
    /\ Units \subseteq {"CONNECT", "BARE", "EMPTY", "STRAY", "RESET", "OTHER"}
    /\ MaxCommTimeouts \in Nat
    /\ ConfigRetryLimit \in Nat \ {0}
    /\ MaxConnRetry \in Nat \cup {-1}
    /\ MinDelayStep \in Nat \ {0} /\ MaxDelayStep \in Nat /\ MaxDelay \in Nat
    /\ MinDelayStep < MaxDelayStep /\ MinDelayStep <= MaxDelay

VARIABLES
    ctxDone,    \* the context given to Start is cancelled
    pc,         \* where Start is
    outcome,    \* what Start returned: "none" yet, "nil", "refresh" (OpError.RefreshCheck)
    result,     \* the processed command Start has taken from the channel
    attempts,   \* connAttempts
    delay,      \* delay before the next attempt
    timeouts,   \* commTimeouts, shared by the readers of all sessions
    cur,        \* the session Start works on, 0 before the first
    link,       \* each session's connection: "none" yet, "open", "hung" (closed by
                \* the broker), "shut" (closed by the agent)
    wire,       \* what the current session's reader has yet to read of the unit
                \* it is in the middle of
    cancelled,  \* sessions whose cmdCtx is cancelled
    rd,         \* command reader of each session
    pr,         \* command processor of each session
    asked,      \* every unit the broker began to send
    answered,   \* answers written to the broker, in order
    fetched     \* metric fetches of each session that succeeded

loopVars    == <<pc, outcome, result>>
retryVars   == <<attempts, delay>>
netVars     == <<link, wire, asked>>
vars == <<ctxDone, loopVars, retryVars, timeouts, cur, netVars,
          cancelled, rd, pr, answered, fetched>>

Session == 1..MaxSessions

-----------------------------------------------------------------------------
(* Frames and commands.  A frame is a header and, unless the header gives    *)
(* the length 0, a body; a unit is what the broker sends for one purpose.    *)

Names == {"CONNECT", "request", "empty", "RESET", "OTHER"}
Part(n, name, part) == [id |-> n, name |-> name, part |-> part]
Frame(n, name) == <<Part(n, name, "head"), Part(n, name, "body")>>

(* "BARE" is a CONNECT the broker does not follow with a request, "EMPTY" a  *)
(* CONNECT with a request of length 0, "STRAY" a request without a CONNECT,  *)
(* "OTHER" any other command.                                                *)
UnitParts(n, kind) ==
    CASE kind = "CONNECT" -> Frame(n, "CONNECT") \o Frame(n, "request")
      [] kind = "EMPTY"   -> Append(Frame(n, "CONNECT"), Part(n, "empty", "head"))
      [] kind = "BARE"    -> Frame(n, "CONNECT")
      [] kind = "STRAY"   -> Frame(n, "request")
      [] OTHER            -> Frame(n, kind)

IsCommand(name) == name \notin {"request", "empty"}

Command(n, req, kind, verdict) ==
    [id |-> n, req |-> req, kind |-> kind, verdict |-> verdict]
NoCommand == Command(0, 0, "none", "none")
Failed(verdict) == Command(0, 0, "none", verdict)

NoFrame == [id |-> 0, name |-> "none"]
Reader(at, frame, cmd) == [at |-> at, frame |-> frame, cmd |-> cmd]
Processor(at, cmd) == [at |-> at, cmd |-> cmd]

-----------------------------------------------------------------------------
Init ==
    /\ ctxDone = FALSE
    /\ pc = "connect" /\ outcome = "none" /\ result = NoCommand
    /\ attempts = 0 /\ delay = 1 /\ timeouts = 0
    /\ cur = 0
    /\ link = [s \in Session |-> "none"]
    /\ wire = <<>>
    /\ cancelled = {}
    /\ rd = [s \in Session |-> Reader("off", NoFrame, NoCommand)]
    /\ pr = [s \in Session |-> Processor("off", NoCommand)]
    /\ asked = <<>> /\ answered = <<>>
    /\ fetched = [s \in Session |-> 0]

Stopped(s) == ctxDone \/ s \in cancelled

(* connect() keeps the lock while it sleeps.                                 *)
Locked == pc = "sleep"

(* The session the broker and the agent both know of, 0 when there is none.  *)
Live == IF pc \in {"opened", "range", "result", "send", "closing"} THEN cur ELSE 0

-----------------------------------------------------------------------------
(* Start: connect, with its delays and its two ways to give up.              *)

(* Deferred cmdCancel calls run for every session this object had.           *)
Return(o) ==
    /\ pc' = "returned"
    /\ outcome' = o
    /\ cancelled' = cancelled \cup 1..cur

(* The slip allows one attempt more.                                         *)
RetriesOneTooMany == MaxConnRetry # -1 /\ attempts > MaxConnRetry
RetriesExhausted == MaxConnRetry # -1 /\ attempts >= MaxConnRetry

StartConnect ==
    /\ pc = "connect"
    /\ \/ attempts = 0 /\ pc' = "dial" /\ UNCHANGED <<outcome, cancelled>>
       \/ attempts > 0 /\ RetriesExhausted /\ Return("refresh")
       \/ /\ attempts > 0 /\ ~RetriesExhausted
          /\ pc' = "sleep" /\ UNCHANGED <<outcome, cancelled>>
    /\ UNCHANGED <<ctxDone, result, retryVars, timeouts, cur, netVars,
                   rd, pr, answered, fetched>>

(* getNextDelay: drift is uniform over MinDelayStep .. MaxDelayStep - 1, and *)
(* a delay that reached the maximum starts again at the minimum.  The slip   *)
(* forgets the maximum.                                                      *)
UncappedDelays(d) ==
    {d + drift : drift \in MinDelayStep .. (MaxDelayStep - 1)}
NextDelays(d) ==
    IF d = MaxDelay THEN {MinDelayStep}
    ELSE {IF d + drift > MaxDelay THEN MaxDelay ELSE d + drift :
            drift \in MinDelayStep .. (MaxDelayStep - 1)}

WakeUp ==
    /\ pc = "sleep"
    /\ \/ ctxDone /\ Return("nil") /\ UNCHANGED delay
       \/ /\ ~ctxDone
          /\ delay' \in NextDelays(delay)
          /\ IF attempts % ConfigRetryLimit = 0
             THEN Return("refresh")
             ELSE pc' = "dial" /\ UNCHANGED <<outcome, cancelled>>
    /\ UNCHANGED <<ctxDone, result, attempts, timeouts, cur, netVars,
                   rd, pr, answered, fetched>>

(* The dial fails (a timeout is retried or not, as its error says), or       *)
(* succeeds.                                                                 *)
Dial ==
    /\ pc = "dial"
    /\ attempts' = attempts + 1
    /\ \/ pc' \in {"connect", "intro"} /\ UNCHANGED <<outcome, cancelled>>
       \/ Return("refresh")
    /\ UNCHANGED <<ctxDone, result, delay, timeouts, cur, netVars,
                   rd, pr, answered, fetched>>

(* The introduction is written, or the attempt is retried: the new socket is *)
(* then dropped without a Close.                                             *)
SendIntro ==
    /\ pc = "intro"
    /\ \/ pc' = "connect" /\ UNCHANGED <<cur, link, timeouts>>
       \/ /\ cur < MaxSessions
          /\ cur' = cur + 1
          /\ link' = [link EXCEPT ![cur + 1] = "open"]
          /\ timeouts' = 0
          /\ pc' = "opened"
    /\ UNCHANGED <<ctxDone, outcome, result, retryVars, wire, asked, cancelled,
                   rd, pr, answered, fetched>>

(* Start checks its context (returning leaves the connection open), then     *)
(* starts the reader and the processor of the session.                       *)
Serve ==
    /\ pc = "opened"
    /\ \/ ctxDone /\ Return("nil") /\ UNCHANGED <<rd, pr>>
       \/ /\ ~ctxDone
          /\ pc' = "range"
          /\ rd' = [rd EXCEPT ![cur] = Reader("head", NoFrame, NoCommand)]
          /\ pr' = [pr EXCEPT ![cur] = Processor("take", NoCommand)]
          /\ UNCHANGED <<outcome, cancelled>>
    /\ UNCHANGED <<ctxDone, result, retryVars, timeouts, cur, netVars,
                   answered, fetched>>

-----------------------------------------------------------------------------
(* Start: the loop over the processed commands of the session.               *)

Shut ==
    /\ link' = [link EXCEPT ![cur] = "shut"]
    /\ wire' = <<>>

RangeEnds ==
    /\ pc = "range" /\ pr[cur].at = "exit"
    /\ pc' = "closing"
    /\ UNCHANGED <<ctxDone, outcome, result, retryVars, timeouts, cur, netVars,
                   cancelled, rd, pr, answered, fetched>>

HandleResult ==
    /\ pc = "result"
    /\ result' = IF ~ctxDone /\ result.verdict = "metrics" THEN result ELSE NoCommand
    /\ \/ ctxDone /\ Shut /\ Return("nil")
       \/ /\ ~ctxDone /\ result.verdict \in {"ignore", "unhandled"}
          /\ pc' = "range" /\ UNCHANGED <<outcome, cancelled, link, wire>>
       \/ /\ ~ctxDone /\ result.verdict = "reset"
          /\ pc' = "closing"
          /\ cancelled' = cancelled \cup {cur}
          /\ UNCHANGED <<outcome, link, wire>>
       \/ /\ ~ctxDone /\ result.verdict = "metrics"
          /\ pc' = "send" /\ UNCHANGED <<outcome, cancelled, link, wire>>
    /\ UNCHANGED <<ctxDone, retryVars, timeouts, cur, asked, rd,
                   pr, answered, fetched>>

(* resetConnectionAttempts; its slip forgets the delay.                      *)
ResetAttemptsKeepsDelay ==
    /\ attempts' = 0
    /\ UNCHANGED delay
ResetConnectionAttempts ==
    /\ attempts' = 0
    /\ delay' = IF attempts > 0 THEN 1 ELSE delay

(* The slip logs an error of the write and carries on.                       *)
SendOrCarryOn ==
    /\ pc = "send"
    /\ result' = NoCommand
    /\ pc' = "range"
    /\ \/ /\ answered' = Append(answered, [id |-> result.id, req |-> result.req])
          /\ ResetConnectionAttempts
       \/ UNCHANGED <<answered, retryVars>>
    /\ UNCHANGED <<ctxDone, outcome, timeouts, cur, netVars, cancelled, rd, pr, fetched>>
SendMetrics ==
    /\ pc = "send"
    /\ result' = NoCommand
    /\ \/ /\ answered' = Append(answered, [id |-> result.id, req |-> result.req])
          /\ ResetConnectionAttempts
          /\ pc' = "range"
          /\ UNCHANGED <<outcome, cancelled, link, wire>>
       \/ /\ Shut /\ Return("refresh")
          /\ UNCHANGED <<answered, retryVars>>
    /\ UNCHANGED <<ctxDone, timeouts, cur, asked, rd, pr, fetched>>

(* The slip reconnects without closing the session's connection.             *)
LeaveOpen ==
    /\ pc = "closing"
    /\ \/ ctxDone /\ Return("nil")
       \/ ~ctxDone /\ pc' = "connect" /\ UNCHANGED <<outcome, cancelled>>
    /\ UNCHANGED <<ctxDone, result, retryVars, timeouts, cur, netVars,
                   rd, pr, answered, fetched>>
CloseSession ==
    /\ pc = "closing"
    /\ Shut
    /\ \/ ctxDone /\ Return("nil")
       \/ ~ctxDone /\ pc' = "connect" /\ UNCHANGED <<outcome, cancelled>>
    /\ UNCHANGED <<ctxDone, result, retryVars, timeouts, cur, asked, rd,
                   pr, answered, fetched>>

-----------------------------------------------------------------------------
(* The command reader of session s.                                          *)

ReaderOnly == UNCHANGED <<ctxDone, loopVars, retryVars, cur, link, cancelled, pr,
                          answered, fetched>>

Offer(s, cmd) == rd' = [rd EXCEPT ![s] = Reader("offer", NoFrame, cmd)]

(* The next part of the unit in progress arrives, or the first of a new one. *)
NextPart(s, p) ==
    \/ wire # <<>> /\ p = Head(wire) /\ wire' = Tail(wire) /\ UNCHANGED asked
    \/ /\ wire = <<>> /\ Len(asked) < MaxAsked
       /\ \E k \in Units :
            /\ p = UnitParts(Len(asked) + 1, k)[1]
            /\ wire' = Tail(UnitParts(Len(asked) + 1, k))
            /\ asked' = Append(asked, [session |-> s, kind |-> k])

(* A body where a header is due (a timeout fell between the two) is taken    *)
(* for a header: its length is absurd or too few bytes arrive, an error that *)
(* is not a timeout; so is a header or a body that arrives in pieces, for    *)
(* readBytes reads once.                                                     *)
ReadHead(s) ==
    /\ rd[s].at = "head" /\ link[s] = "open"
    /\ \E n \in 0..MaxAsked, name \in Names, part \in {"head", "body"} :
        /\ NextPart(s, Part(n, name, part))
        /\ \/ Offer(s, Failed("reset"))
           \/ /\ part = "head"
              /\ rd' = [rd EXCEPT ![s] = Reader(IF name = "empty" THEN "got" ELSE "body",
                                                [id |-> n, name |-> name], rd[s].cmd)]
    /\ UNCHANGED timeouts
    /\ ReaderOnly

ReadBody(s) ==
    /\ rd[s].at = "body" /\ link[s] = "open" /\ wire # <<>>
    /\ \/ /\ rd' = [rd EXCEPT ![s] = Reader("got", rd[s].frame, rd[s].cmd)]
          /\ wire' = Tail(wire)
       \/ Offer(s, Failed("reset")) /\ UNCHANGED wire
    /\ UNCHANGED <<timeouts, asked>>
    /\ ReaderOnly

(* Nothing arrives within CommTimeoutSeconds; what was read of the frame is  *)
(* forgotten, the connection is not.                                         *)
ReadTimesOut(s) ==
    /\ rd[s].at \in {"head", "body"} /\ link[s] = "open"
    /\ rd' = [rd EXCEPT ![s] = Reader("late", NoFrame, NoCommand)]
    /\ UNCHANGED <<timeouts, wire, asked>>
    /\ ReaderOnly

ReadFails(s) ==
    /\ rd[s].at \in {"head", "body"} /\ link[s] \in {"hung", "shut"}
    /\ Offer(s, Failed("reset"))
    /\ UNCHANGED <<timeouts, wire, asked>>
    /\ ReaderOnly

(* The slip never gives up on a silent broker.                               *)
NeverTooLate(s) ==
    /\ rd[s].at = "late" /\ ~Locked
    /\ timeouts' = 0
    /\ Offer(s, Failed("ignore"))
    /\ UNCHANGED <<wire, asked>>
    /\ ReaderOnly
CountTimeout(s) ==
    /\ rd[s].at = "late" /\ ~Locked
    /\ timeouts' = timeouts + 1
    /\ Offer(s, Failed(IF timeouts' <= MaxCommTimeouts THEN "ignore" ELSE "reset"))
    /\ UNCHANGED <<wire, asked>>
    /\ ReaderOnly

(* The reader after a whole frame: the first frame is the command, the one   *)
(* after a CONNECT its request.                                              *)
AfterCommand(f) ==
    CASE ~IsCommand(f.name) -> Reader("offer", NoFrame, Failed("unhandled"))
      [] f.name = "CONNECT" -> Reader("head", NoFrame, Command(f.id, 0, "CONNECT", "none"))
      [] OTHER              -> Reader("offer", NoFrame, Command(f.id, 0, f.name, "none"))

AfterRequest(c, f) ==
    CASE IsCommand(f.name) ->
            Reader("offer", NoFrame, Command(c.id, 0, "CONNECT", "unhandled"))
      [] f.name = "empty"  -> Reader("offer", NoFrame, Command(c.id, f.id, "EMPTY", "none"))
      [] OTHER             -> Reader("offer", NoFrame, Command(c.id, f.id, "CONNECT", "none"))

GotFrame(s) ==
    /\ rd[s].at = "got" /\ ~Locked
    /\ timeouts' = 0
    /\ rd' = [rd EXCEPT ![s] = IF rd[s].cmd = NoCommand
                               THEN AfterCommand(rd[s].frame)
                               ELSE AfterRequest(rd[s].cmd, rd[s].frame)]
    /\ UNCHANGED <<wire, asked>>
    /\ ReaderOnly

(* The reader's select: hand the command over, or stop.                      *)
PassCommand(s) ==
    /\ rd[s].at = "offer" /\ pr[s].at = "take"
    /\ pr' = [pr EXCEPT ![s] = Processor("work", rd[s].cmd)]
    /\ rd' = [rd EXCEPT ![s] = Reader("head", NoFrame, NoCommand)]
    /\ UNCHANGED <<ctxDone, loopVars, retryVars, timeouts, cur, netVars,
                   cancelled, answered, fetched>>

(* The slip hands commands over and never looks at the context.              *)
ReaderNeverStops(s) == FALSE /\ rd[s].at = "offer" /\ UNCHANGED vars
ReaderStops(s) ==
    /\ rd[s].at = "offer" /\ Stopped(s)
    /\ rd' = [rd EXCEPT ![s] = Reader("exit", NoFrame, NoCommand)]
    /\ UNCHANGED <<timeouts, wire, asked>>
    /\ ReaderOnly

-----------------------------------------------------------------------------
(* The command processor of session s.                                       *)

ProcessorOnly == UNCHANGED <<ctxDone, retryVars, timeouts, cur, netVars, cancelled,
                             rd, answered>>

(* processCommand: what becomes of a command.  A CONNECT fetches the metrics *)
(* from the local agent, which drains the statsd and plugin buffers, or      *)
(* fails to.                                                                 *)
Verdicts(c) ==
    IF c.verdict # "none" THEN {c.verdict}
    ELSE CASE c.kind = "RESET"   -> {"reset"}
           [] c.kind = "EMPTY"   -> {"unhandled"}
           [] c.kind = "CONNECT" -> {"unhandled", "metrics"}
           [] OTHER              -> {"ignore"}

Process(s) ==
    /\ pr[s].at = "work"
    /\ \E v \in Verdicts(pr[s].cmd) :
         /\ pr' = [pr EXCEPT ![s] =
                     Processor("offer", Command(pr[s].cmd.id, pr[s].cmd.req, pr[s].cmd.kind, v))]
         /\ fetched' = [fetched EXCEPT ![s] = IF v = "metrics" THEN @ + 1 ELSE @]
    /\ UNCHANGED loopVars
    /\ ProcessorOnly

(* Start ranges over the channel of its current session only; the slip is to *)
(* keep ranging over one channel shared by the processors of all sessions.   *)
DeliverFromAny(s) ==
    /\ pr[s].at = "offer" /\ pc = "range"
    /\ result' = pr[s].cmd
    /\ pc' = "result"
    /\ pr' = [pr EXCEPT ![s] = Processor("take", NoCommand)]
    /\ UNCHANGED <<outcome, fetched>>
    /\ ProcessorOnly
Deliver(s) ==
    /\ pr[s].at = "offer" /\ pc = "range" /\ s = cur
    /\ result' = pr[s].cmd
    /\ pc' = "result"
    /\ pr' = [pr EXCEPT ![s] = Processor("take", NoCommand)]
    /\ UNCHANGED <<outcome, fetched>>
    /\ ProcessorOnly

ProcessorStops(s) ==
    /\ pr[s].at = "offer" /\ Stopped(s)
    /\ pr' = [pr EXCEPT ![s] = Processor("exit", NoCommand)]
    /\ UNCHANGED <<loopVars, fetched>>
    /\ ProcessorOnly

(* The reader closed its channel.                                            *)
CommandsEnd(s) ==
    /\ pr[s].at = "take" /\ rd[s].at = "exit"
    /\ pr' = [pr EXCEPT ![s] = Processor("exit", NoCommand)]
    /\ UNCHANGED <<loopVars, fetched>>
    /\ ProcessorOnly

-----------------------------------------------------------------------------
(* The broker and the agent's caller.                                        *)

BrokerHangsUp ==
    /\ Live # 0 /\ link[cur] = "open"
    /\ link' = [link EXCEPT ![cur] = "hung"]
    /\ UNCHANGED <<ctxDone, loopVars, retryVars, timeouts, cur, wire, asked, cancelled,
                   rd, pr, answered, fetched>>

(* The agent stops: a signal, or an error of another part of it.             *)
Cancel ==
    /\ ~ctxDone
    /\ ctxDone' = TRUE
    /\ UNCHANGED <<loopVars, retryVars, timeouts, cur, netVars, cancelled, rd, pr,
                   answered, fetched>>

-----------------------------------------------------------------------------
StartStep ==
    \/ StartConnect \/ WakeUp \/ Dial \/ SendIntro \/ Serve
    \/ RangeEnds \/ HandleResult \/ SendMetrics \/ CloseSession

ReaderStep(s) ==
    \/ ReadHead(s) \/ ReadBody(s) \/ ReadTimesOut(s) \/ ReadFails(s)
    \/ CountTimeout(s) \/ GotFrame(s) \/ PassCommand(s) \/ ReaderStops(s)

ProcessorStep(s) ==
    Process(s) \/ Deliver(s) \/ ProcessorStops(s) \/ CommandsEnd(s)

AllStopped ==
    /\ pc = "returned"
    /\ \A s \in Session : rd[s].at \in {"off", "exit"} /\ pr[s].at \in {"off", "exit"}

(* Start returned and its goroutines ended: nothing is left to happen.       *)
Finished == AllStopped /\ UNCHANGED vars

ConnectionStep ==
    \/ StartStep
    \/ \E s \in Session : ReaderStep(s) \/ ProcessorStep(s)
    \/ BrokerHangsUp
    \/ Cancel

Next == ConnectionStep \/ Finished

Spec == Init /\ [][Next]_vars

(* Goroutines are scheduled: each takes a step it can take.  A read returns  *)
(* (data, error or deadline), a dial, a fetch and a write end (deadlines), a *)
(* sleep ends.  The broker and the caller owe nothing.                       *)
FairSpec ==
    /\ Spec
    /\ WF_vars(StartStep)
    /\ \A s \in Session : WF_vars(ReaderStep(s)) /\ WF_vars(ProcessorStep(s))
-----------------------------------------------------------------------------
(* What the connection guarantees.                                           *)

CommandType == [id : Nat, req : Nat, kind : {"none", "CONNECT", "EMPTY", "RESET", "OTHER"},
                verdict : {"none", "ignore", "unhandled", "reset", "metrics"}]
FrameType == [id : Nat, name : Names \cup {"none"}]
PartType == [id : Nat, name : Names, part : {"head", "body"}]
ReaderType == [at : {"off", "head", "body", "late", "got", "offer", "exit"},
               frame : FrameType, cmd : CommandType]
ProcessorType == [at : {"off", "take", "work", "offer", "exit"}, cmd : CommandType]

(* Every variable of the connection stays in its range; the retry delay      *)
(* never exceeds MaxDelaySeconds (connection.go:324-343).                    *)
TypeOK ==
    /\ ctxDone \in BOOLEAN
    /\ pc \in {"connect", "sleep", "dial", "intro", "opened", "range", "result",
               "send", "closing", "returned"}
    /\ outcome \in {"none", "nil", "refresh"}
    /\ result \in CommandType
    /\ attempts \in Nat /\ delay \in 1..MaxDelay /\ timeouts \in Nat
    /\ cur \in 0..MaxSessions
    /\ link \in [Session -> {"none", "open", "hung", "shut"}]
    /\ wire \in Seq(PartType)
    /\ cancelled \in SUBSET (0..MaxSessions)
    /\ rd \in [Session -> ReaderType]
    /\ pr \in [Session -> ProcessorType]
    /\ asked \in Seq([session : Session, kind : Units])
    /\ answered \in Seq([id : Nat, req : Nat])
    /\ fetched \in [Session -> Nat]

(* A session that was served is closed before the next one is dialled, and   *)
(* only the session Start works on can be open: the broker never has two     *)
(* connections of one agent to answer on (connection.go:138-230).            *)
OneLiveSession ==
    \A s \in Session :
        link[s] \in {"open", "hung"} /\ rd[s].at # "off" =>
            s = cur /\ pc \in {"range", "result", "send", "closing"}

(* Start leaves by itself before attempts exceeds ConfigRetryLimit, and a    *)
(* connection that just answered the broker starts over with the shortest    *)
(* delay (connection.go:234-278, 345-353).                                   *)
RetryBudget ==
    /\ attempts <= ConfigRetryLimit
    /\ attempts = 0 => delay = 1

AnswersOn(s) == Cardinality({i \in DOMAIN answered : asked[answered[i].id].session = s})

Held(s) ==
    (IF pr[s].at = "offer" /\ pr[s].cmd.verdict = "metrics" THEN 1 ELSE 0) +
    (IF s = cur /\ result.verdict = "metrics" THEN 1 ELSE 0)

(* A fetch empties the agent's buffers, so a fetch that is not sent is data  *)
(* lost.  However reader, processor and Start overlap, a batch is only lost  *)
(* together with its session: until the session is stopped, every batch was  *)
(* sent or is in the hands of its processor or of Start.                     *)
LossEndsSession ==
    \A s \in Session : ~Stopped(s) => fetched[s] = AnswersOn(s) + Held(s)

(* The refinement mapping: a session is live from the introduction until     *)
(* Start is done with it.                                                    *)
Exchange == INSTANCE MetricExchange WITH opened <- cur, live <- Live

(* Whatever the broker sends and whenever frames are late, answers go out on *)
(* the session that was asked, in order, once, each with the data of its own *)
(* request (command_reader.go:34-118, command_processor.go:30-61).           *)
AnswersAsAsked == Exchange!ExchangeSpec

(* The refinement mapping: a session is live from the introduction on; the   *)
(* attempt Dial counts is made when the introduction is.                     *)
Life == INSTANCE ConnectionLife WITH
    phase <- CASE pc \in {"connect", "sleep"} -> "retry"
               [] pc \in {"dial", "intro"}    -> "dial"
               [] pc = "returned"             -> "returned"
               [] OTHER                       -> "live",
    attempts <- IF pc = "intro" THEN attempts - 1 ELSE attempts

(* Goroutines, frames and timeouts do not show in what Start does for its    *)
(* caller: it counts, gives up and returns as ConnectionLife says, on which  *)
(* Reverse builds (connection.go:138-278).                                   *)
LivesAsPromised == Life!LifeSpec

(* After the agent's context is cancelled, Start returns and every reader    *)
(* and processor of every session ends.                                      *)
CancelStopsAll == ctxDone ~> AllStopped

(* The broker sends MaxAsked units at most, so it falls silent: the agent    *)
(* notices and closes the session, it does not wait for ever.                *)
SilenceEndsSession == \A s \in Session : rd[s].at # "off" ~> link[s] = "shut"
=============================================================================
