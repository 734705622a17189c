-------------------------- MODULE ConnectionProofs --------------------------
(* Theorems about Connection, for every value of its constants.              *)
EXTENDS Connection, FiniteSetTheorems, SequenceTheorems, TLAPS

(* A command is a command whatever its verdict, and the parts of a unit are  *)
(* frame parts.                                                              *)
LEMMA CommandTypes ==
    /\ NoCommand \in CommandType
    /\ \A v \in {"ignore", "unhandled", "reset"} : Failed(v) \in CommandType
  BY DEF NoCommand, Failed, Command, CommandType

(* The empty sequence is a sequence over any set.                            *)
LEMMA EmptyIsSeq == ASSUME NEW S PROVE <<>> \in Seq(S)
  OBVIOUS

(* Reading a part leaves a sequence of parts.                                *)
LEMMA TailIsSeq == ASSUME NEW S, NEW q \in Seq(S), q # <<>> PROVE Tail(q) \in Seq(S)
  OBVIOUS

(* UnitParts only ever builds sequences of frame parts, and never an empty   *)
(* one (frame.go: a frame has a header).                                     *)
LEMMA UnitPartsType ==
    ASSUME NEW n \in Nat, NEW k \in Units
    PROVE  /\ UnitParts(n, k) \in Seq(PartType)
           /\ UnitParts(n, k) # <<>>
  <1>1. k \in {"CONNECT", "BARE", "EMPTY", "STRAY", "RESET", "OTHER"}
    BY ConnectionAssumption DEF ConnectionAssumption
  <1>2. \A name \in Names, part \in {"head", "body"} : Part(n, name, part) \in PartType
    BY DEF Part, PartType
  <1>3. \A name \in Names : Frame(n, name) \in Seq(PartType) /\ Frame(n, name) # <<>>
    BY <1>2 DEF Frame, Names
  <1>4. k \in {"CONNECT", "EMPTY", "BARE", "STRAY"} =>
          UnitParts(n, k) \in Seq(PartType) /\ UnitParts(n, k) # <<>>
    BY <1>2, <1>3 DEF UnitParts, Names, Frame
  <1>5. k \in {"RESET", "OTHER"} =>
          UnitParts(n, k) \in Seq(PartType) /\ UnitParts(n, k) # <<>>
    BY <1>2, <1>3 DEF UnitParts, Names, Frame
  <1> QED BY <1>1, <1>4, <1>5

(* getNextDelay yields a delay within the maximum, given one.                *)
LEMMA NextDelaysType ==
    ASSUME NEW d \in 1..MaxDelay
    PROVE  NextDelays(d) \subseteq 1..MaxDelay
  BY ConnectionAssumption DEF ConnectionAssumption, NextDelays

(* What the reader hands over is a command.                                  *)
LEMMA OfferType ==
    ASSUME rd \in [Session -> ReaderType], NEW s \in Session,
           NEW c \in CommandType, Offer(s, c)
    PROVE  rd' \in [Session -> ReaderType]
  BY DEF Offer, Reader, NoFrame, ReaderType, FrameType

(* The command reader keeps every variable in its range.                     *)
LEMMA ReaderKeepsType ==
    ASSUME TypeOK, NEW s \in Session, ReaderStep(s)
    PROVE  TypeOK'
  <1> USE CommandTypes DEF TypeOK, ReaderOnly, loopVars, retryVars, Offer, Reader,
          NoFrame, FrameType
  <1>0. rd \in [Session -> ReaderType] /\ pr \in [Session -> ProcessorType]
    OBVIOUS
  <1>1. CASE ReadHead(s)
    <2>1. PICK n \in 0..MaxAsked, name \in Names, part \in {"head", "body"} :
            /\ NextPart(s, Part(n, name, part))
            /\ \/ Offer(s, Failed("reset"))
               \/ /\ part = "head"
                  /\ rd' = [rd EXCEPT ![s] = Reader(IF name = "empty" THEN "got" ELSE "body",
                                                    [id |-> n, name |-> name], rd[s].cmd)]
      BY <1>1 DEF ReadHead
    <2>2. n \in Nat
      BY ConnectionAssumption DEF ConnectionAssumption
    <2>3. rd' \in [Session -> ReaderType]
      <3>1. CASE Offer(s, Failed("reset"))
        BY <3>1, OfferType
      <3>2. CASE rd' = [rd EXCEPT ![s] = Reader(IF name = "empty" THEN "got" ELSE "body",
                                                [id |-> n, name |-> name], rd[s].cmd)]
        <4>1. [id |-> n, name |-> name] \in FrameType
          BY <2>2
        <4>2. Reader(IF name = "empty" THEN "got" ELSE "body", [id |-> n, name |-> name],
                     rd[s].cmd) \in ReaderType
          BY <1>0, <4>1 DEF ReaderType
        <4> QED BY <1>0, <3>2, <4>2
      <3> QED BY <2>1, <3>1, <3>2
    <2>4. wire' \in Seq(PartType) /\ asked' \in Seq([session : Session, kind : Units])
      <3>1. CASE wire # <<>> /\ wire' = Tail(wire) /\ UNCHANGED asked
        BY <3>1
      <3>2. CASE \E k \in Units :
                   /\ wire' = Tail(UnitParts(Len(asked) + 1, k))
                   /\ asked' = Append(asked, [session |-> s, kind |-> k])
        BY <3>2, UnitPartsType
      <3> QED BY <2>1, <3>1, <3>2 DEF NextPart
    <2> QED BY <1>1, <2>3, <2>4 DEF ReadHead
  <1>2. CASE ReadBody(s)
    <2>1. rd' \in [Session -> ReaderType]
      <3>1. CASE Offer(s, Failed("reset"))
        BY <3>1, OfferType
      <3>2. CASE rd' = [rd EXCEPT ![s] = Reader("got", rd[s].frame, rd[s].cmd)]
        BY <3>2 DEF ReaderType
      <3> QED BY <1>2, <3>1, <3>2 DEF ReadBody
    <2>2. wire # <<>> /\ (wire' = Tail(wire) \/ wire' = wire)
      BY <1>2 DEF ReadBody
    <2>3. wire' \in Seq(PartType)
      <3>1. wire \in Seq(PartType)
        OBVIOUS
      <3> HIDE DEF TypeOK
      <3> QED BY <2>2, <3>1, TailIsSeq, Zenon
    <2> QED BY <1>2, <2>1, <2>3 DEF ReadBody
  <1>3. CASE ReadTimesOut(s)
    BY <1>3 DEF ReadTimesOut, ReaderType
  <1>4. CASE ReadFails(s)
    BY <1>4, OfferType DEF ReadFails
  <1>5. CASE CountTimeout(s)
    <2>1. rd' \in [Session -> ReaderType]
      BY <1>5, OfferType DEF CountTimeout
    <2> QED BY <1>5, <2>1 DEF CountTimeout
  <1>6. CASE GotFrame(s)
    <2>1. rd[s].frame \in FrameType /\ rd[s].cmd \in CommandType
      BY <1>0 DEF ReaderType
    <2>2. AfterCommand(rd[s].frame) \in ReaderType
      BY <2>1 DEF AfterCommand, IsCommand, Command, Failed, CommandType, Names, ReaderType
    <2>3. AfterRequest(rd[s].cmd, rd[s].frame) \in ReaderType
      BY <2>1 DEF AfterRequest, IsCommand, Command, CommandType, Names, ReaderType
    <2>4. rd' \in [Session -> ReaderType]
      BY <1>0, <1>6, <2>2, <2>3 DEF GotFrame
    <2> QED BY <1>6, <2>4 DEF GotFrame
  <1>7. CASE PassCommand(s)
    BY <1>7 DEF PassCommand, netVars, Processor, ReaderType, ProcessorType
  <1>8. CASE ReaderStops(s)
    BY <1>8 DEF ReaderStops, ReaderType
  <1> QED
    BY <1>1, <1>2, <1>3, <1>4, <1>5, <1>6, <1>7, <1>8 DEF ReaderStep

(* The command processor keeps every variable in its range.                  *)
LEMMA ProcessorKeepsType ==
    ASSUME TypeOK, NEW s \in Session, ProcessorStep(s)
    PROVE  TypeOK'
  <1> USE DEF TypeOK, ProcessorOnly, loopVars, retryVars, netVars, Processor
  <1>1. pr[s].cmd \in CommandType
    BY DEF ProcessorType
  <1>2. CASE Process(s)
    <2>1. PICK v \in {"none", "ignore", "unhandled", "reset", "metrics"} :
            /\ pr' = [pr EXCEPT ![s] =
                        Processor("offer", Command(pr[s].cmd.id, pr[s].cmd.req, pr[s].cmd.kind, v))]
            /\ fetched' = [fetched EXCEPT ![s] = IF v = "metrics" THEN @ + 1 ELSE @]
      <3>1. Verdicts(pr[s].cmd) \subseteq {"none", "ignore", "unhandled", "reset", "metrics"}
        BY <1>1 DEF Verdicts, CommandType
      <3> QED BY <1>2, <3>1 DEF Process
    <2>2. Processor("offer", Command(pr[s].cmd.id, pr[s].cmd.req, pr[s].cmd.kind, v))
            \in ProcessorType
      BY <1>1 DEF Command, CommandType, ProcessorType
    <2>4. pr' \in [Session -> ProcessorType]
      BY <2>1, <2>2
    <2>5. fetched' \in [Session -> Nat]
      BY <2>1
    <2> QED BY <1>2, <2>4, <2>5 DEF Process
  <1>3. CASE Deliver(s)
    BY <1>1, <1>3, CommandTypes DEF Deliver, ProcessorType
  <1>4. CASE ProcessorStops(s)
    BY <1>4, CommandTypes DEF ProcessorStops, ProcessorType
  <1>5. CASE CommandsEnd(s)
    BY <1>5, CommandTypes DEF CommandsEnd, ProcessorType
  <1> QED BY <1>2, <1>3, <1>4, <1>5 DEF ProcessorStep

(* Cancelling one session, or all of them up to the current one.             *)
LEMMA CancelledType ==
    ASSUME cancelled \in SUBSET (0..MaxSessions), cur \in 0..MaxSessions
    PROVE  /\ cancelled \cup {cur} \in SUBSET (0..MaxSessions)
           /\ cancelled \cup 1..cur \in SUBSET (0..MaxSessions)
  <1>1. \A x \in 1..cur : x \in 0..MaxSessions
    BY ConnectionAssumption DEF ConnectionAssumption
  <1> QED BY <1>1

(* Start keeps every variable in its range.                                  *)
LEMMA StartKeepsType ==
    ASSUME TypeOK, StartStep
    PROVE  TypeOK'
  <1>0. /\ cancelled \cup {cur} \in SUBSET (0..MaxSessions)
        /\ cancelled \cup 1..cur \in SUBSET (0..MaxSessions)
    BY CancelledType DEF TypeOK
  <1> USE DEF TypeOK, loopVars, retryVars, netVars, Return
  <1>1. CASE StartConnect
    BY <1>0, <1>1 DEF StartConnect
  <1>2. CASE WakeUp
    BY <1>0, <1>2, NextDelaysType DEF WakeUp
  <1>3. CASE Dial
    <2>1. pc' \in {"connect", "intro", "returned"} /\ outcome' \in {"none", "nil", "refresh"}
      BY <1>3 DEF Dial
    <2>2. cancelled' \in SUBSET (0..MaxSessions)
      BY <1>0, <1>3 DEF Dial
    <2> QED BY <1>3, <2>1, <2>2 DEF Dial
  <1>4. CASE SendIntro
    <2>1. link' \in [Session -> {"none", "open", "hung", "shut"}]
      BY <1>4 DEF SendIntro
    <2>2. cur' \in 0..MaxSessions
      BY <1>4, ConnectionAssumption DEF SendIntro, ConnectionAssumption
    <2> QED BY <1>4, <2>1, <2>2 DEF SendIntro
  <1>5. CASE Serve
    <2>1. Reader("head", NoFrame, NoCommand) \in ReaderType
      BY CommandTypes DEF Reader, NoFrame, ReaderType, FrameType
    <2>2. Processor("take", NoCommand) \in ProcessorType
      BY CommandTypes DEF Processor, ProcessorType
    <2>3. rd' \in [Session -> ReaderType] /\ pr' \in [Session -> ProcessorType]
      BY <1>5, <2>1, <2>2 DEF Serve
    <2> QED BY <1>0, <1>5, <2>3 DEF Serve
  <1>6. CASE RangeEnds
    BY <1>6 DEF RangeEnds
  <1>7. CASE HandleResult
    <2>1. link' \in [Session -> {"none", "open", "hung", "shut"}] /\ wire' \in Seq(PartType)
      BY <1>7, EmptyIsSeq DEF HandleResult, Shut
    <2>2. result' \in CommandType
      BY <1>7, CommandTypes DEF HandleResult
    <2>3. cancelled' \in SUBSET (0..MaxSessions)
      BY <1>0, <1>7 DEF HandleResult
    <2> QED BY <1>7, <2>1, <2>2, <2>3 DEF HandleResult
  <1>8. CASE SendMetrics
    <2>1. [id |-> result.id, req |-> result.req] \in [id : Nat, req : Nat]
      BY DEF CommandType
    <2>2. answered' \in Seq([id : Nat, req : Nat])
      <3>1. Append(answered, [id |-> result.id, req |-> result.req])
              \in Seq([id : Nat, req : Nat])
        BY <2>1
      <3> QED BY <1>8, <3>1 DEF SendMetrics
    <2>3. link' \in [Session -> {"none", "open", "hung", "shut"}] /\ wire' \in Seq(PartType)
      BY <1>8, EmptyIsSeq DEF SendMetrics, Shut
    <2>4. attempts' \in Nat /\ delay' \in 1..MaxDelay
      BY <1>8, ConnectionAssumption DEF SendMetrics, ResetConnectionAttempts, ConnectionAssumption
    <2> QED BY <1>0, <1>8, <2>2, <2>3, <2>4, CommandTypes DEF SendMetrics
  <1>9. CASE CloseSession
    <2>1. link' \in [Session -> {"none", "open", "hung", "shut"}] /\ wire' \in Seq(PartType)
      BY <1>9, EmptyIsSeq DEF CloseSession, Shut
    <2> QED BY <1>0, <1>9, <2>1 DEF CloseSession
  <1> QED
    BY <1>1, <1>2, <1>3, <1>4, <1>5, <1>6, <1>7, <1>8, <1>9 DEF StartStep

(* Type correctness, whatever the broker, the network and the scheduler do.  *)
THEOREM TypeCorrect == Spec => []TypeOK
  <1>1. Init => TypeOK
    <2> SUFFICES ASSUME Init PROVE TypeOK
      OBVIOUS
    <2>1. Reader("off", NoFrame, NoCommand) \in ReaderType
      BY CommandTypes DEF Reader, NoFrame, ReaderType, FrameType
    <2>2. Processor("off", NoCommand) \in ProcessorType
      BY CommandTypes DEF Processor, ProcessorType
    <2>3. wire \in Seq(PartType) /\ asked \in Seq([session : Session, kind : Units])
          /\ answered \in Seq([id : Nat, req : Nat])
      BY EmptyIsSeq DEF Init
    <2>4. cur \in 0..MaxSessions /\ delay \in 1..MaxDelay
      BY ConnectionAssumption DEF Init, ConnectionAssumption
    <2> QED
      BY CommandTypes, <2>1, <2>2, <2>3, <2>4 DEF Init, TypeOK
  <1>2. TypeOK /\ [Next]_vars => TypeOK'
    <2> SUFFICES ASSUME TypeOK, [Next]_vars PROVE TypeOK'
      OBVIOUS
    <2>1. CASE StartStep
      BY <2>1, StartKeepsType
    <2>2. CASE \E s \in Session : ReaderStep(s)
      BY <2>2, ReaderKeepsType
    <2>3. CASE \E s \in Session : ProcessorStep(s)
      BY <2>3, ProcessorKeepsType
    <2>4. CASE BrokerHangsUp
      BY <2>4 DEF BrokerHangsUp, TypeOK, loopVars, retryVars
    <2>5. CASE Cancel
      BY <2>5 DEF Cancel, TypeOK, loopVars, retryVars, netVars
    <2>6. CASE UNCHANGED vars
      BY <2>6 DEF TypeOK, vars, loopVars, retryVars, netVars
    <2> QED
      BY <2>1, <2>2, <2>3, <2>4, <2>5, <2>6 DEF Next, ConnectionStep, Finished
  <1> QED BY <1>1, <1>2, PTL DEF Spec
-----------------------------------------------------------------------------
(* Retry budget.                                                             *)

(* What makes RetryBudget inductive: where Start is between the test of the  *)
(* attempts and the dial they allow.                                         *)
RetryInv ==
    /\ RetryBudget
    /\ pc = "sleep" => attempts >= 1
    /\ pc = "dial" => attempts < ConfigRetryLimit

(* A number is a multiple of itself.                                         *)
LEMMA SelfModulo == ASSUME NEW n \in Nat \ {0} PROVE n % n = 0
  OBVIOUS

(* Start stops dialling after ConfigRetryLimit attempts without an answer,   *)
(* and a connection that answered starts over with the shortest delay.       *)
THEOREM RetryBudgetHolds == Spec => []RetryBudget
  <1>1. Init => RetryInv
    BY ConnectionAssumption DEF Init, RetryInv, RetryBudget, ConnectionAssumption
  <1>2. TypeOK /\ RetryInv /\ [Next]_vars => RetryInv'
    <2> SUFFICES ASSUME TypeOK, RetryInv, [Next]_vars PROVE RetryInv'
      OBVIOUS
    <2> USE DEF RetryInv, RetryBudget, loopVars, retryVars
    <2>1. attempts \in Nat /\ delay \in 1..MaxDelay /\ ConfigRetryLimit \in Nat \ {0}
      BY ConnectionAssumption DEF TypeOK, ConnectionAssumption
    <2>2. CASE StartConnect
      BY <2>1, <2>2 DEF StartConnect, Return
    <2>3. CASE WakeUp
      BY <2>1, <2>3, SelfModulo DEF WakeUp, Return
    <2>4. CASE Dial
      BY <2>1, <2>4 DEF Dial, Return
    <2>5. CASE SendIntro
      BY <2>1, <2>5 DEF SendIntro
    <2>6. CASE Serve
      BY <2>1, <2>6 DEF Serve, Return
    <2>7. CASE RangeEnds
      BY <2>1, <2>7 DEF RangeEnds
    <2>8. CASE HandleResult
      BY <2>1, <2>8 DEF HandleResult, Return
    <2>9. CASE SendMetrics
      BY <2>1, <2>9 DEF SendMetrics, Return, ResetConnectionAttempts
    <2>10. CASE CloseSession
      BY <2>1, <2>10 DEF CloseSession, Return
    <2>11. CASE \E s \in Session : ReaderStep(s)
      BY <2>11 DEF ReaderStep, ReadHead, ReadBody, ReadTimesOut, ReadFails, CountTimeout,
         GotFrame, PassCommand, ReaderStops, ReaderOnly
    <2>12. CASE \E s \in Session : ProcessorStep(s)
      BY <2>1, <2>12 DEF ProcessorStep, Process, Deliver, ProcessorStops, CommandsEnd,
         ProcessorOnly
    <2>13. CASE BrokerHangsUp
      BY <2>13 DEF BrokerHangsUp
    <2>14. CASE Cancel
      BY <2>14 DEF Cancel
    <2>15. CASE UNCHANGED vars
      BY <2>15 DEF vars
    <2> QED
      BY <2>2, <2>3, <2>4, <2>5, <2>6, <2>7, <2>8, <2>9, <2>10, <2>11, <2>12, <2>13,
         <2>14, <2>15 DEF Next, ConnectionStep, StartStep, Finished
  <1>3. RetryInv => RetryBudget
    BY DEF RetryInv
  <1> QED BY <1>1, <1>2, <1>3, TypeCorrect, PTL DEF Spec

-----------------------------------------------------------------------------
(* One live session.                                                         *)

Serving == {"range", "result", "send", "closing"}

(* What makes OneLiveSession inductive: sessions to come are untouched.      *)
SessionInv ==
    /\ OneLiveSession
    /\ \A s \in Session : s > cur => link[s] = "none" /\ rd[s].at = "off"
    /\ pc \in Serving \cup {"opened"} => cur \in Session
    /\ pc = "opened" => rd[cur].at = "off"

LEMMA SessionInvHolds == Spec => []SessionInv
  <1>1. Init => SessionInv
    BY DEF Init, SessionInv, OneLiveSession, Serving, Reader, Session
  <1>2. TypeOK /\ SessionInv /\ [Next]_vars => SessionInv'
    <2> SUFFICES ASSUME TypeOK, SessionInv, [Next]_vars PROVE SessionInv'
      OBVIOUS
    <2> USE DEF SessionInv, OneLiveSession, Serving, loopVars, retryVars, netVars
    <2>1. /\ cur \in 0..MaxSessions /\ MaxSessions \in Nat
          /\ link \in [Session -> {"none", "open", "hung", "shut"}]
          /\ rd \in [Session -> ReaderType]
      BY ConnectionAssumption DEF TypeOK, ConnectionAssumption
    <2>2. CASE StartConnect
      BY <2>2 DEF StartConnect, Return
    <2>3. CASE WakeUp
      BY <2>3 DEF WakeUp, Return
    <2>4. CASE Dial
      BY <2>4 DEF Dial, Return
    <2>5. CASE SendIntro
      BY <2>1, <2>5 DEF SendIntro, Session
    <2>6. CASE Serve
      BY <2>1, <2>6 DEF Serve, Return, Session
    <2>7. CASE RangeEnds
      BY <2>7 DEF RangeEnds
    <2>8. CASE HandleResult
      BY <2>1, <2>8 DEF HandleResult, Return, Shut, Session
    <2>9. CASE SendMetrics
      BY <2>1, <2>9 DEF SendMetrics, Return, Shut, Session
    <2>10. CASE CloseSession
      BY <2>1, <2>10 DEF CloseSession, Return, Shut, Session
    <2>11. CASE \E s \in Session : ReaderStep(s)
      <3> PICK s \in Session : ReaderStep(s)
        BY <2>11
      <3>1. rd[s].at # "off" /\ UNCHANGED <<link, cur, pc>>
            /\ \E r : rd' = [rd EXCEPT ![s] = r]
        BY DEF ReaderStep, ReadHead, ReadBody, ReadTimesOut, ReadFails, CountTimeout,
           GotFrame, PassCommand, ReaderStops, ReaderOnly, Offer
      <3> QED BY <2>1, <3>1 DEF Session
    <2>12. CASE \E s \in Session : ProcessorStep(s)
      BY <2>1, <2>12 DEF ProcessorStep, Process, Deliver, ProcessorStops, CommandsEnd,
         ProcessorOnly
    <2>13. CASE BrokerHangsUp
      BY <2>1, <2>13 DEF BrokerHangsUp, Live, Session
    <2>14. CASE Cancel
      BY <2>14 DEF Cancel
    <2>15. CASE UNCHANGED vars
      BY <2>15 DEF vars
    <2> QED
      BY <2>2, <2>3, <2>4, <2>5, <2>6, <2>7, <2>8, <2>9, <2>10, <2>11, <2>12, <2>13,
         <2>14, <2>15 DEF Next, ConnectionStep, StartStep, Finished
  <1> QED BY <1>1, <1>2, TypeCorrect, PTL DEF Spec

(* Never two connections at once that the agent serves: the one before is    *)
(* closed whatever made Start leave it.                                      *)
THEOREM OneSessionAtATime == Spec => []OneLiveSession
  <1>1. SessionInv => OneLiveSession
    BY DEF SessionInv
  <1> QED BY <1>1, SessionInvHolds, PTL

-----------------------------------------------------------------------------
(* The refinement of ConnectionLife.                                         *)

(* What its steps need to know of where Start is: it sleeps for a dial that  *)
(* the limits allow, or to refresh, and an introduction follows a dial.      *)
PlaceInv ==
    /\ pc = "sleep" => attempts > 0 /\ ~RetriesExhausted
    /\ pc = "intro" => attempts > 0

LEMMA NextPlaceInv == ASSUME TypeOK, PlaceInv, [Next]_vars PROVE PlaceInv'
  <1> USE DEF PlaceInv, RetriesExhausted, loopVars, retryVars
  <1>0. attempts \in Nat
    BY DEF TypeOK
  <1>1. CASE StartStep
    BY <1>0, <1>1
    DEF StartStep, StartConnect, WakeUp, Dial, SendIntro, Serve, RangeEnds, HandleResult,
        SendMetrics, CloseSession, Return
  <1>2. CASE \E s \in Session : ReaderStep(s) \/ ProcessorStep(s)
    BY <1>2
    DEF ReaderStep, ReadHead, ReadBody, ReadTimesOut, ReadFails, CountTimeout, GotFrame,
        PassCommand, ReaderStops, ReaderOnly, ProcessorStep, Process, Deliver,
        ProcessorStops, CommandsEnd, ProcessorOnly
  <1>3. CASE BrokerHangsUp \/ Cancel \/ UNCHANGED vars
    BY <1>3 DEF BrokerHangsUp, Cancel, vars
  <1> QED BY <1>1, <1>2, <1>3 DEF Next, ConnectionStep, Finished

(* The steps of goroutines that Start does not see.                          *)
LEMMA HiddenSteps ==
    ASSUME UNCHANGED <<ctxDone, pc, attempts, outcome>>
    PROVE  UNCHANGED Life!lifeVars
  BY DEF Life!lifeVars

LEMMA StartSimulates ==
    ASSUME TypeOK, PlaceInv, StartStep
    PROVE  [Life!LifeNext]_Life!lifeVars
  <1> USE DEF Life!LifeNext, Life!lifeVars, loopVars, retryVars
  <1>0. /\ attempts \in Nat /\ (attempts = 0 \/ attempts > 0)
        /\ MaxConnRetry \in Nat \cup {-1} /\ ConfigRetryLimit \in Nat \ {0}
    BY ConnectionAssumption DEF TypeOK, ConnectionAssumption
  <1>1. CASE StartConnect
    <2>1. CASE attempts = 0
      BY <1>0, <1>1, <2>1 DEF StartConnect, Life!TryAgain, Life!Exhausted
    <2>2. CASE attempts > 0
      BY <1>0, <1>1, <2>2
      DEF StartConnect, RetriesExhausted, Return, Life!GiveUp, Life!Exhausted, Life!Leave
    <2> QED BY <1>0, <2>1, <2>2
  <1>2. CASE WakeUp
    <2>1. attempts > 0 /\ ~RetriesExhausted
      BY <1>2 DEF WakeUp, PlaceInv
    <2>2. CASE ctxDone
      BY <1>2, <2>2 DEF WakeUp, Return, Life!StopConnection, Life!Leave
    <2>3. CASE ~ctxDone
      BY <1>2, <2>1, <2>3
      DEF WakeUp, Return, RetriesExhausted, Life!GiveUp, Life!TryAgain, Life!Exhausted,
          Life!Leave
    <2> QED BY <2>2, <2>3
  <1>3. CASE Dial
    BY <1>0, <1>3 DEF Dial, Return, Life!FailToReach, Life!Leave
  <1>4. CASE SendIntro
    BY <1>0, <1>4 DEF SendIntro, PlaceInv, Life!FailToReach, Life!Reach
  <1>5. CASE Serve
    BY <1>5 DEF Serve, Return, Life!StopConnection, Life!Leave
  <1>6. CASE RangeEnds
    BY <1>6 DEF RangeEnds
  <1>7. CASE HandleResult
    BY <1>7 DEF HandleResult, Return, Life!StopConnection, Life!Leave
  <1>8. CASE SendMetrics
    BY <1>8
    DEF SendMetrics, ResetConnectionAttempts, Return, Life!AnswerBroker,
        Life!FailToAnswer, Life!Leave
  <1>9. CASE CloseSession
    BY <1>9 DEF CloseSession, Return, Life!LoseSession, Life!StopConnection, Life!Leave
  <1> QED BY <1>1, <1>2, <1>3, <1>4, <1>5, <1>6, <1>7, <1>8, <1>9 DEF StartStep

LEMMA OthersSimulate ==
    ASSUME NEW s \in Session, ReaderStep(s) \/ ProcessorStep(s)
    PROVE  UNCHANGED Life!lifeVars
  <1>1. CASE ~Deliver(s)
    <2>1. UNCHANGED <<ctxDone, pc, attempts, outcome>>
      BY <1>1
      DEF ReaderStep, ReadHead, ReadBody, ReadTimesOut, ReadFails, CountTimeout, GotFrame,
          PassCommand, ReaderStops, ReaderOnly, ProcessorStep, Process, ProcessorStops,
          CommandsEnd, ProcessorOnly, loopVars, retryVars
    <2> QED BY <2>1, HiddenSteps
  <1>2. CASE Deliver(s)
    BY <1>2 DEF Deliver, ProcessorOnly, retryVars, Life!lifeVars
  <1> QED BY <1>1, <1>2

(* What Start does for its caller is what ConnectionLife says, whatever      *)
(* goroutines, frames and timeouts do: a step of Connection is one of        *)
(* ConnectionLife or none (connection.go:138-278).                           *)
THEOREM LifeRefined == Spec => LivesAsPromised
  <1>1. Init => PlaceInv /\ Life!LifeInit
    BY DEF Init, PlaceInv, Life!LifeInit
  <1>2. TypeOK /\ PlaceInv /\ [Next]_vars => [Life!LifeNext]_Life!lifeVars
    <2> SUFFICES ASSUME TypeOK, PlaceInv, [Next]_vars PROVE [Life!LifeNext]_Life!lifeVars
      OBVIOUS
    <2>1. CASE StartStep
      BY <2>1, StartSimulates
    <2>2. CASE \E s \in Session : ReaderStep(s) \/ ProcessorStep(s)
      BY <2>2, OthersSimulate
    <2>3. CASE BrokerHangsUp \/ UNCHANGED vars
      BY <2>3, HiddenSteps DEF BrokerHangsUp, vars, loopVars, retryVars
    <2>4. CASE Cancel
      BY <2>4 DEF Cancel, loopVars, retryVars, Life!LifeNext
    <2> QED BY <2>1, <2>2, <2>3, <2>4 DEF Next, ConnectionStep, Finished
  <1> QED BY <1>1, <1>2, NextPlaceInv, TypeCorrect, PTL DEF Spec, LivesAsPromised, Life!LifeSpec

-----------------------------------------------------------------------------
(* Units, and what is left of them on the wire.                              *)

LEMMA TwoAndTwo ==
    ASSUME NEW a, NEW b, NEW c, NEW d
    PROVE  <<a, b>> \o <<c, d>> = <<a, b, c, d>>
  <1> DEFINE S == {a, b, c, d}
             s == <<a, b>>
             t == <<c, d>>
             u == <<a, b, c, d>>
  <1>1. /\ s \in Seq(S) /\ t \in Seq(S) /\ u \in Seq(S)
        /\ Len(s) = 2 /\ Len(t) = 2 /\ Len(u) = 4
        /\ u[1] = s[1] /\ u[2] = s[2] /\ u[3] = t[1] /\ u[4] = t[2]
    OBVIOUS
  <1> HIDE DEF s, t, u, S
  <1>2. /\ s \o t \in Seq(S) /\ Len(s \o t) = Len(s) + Len(t)
        /\ \A i \in 1 .. Len(s) + Len(t) :
             (s \o t)[i] = IF i <= Len(s) THEN s[i] ELSE t[i - Len(s)]
    BY <1>1, ConcatProperties
  <1>3. ASSUME NEW i \in 1 .. Len(s \o t) PROVE (s \o t)[i] = u[i]
    <2>1. (s \o t)[i] = IF i <= Len(s) THEN s[i] ELSE t[i - Len(s)]
      BY <1>2
    <2>2. i \in {1, 2} \/ (i = 3 /\ i - Len(s) = 1) \/ (i = 4 /\ i - Len(s) = 2)
      BY <1>1, <1>2
    <2> QED BY <1>1, <2>1, <2>2
  <1>4. s \o t = u
    BY <1>1, <1>2, <1>3, SeqEqual
  <1> QED BY <1>4 DEF s, t, u

LEMMA TwoAndOne ==
    ASSUME NEW a, NEW b, NEW c
    PROVE  Append(<<a, b>>, c) = <<a, b, c>>
  <1> DEFINE S == {a, b, c}
             s == <<a, b>>
             u == <<a, b, c>>
  <1>1. /\ s \in Seq(S) /\ c \in S /\ u \in Seq(S) /\ Len(s) = 2 /\ Len(u) = 3
        /\ u[1] = s[1] /\ u[2] = s[2] /\ u[3] = c
    OBVIOUS
  <1> HIDE DEF s, u, S
  <1>2. Append(s, c) \in Seq(S) /\ Len(Append(s, c)) = Len(s) + 1
    BY <1>1, AppendProperties
  <1>5. \A i \in 1 .. Len(s) : Append(s, c)[i] = s[i]
    <2>1. s \in Seq(S) /\ c \in S
      BY <1>1
    <2> QED BY <2>1, AppendProperties
  <1>6. Append(s, c)[Len(s) + 1] = c
    BY <1>1, AppendProperties
  <1>3. ASSUME NEW i \in 1 .. Len(Append(s, c)) PROVE Append(s, c)[i] = u[i]
    <2>1. (i \in {1, 2} /\ i \in 1 .. Len(s)) \/ (i = 3 /\ i = Len(s) + 1)
      BY <1>1, <1>2
    <2> QED BY <1>1, <1>5, <1>6, <2>1
  <1>4. Append(s, c) = u
    BY <1>1, <1>2, <1>3, SeqEqual
  <1> QED BY <1>4 DEF s, u

(* A request that comes right after a CONNECT without one is its request,    *)
(* for the reader and for everyone else: a broker sends only one of the two  *)
(* alone.                                                                    *)
OneSidedUnits == "BARE" \notin Units \/ "STRAY" \notin Units

Connects == {"CONNECT", "EMPTY", "BARE"}

(* What follows the CONNECT frame of a unit.                                 *)
AfterConnect(n, kind) ==
    CASE kind = "CONNECT" -> Frame(n, "request")
      [] kind = "EMPTY"   -> <<Part(n, "empty", "head")>>
      [] OTHER            -> <<>>

(* A part that follows the first of a unit is of a frame of the same unit,   *)
(* and no head among them is that of a command.                              *)
Follows(n, p) == p.id = n /\ (p.part = "head" => ~IsCommand(p.name))

LEMMA UnitsAre ==
    ASSUME NEW n \in Nat
    PROVE  /\ UnitParts(n, "CONNECT") = <<Part(n, "CONNECT", "head"), Part(n, "CONNECT", "body"),
                                          Part(n, "request", "head"), Part(n, "request", "body")>>
           /\ UnitParts(n, "EMPTY") = <<Part(n, "CONNECT", "head"), Part(n, "CONNECT", "body"),
                                        Part(n, "empty", "head")>>
           /\ UnitParts(n, "BARE") = <<Part(n, "CONNECT", "head"), Part(n, "CONNECT", "body")>>
           /\ UnitParts(n, "STRAY") = <<Part(n, "request", "head"), Part(n, "request", "body")>>
           /\ \A k \in {"RESET", "OTHER"} :
                UnitParts(n, k) = <<Part(n, k, "head"), Part(n, k, "body")>>
  BY TwoAndTwo, TwoAndOne DEF UnitParts, Frame

(* What a unit begins with, and what then is left of it.                     *)
Begins(n, k, p, t) ==
    /\ p.id = n /\ p.part = "head" /\ p.name # "empty"
    /\ p.name = "request" => k = "STRAY"
    /\ p.name = "CONNECT" => k \in Connects /\ t # <<>> /\ Tail(t) = AfterConnect(n, k)
    /\ \A i \in DOMAIN t : Follows(n, t[i])

LEMMA FirstPart ==
    ASSUME NEW n \in Nat, NEW k \in Units
    PROVE  Begins(n, k, UnitParts(n, k)[1], Tail(UnitParts(n, k)))
  <1>1. k \in {"CONNECT", "BARE", "EMPTY", "STRAY", "RESET", "OTHER"}
    BY ConnectionAssumption DEF ConnectionAssumption
  <1>2. \A name, part : /\ Part(n, name, part).id = n
                        /\ Part(n, name, part).name = name
                        /\ Part(n, name, part).part = part
    BY DEF Part
  <1>3. \A name, part : Follows(n, Part(n, name, "body"))
    BY <1>2 DEF Follows
  <1>4. Follows(n, Part(n, "request", "head")) /\ Follows(n, Part(n, "empty", "head"))
    BY <1>2 DEF Follows, IsCommand
  <1> DEFINE a == Part(n, "CONNECT", "head")
             b == Part(n, "CONNECT", "body")
             c == Part(n, "request", "head")
             d == Part(n, "request", "body")
             e == Part(n, "empty", "head")
             u == UnitParts(n, k)
  <1>5. a.id = n /\ a.part = "head" /\ a.name = "CONNECT" /\ \A p \in {b, c, d, e} : Follows(n, p)
    BY <1>2, <1>3, <1>4
  <1>6. CASE k = "CONNECT"
    <2>1. u = <<a, b, c, d>> /\ AfterConnect(n, k) = <<c, d>> /\ k \in Connects
      BY <1>6, UnitsAre DEF AfterConnect, Frame, Connects
    <2> HIDE DEF a, b, c, d, e, u
    <2>2. /\ u[1] = a /\ Tail(u) = <<b, c, d>> /\ <<b, c, d>> # <<>>
          /\ Tail(<<b, c, d>>) = <<c, d>>
          /\ \A i \in DOMAIN <<b, c, d>> : <<b, c, d>>[i] \in {b, c, d}
      BY <2>1
    <2>3. Begins(n, k, u[1], Tail(u))
      BY <1>5, <2>1, <2>2, Zenon DEF Begins
    <2> QED BY <2>3 DEF u
  <1>7. CASE k = "EMPTY"
    <2>1. u = <<a, b, e>> /\ AfterConnect(n, k) = <<e>> /\ k \in Connects
      BY <1>7, UnitsAre DEF AfterConnect, Connects
    <2> HIDE DEF a, b, c, d, e, u
    <2>2. /\ u[1] = a /\ Tail(u) = <<b, e>> /\ <<b, e>> # <<>>
          /\ Tail(<<b, e>>) = <<e>>
          /\ \A i \in DOMAIN <<b, e>> : <<b, e>>[i] \in {b, e}
      BY <2>1
    <2>3. Begins(n, k, u[1], Tail(u))
      BY <1>5, <2>1, <2>2 DEF Begins
    <2> QED BY <2>3 DEF u
  <1>8. CASE k = "BARE"
    <2>1. u = <<a, b>> /\ AfterConnect(n, k) = <<>> /\ k \in Connects
      BY <1>8, UnitsAre DEF AfterConnect, Connects
    <2> HIDE DEF a, b, c, d, e, u
    <2>2. /\ u[1] = a /\ Tail(u) = <<b>> /\ <<b>> # <<>>
          /\ Tail(<<b>>) = <<>>
          /\ \A i \in DOMAIN <<b>> : <<b>>[i] = b
      BY <2>1
    <2>3. Begins(n, k, u[1], Tail(u))
      BY <1>5, <2>1, <2>2 DEF Begins
    <2> QED BY <2>3 DEF u
  <1>9. CASE k \in {"STRAY", "RESET", "OTHER"}
    <2> DEFINE name == IF k = "STRAY" THEN "request" ELSE k
               f    == Part(n, name, "head")
               g    == Part(n, name, "body")
    <2>1. u = <<f, g>>
      BY <1>9, UnitsAre
    <2>2. f.id = n /\ f.part = "head" /\ Follows(n, g) /\ f.name = name
      BY <1>2, <1>3
    <2>3. name \notin {"CONNECT", "empty"} /\ (name = "request" => k = "STRAY")
      BY <1>9
    <2> HIDE DEF f, g, u, name
    <2>4. u[1] = f /\ Tail(u) = <<g>> /\ \A i \in DOMAIN <<g>> : <<g>>[i] = g
      BY <2>1
    <2>5. Begins(n, k, u[1], Tail(u))
      BY <2>2, <2>3, <2>4 DEF Begins
    <2> QED BY <2>5 DEF u
  <1> QED BY <1>1, <1>6, <1>7, <1>8, <1>9

LEMMA AfterConnectHead ==
    ASSUME NEW n \in Nat, NEW k, AfterConnect(n, k) # <<>>
    PROVE  \/ k = "CONNECT" /\ Head(AfterConnect(n, k)) = Part(n, "request", "head")
           \/ k = "EMPTY" /\ Head(AfterConnect(n, k)) = Part(n, "empty", "head")
  BY DEF AfterConnect, Frame

LEMMA TailElements ==
    ASSUME NEW S, NEW q \in Seq(S), q # <<>>
    PROVE  /\ Head(q) = q[1] /\ 1 \in DOMAIN q
           /\ \A i \in DOMAIN Tail(q) : i + 1 \in DOMAIN q /\ Tail(q)[i] = q[i + 1]
  OBVIOUS

-----------------------------------------------------------------------------
(* The session in use: its reader, its processor, and the answers.           *)

Rd   == rd[cur]
Pr   == pr[cur]
Last == Len(asked)
LastAnswered == Exchange!LastAnswered

(* What is left on the wire is of the last unit, which the session in use    *)
(* was sent.                                                                 *)
WireInv ==
    /\ pc \notin Serving => wire = <<>>
    /\ wire # <<>> => Last > 0 /\ asked[Last].session = cur
    /\ \A i \in DOMAIN wire : Follows(Last, wire[i])

ResultInv ==
    /\ pc \notin {"result", "send"} => result = NoCommand
    /\ pc = "send" => result.verdict = "metrics"

(* Commands of the session in use are of units it was sent that are not      *)
(* answered yet, and they stand in line.                                     *)
InLine(c) ==
    c.id # 0 => c.id \in 1..Last /\ LastAnswered < c.id /\ asked[c.id].session = cur
Before(c, d) == d.id # 0 => c.id < d.id

CommandInv ==
    /\ LastAnswered \in 0..Last
    /\ pc \in Serving =>
         /\ InLine(Rd.cmd) /\ InLine(Pr.cmd) /\ InLine(result)
         /\ Before(result, Pr.cmd) /\ Before(result, Rd.cmd) /\ Before(Pr.cmd, Rd.cmd)

(* A frame is of the last unit, and a command of none of those in line.      *)
FrameInv ==
    pc \in Serving =>
        /\ Rd.at \in {"body", "got"} =>
             /\ Rd.frame.id = Last /\ Last > 0 /\ asked[Last].session = cur
             /\ IsCommand(Rd.frame.name) =>
                  LastAnswered < Last /\ Pr.cmd.id < Last /\ result.id < Last
        /\ Rd.at \in {"head", "body", "got"} /\ Rd.cmd # NoCommand =>
             Rd.cmd.id # 0 /\ Rd.cmd = Command(Rd.cmd.id, 0, "CONNECT", "none")

(* What may become an answer is of one unit, a CONNECT with its request.     *)
Delivers(c) == c.verdict = "metrics" \/ (c.verdict = "none" /\ c.kind = "CONNECT")
Sure(c) ==
    Delivers(c) => c.id # 0 /\ (OneSidedUnits => c.req = c.id /\ asked[c.id].kind = "CONNECT")

DeliveryInv ==
    pc \in Serving => Sure(result) /\ Sure(Pr.cmd) /\ (Rd.at = "offer" => Sure(Rd.cmd))

(* It is so because a request that is read after a CONNECT is what followed  *)
(* it on the wire.                                                           *)
PairInv ==
    pc \in Serving =>
        /\ Rd.at = "head" /\ Rd.cmd # NoCommand =>
             /\ Rd.cmd.id = Last /\ asked[Last].kind \in Connects
             /\ wire = AfterConnect(Last, asked[Last].kind)
        /\ Rd.at \in {"body", "got"} /\ Rd.cmd = NoCommand /\ Rd.frame.name = "CONNECT" =>
             /\ asked[Last].kind \in Connects
             /\ Rd.at = "body" => Tail(wire) = AfterConnect(Last, asked[Last].kind)
             /\ Rd.at = "got"  => wire = AfterConnect(Last, asked[Last].kind)
        /\ OneSidedUnits /\ Rd.at \in {"body", "got"} /\ Rd.cmd # NoCommand
             /\ Rd.frame.name = "request" =>
             Rd.cmd.id = Last /\ asked[Last].kind = "CONNECT"

UseInv == WireInv /\ ResultInv /\ CommandInv /\ FrameInv /\ DeliveryInv /\ PairInv

LEMMA InitUse == ASSUME Init PROVE UseInv
  <1>1. pc = "connect" /\ wire = <<>> /\ result = NoCommand /\ asked = <<>> /\ answered = <<>>
    BY DEF Init
  <1>2. LastAnswered = 0 /\ Last = 0
    BY <1>1 DEF LastAnswered, Exchange!LastAnswered, Last
  <1> QED
    BY <1>1, <1>2
    DEF UseInv, WireInv, ResultInv, CommandInv, FrameInv, DeliveryInv, PairInv, Serving

LEMMA UseTypes ==
    ASSUME TypeOK
    PROVE  /\ Last \in Nat /\ DOMAIN asked = 1..Last
           /\ \A n \in 1..Last : asked[n].session \in Session /\ asked[n].kind \in Units
           /\ result \in CommandType
           /\ cur \in Session => Rd \in ReaderType /\ Pr \in ProcessorType
  <1>1. asked \in Seq([session : Session, kind : Units])
    BY DEF TypeOK
  <1>2. Last \in Nat /\ DOMAIN asked = 1..Last
    BY <1>1 DEF Last
  <1>3. \A n \in 1..Last : asked[n] \in [session : Session, kind : Units]
    BY <1>1, <1>2, ElementOfSeq DEF Last
  <1> QED BY <1>2, <1>3 DEF TypeOK, Rd, Pr

(* Steps that leave the session in use, and what was sent on it, alone.      *)
LEMMA OtherSessions ==
    ASSUME UseInv, UNCHANGED <<pc, cur, result, wire, asked, answered>>, Rd' = Rd, Pr' = Pr
    PROVE  UseInv'
  <1>1. UNCHANGED <<Last, LastAnswered>>
    BY DEF Last, LastAnswered, Exchange!LastAnswered
  <1> QED
    BY <1>1
    DEF UseInv, WireInv, ResultInv, CommandInv, FrameInv, DeliveryInv, PairInv, InLine, Before,
        Sure

(* Steps after which no session is in use.                                   *)
LEMMA NotInUse ==
    ASSUME UseInv, pc' \notin Serving, wire' = <<>>, result' = NoCommand,
           UNCHANGED <<asked, answered>>
    PROVE  UseInv'
  <1>1. UNCHANGED <<Last, LastAnswered>>
    BY DEF Last, LastAnswered, Exchange!LastAnswered
  <1> QED
    BY <1>1
    DEF UseInv, WireInv, ResultInv, CommandInv, FrameInv, DeliveryInv, PairInv, Serving

(* Start's steps.                                                            *)
LEMMA StillServing ==
    ASSUME UseInv, {pc, pc'} \subseteq Serving, UNCHANGED <<cur, wire, asked, answered>>,
           Rd' = Rd, Pr' = Pr, result' \in {result, NoCommand}, ResultInv'
    PROVE  UseInv'
  <1>1. UNCHANGED <<Last, LastAnswered>>
    BY DEF Last, LastAnswered, Exchange!LastAnswered
  <1>2. NoCommand.id = 0 /\ ~Delivers(NoCommand)
    BY DEF NoCommand, Command, Delivers
  <1>3. CommandInv'
    BY <1>1, <1>2 DEF UseInv, CommandInv, InLine, Before
  <1>4. FrameInv'
    BY <1>1, <1>2 DEF UseInv, FrameInv
  <1>5. DeliveryInv'
    BY <1>1, <1>2 DEF UseInv, DeliveryInv, Sure
  <1>6. WireInv' /\ PairInv'
    BY <1>1 DEF UseInv, WireInv, PairInv
  <1> QED BY <1>3, <1>4, <1>5, <1>6 DEF UseInv

LEMMA IdleStartKeepsUse ==
    ASSUME UseInv, StartConnect \/ WakeUp \/ Dial \/ SendIntro
    PROVE  UseInv'
  <1>1. pc \notin Serving /\ pc \notin {"result", "send"} /\ pc' \notin Serving
    BY DEF StartConnect, WakeUp, Dial, SendIntro, Return, Serving
  <1>2. UNCHANGED <<wire, result, asked, answered>>
    BY DEF StartConnect, WakeUp, Dial, SendIntro, netVars
  <1> QED BY <1>1, <1>2, NotInUse DEF UseInv, WireInv, ResultInv

LEMMA ServeKeepsUse == ASSUME TypeOK, SessionInv, UseInv, Serve PROVE UseInv'
  <1>1. /\ pc = "opened" /\ cur \in Session /\ result = NoCommand /\ wire = <<>>
        /\ UNCHANGED <<cur, wire, result, asked, answered>>
    BY DEF Serve, SessionInv, Serving, UseInv, WireInv, ResultInv, netVars
  <1>2. CASE pc' = "returned"
    BY <1>1, <1>2, NotInUse DEF Serving
  <1>3. CASE /\ pc' = "range"
             /\ rd' = [rd EXCEPT ![cur] = Reader("head", NoFrame, NoCommand)]
             /\ pr' = [pr EXCEPT ![cur] = Processor("take", NoCommand)]
    <2>1. Rd' = Reader("head", NoFrame, NoCommand) /\ Pr' = Processor("take", NoCommand)
      BY <1>1, <1>3 DEF TypeOK, Rd, Pr
    <2>2. Rd'.at = "head" /\ Rd'.cmd = NoCommand /\ Pr'.cmd = NoCommand
      BY <2>1 DEF Reader, Processor
    <2>3. NoCommand.id = 0 /\ ~Delivers(NoCommand)
      BY DEF NoCommand, Command, Delivers
    <2>4. UNCHANGED <<Last, LastAnswered>>
      BY <1>1 DEF Last, LastAnswered, Exchange!LastAnswered
    <2>5. WireInv' /\ ResultInv'
      BY <1>1, <1>3 DEF WireInv, ResultInv
    <2>6. CommandInv' /\ FrameInv' /\ DeliveryInv' /\ PairInv'
      BY <1>1, <2>2, <2>3, <2>4
      DEF UseInv, CommandInv, FrameInv, DeliveryInv, PairInv, InLine, Before, Sure
    <2> QED BY <2>5, <2>6 DEF UseInv
  <1> QED BY <1>2, <1>3 DEF Serve, Return

LEMMA HandleKeepsUse == ASSUME UseInv, RangeEnds \/ HandleResult PROVE UseInv'
  <1>1. pc \in Serving /\ UNCHANGED <<cur, asked, answered>> /\ Rd' = Rd /\ Pr' = Pr
    BY DEF RangeEnds, HandleResult, Serving, netVars, Rd, Pr
  <1>2. result' \in {result, NoCommand}
    BY DEF RangeEnds, HandleResult
  <1>3. CASE pc' = "returned"
    BY <1>1, <1>3, NotInUse DEF RangeEnds, HandleResult, Shut, Serving, Return
  <1>4. CASE pc' # "returned"
    <2>1. pc' \in Serving /\ UNCHANGED wire
      BY <1>4 DEF RangeEnds, HandleResult, Return, Serving, netVars
    <2>2. ResultInv'
      BY <1>4 DEF RangeEnds, HandleResult, Return, UseInv, ResultInv
    <2> QED BY <1>1, <1>2, <2>1, <2>2, StillServing
  <1> QED BY <1>3, <1>4

LEMMA CloseKeepsUse == ASSUME UseInv, CloseSession PROVE UseInv'
  <1>1. pc' \notin Serving /\ wire' = <<>> /\ result' = result /\ pc = "closing"
    BY DEF CloseSession, Return, Shut, Serving
  <1>2. result = NoCommand
    BY <1>1 DEF UseInv, ResultInv
  <1> QED BY <1>1, <1>2, NotInUse DEF CloseSession

(* The answer is to a unit after the last that was answered, and before the  *)
(* commands that are still in line.                                          *)
LEMMA Answering ==
    ASSUME TypeOK, UseInv, answered' = Append(answered, [id |-> result.id, req |-> result.req])
    PROVE  LastAnswered' = result.id
  <1>1. answered \in Seq([id : Nat, req : Nat]) /\ [id |-> result.id, req |-> result.req] \in [id : Nat, req : Nat]
    BY DEF TypeOK, CommandType
  <1> DEFINE a == [id |-> result.id, req |-> result.req]
  <1>2. a.id = result.id
    OBVIOUS
  <1> HIDE DEF a
  <1>3. answered' # <<>> /\ Len(answered') = Len(answered) + 1 /\ answered'[Len(answered) + 1] = a
    BY <1>1, AppendProperties DEF a
  <1> QED BY <1>2, <1>3 DEF LastAnswered, Exchange!LastAnswered

LEMMA SendKeepsUse == ASSUME TypeOK, UseInv, SendMetrics PROVE UseInv'
  <1>1. pc = "send" /\ result' = NoCommand /\ UNCHANGED <<cur, asked>> /\ Rd' = Rd /\ Pr' = Pr
    BY DEF SendMetrics, Rd, Pr
  <1>2. CASE pc' = "returned"
    BY <1>1, <1>2, NotInUse DEF SendMetrics, Shut, Serving
  <1>3. CASE /\ answered' = Append(answered, [id |-> result.id, req |-> result.req])
             /\ pc' = "range" /\ UNCHANGED wire
    <2>1. LastAnswered' = result.id /\ UNCHANGED Last
      BY <1>1, <1>3, Answering DEF Last
    <2>2. result.id # 0 /\ result.id \in 1..Last
      BY <1>1 DEF UseInv, ResultInv, DeliveryInv, CommandInv, Sure, Delivers, InLine, Serving
    <2>3. NoCommand.id = 0 /\ ~Delivers(NoCommand)
      BY DEF NoCommand, Command, Delivers
    <2>4. pc \in Serving /\ pc' \in Serving
      BY <1>1, <1>3 DEF Serving
    <2>5. Last \in Nat
      BY UseTypes
    <2>6. CommandInv'
      BY <1>1, <2>1, <2>2, <2>3, <2>4, <2>5 DEF UseInv, CommandInv, InLine, Before
    <2>7. FrameInv'
      BY <1>1, <2>1, <2>2, <2>3, <2>4, <2>5 DEF UseInv, FrameInv
    <2>8. DeliveryInv' /\ ResultInv'
      BY <1>1, <1>3, <2>3, <2>4 DEF UseInv, DeliveryInv, ResultInv, Sure
    <2>9. WireInv' /\ PairInv'
      BY <1>1, <1>3, <2>1, <2>4 DEF UseInv, WireInv, PairInv
    <2> QED BY <2>6, <2>7, <2>8, <2>9 DEF UseInv
  <1> QED BY <1>2, <1>3 DEF SendMetrics, Return

(* The reader of the session in use.                                         *)

(* The last unit goes on, or a new one begins.                               *)
AsksMore ==
    \/ asked' = asked
    \/ \E k \in Units : asked' = Append(asked, [session |-> cur, kind |-> k])

LEMMA AskedKept ==
    ASSUME TypeOK, UseInv, AsksMore, UNCHANGED <<cur, answered>>
    PROVE  /\ Last' \in Nat /\ Last' >= Last /\ LastAnswered' = LastAnswered
           /\ \A n \in 1..Last : asked'[n] = asked[n]
           /\ \A c : c.id \in 1..Last /\ InLine(c) => InLine(c)'
  <1>1. asked \in Seq([session : Session, kind : Units]) /\ Last \in Nat /\ DOMAIN asked = 1..Last
    BY UseTypes DEF TypeOK
  <1>2. Last' \in Nat /\ Last' >= Last /\ \A n \in 1..Last : asked'[n] = asked[n]
    <2>1. CASE asked' = asked
      BY <1>1, <2>1 DEF Last
    <2>2. ASSUME NEW k \in Units, asked' = Append(asked, [session |-> cur, kind |-> k])
          PROVE  Last' \in Nat /\ Last' >= Last /\ \A n \in 1..Last : asked'[n] = asked[n]
      BY <1>1, <2>2 DEF Last
    <2> QED BY <2>1, <2>2 DEF AsksMore
  <1>3. LastAnswered' = LastAnswered
    BY DEF LastAnswered, Exchange!LastAnswered
  <1> QED BY <1>1, <1>2, <1>3 DEF InLine

(* The reader gives up what it read.                                         *)
Nothing(c) == c.id = 0 /\ c.verdict # "metrics" /\ (c.verdict = "none" => c.kind # "CONNECT")

LEMMA ReaderForgets ==
    ASSUME TypeOK, UseInv, AsksMore, UNCHANGED <<pc, cur, result, answered>>, Pr' = Pr, WireInv',
           Rd'.at \in {"offer", "late", "exit"}, Nothing(Rd'.cmd)
    PROVE  UseInv'
  <1>1. /\ Last' \in Nat /\ Last' >= Last /\ LastAnswered' = LastAnswered
        /\ \A n \in 1..Last : asked'[n] = asked[n] /\ Last \in Nat
    BY AskedKept, UseTypes
  <1>2. Rd'.cmd.id = 0 /\ ~Delivers(Rd'.cmd)
    BY DEF Nothing, Delivers
  <1>3. CommandInv'
    BY <1>1, <1>2, UseTypes DEF UseInv, CommandInv, InLine, Before
  <1>4. DeliveryInv'
    BY <1>1, <1>2 DEF UseInv, DeliveryInv, CommandInv, InLine, Sure
  <1>5. FrameInv' /\ PairInv'
    BY DEF FrameInv, PairInv
  <1> QED BY <1>3, <1>4, <1>5 DEF UseInv, ResultInv

LEMMA NothingFailed ==
    /\ Nothing(NoCommand)
    /\ \A v \in {"ignore", "unhandled", "reset"} : Nothing(Failed(v))
  BY DEF Nothing, NoCommand, Failed, Command

(* A part that is read is of the last unit that was asked.                   *)
LEMMA PartRead ==
    ASSUME TypeOK, UseInv, cur \in Session, pc \in Serving, UNCHANGED <<pc, cur>>,
           NEW p, NextPart(cur, p)
    PROVE  /\ AsksMore /\ WireInv'
           /\ p.id = Last' /\ Last' > 0 /\ asked'[Last'].session = cur
           /\ \/ /\ wire # <<>> /\ UNCHANGED asked /\ p = Head(wire) /\ wire' = Tail(wire)
                 /\ Follows(Last, p)
              \/ /\ wire = <<>> /\ Last' = Last + 1
                 /\ asked'[Last'].kind \in Units
                 /\ Begins(Last', asked'[Last'].kind, p, wire')
  <1>1. asked \in Seq([session : Session, kind : Units]) /\ Last \in Nat /\ DOMAIN asked = 1..Last
    BY UseTypes DEF TypeOK
  <1>2. CASE wire # <<>> /\ p = Head(wire) /\ wire' = Tail(wire) /\ UNCHANGED asked
    <2>1. /\ p = wire[1] /\ 1 \in DOMAIN wire
          /\ \A i \in DOMAIN wire' : i + 1 \in DOMAIN wire /\ wire'[i] = wire[i + 1]
      BY <1>2, TailElements DEF TypeOK
    <2>2. Last' = Last
      BY <1>2 DEF Last
    <2> QED BY <1>2, <2>1, <2>2 DEF UseInv, WireInv, AsksMore, Follows
  <1>3. ASSUME wire = <<>>, NEW k \in Units, p = UnitParts(Last + 1, k)[1],
               wire' = Tail(UnitParts(Last + 1, k)),
               asked' = Append(asked, [session |-> cur, kind |-> k])
        PROVE  /\ AsksMore /\ Last' = Last + 1 /\ asked'[Last'].session = cur
               /\ asked'[Last'].kind = k /\ Begins(Last', k, p, wire')
    <2>1. Last' = Last + 1 /\ asked'[Last + 1] = [session |-> cur, kind |-> k]
      BY <1>1, <1>3, AppendProperties DEF Last
    <2>2. Begins(Last + 1, k, p, wire')
      BY <1>1, <1>3, FirstPart
    <2>3. AsksMore
      BY <1>3 DEF AsksMore
    <2>4. asked'[Last'].session = cur /\ asked'[Last'].kind = k
      BY <2>1
    <2>5. Begins(Last', k, p, wire')
      BY <2>1, <2>2, Zenon
    <2> QED BY <2>1, <2>3, <2>4, <2>5
  <1>4. CASE wire = <<>> /\ \E k \in Units :
               /\ p = UnitParts(Last + 1, k)[1] /\ wire' = Tail(UnitParts(Last + 1, k))
               /\ asked' = Append(asked, [session |-> cur, kind |-> k])
    BY <1>1, <1>3, <1>4 DEF Begins, WireInv
  <1> QED BY <1>2, <1>4 DEF NextPart, Last

LEMMA ReaderIs ==
    ASSUME TypeOK, cur \in Session, cur' = cur, NEW r, rd' = [rd EXCEPT ![cur] = r]
    PROVE  Rd' = r
  BY DEF TypeOK, Rd

LEMMA ReaderOnlyKeeps ==
    ASSUME ReaderOnly
    PROVE  UNCHANGED <<pc, cur, result, answered, Pr>>
  BY DEF ReaderOnly, loopVars, Pr

LEMMA ReadHeadKeepsUse ==
    ASSUME TypeOK, UseInv, cur \in Session, pc \in Serving, ReadHead(cur)
    PROVE  UseInv'
  <1>0. PICK n \in 0..MaxAsked, name \in Names, part \in {"head", "body"} :
          /\ NextPart(cur, Part(n, name, part))
          /\ \/ Offer(cur, Failed("reset"))
             \/ /\ part = "head"
                /\ rd' = [rd EXCEPT ![cur] = Reader(IF name = "empty" THEN "got" ELSE "body",
                                                    [id |-> n, name |-> name], rd[cur].cmd)]
    BY DEF ReadHead
  <1> DEFINE p == Part(n, name, part)
  <1>1. UNCHANGED <<pc, cur, result, answered>> /\ Pr' = Pr /\ Rd.at = "head"
    BY ReaderOnlyKeeps DEF ReadHead, Rd
  <1>2. p.id = n /\ p.name = name /\ p.part = part
    BY DEF Part
  <1> HIDE DEF p
  <1>3. /\ AsksMore /\ WireInv'
        /\ p.id = Last' /\ Last' > 0 /\ asked'[Last'].session = cur
        /\ \/ /\ wire # <<>> /\ UNCHANGED asked /\ p = Head(wire) /\ wire' = Tail(wire)
              /\ Follows(Last, p)
           \/ /\ wire = <<>> /\ Last' = Last + 1 /\ asked'[Last'].kind \in Units
              /\ Begins(Last', asked'[Last'].kind, p, wire')
    BY <1>0, <1>1, PartRead DEF p
  <1>4. CASE Offer(cur, Failed("reset"))
    <2>1. Rd' = Reader("offer", NoFrame, Failed("reset"))
      BY <1>1, <1>4, ReaderIs DEF Offer
    <2> QED BY <1>1, <1>3, <2>1, ReaderForgets, NothingFailed DEF Reader
  <1>5. CASE /\ part = "head"
             /\ rd' = [rd EXCEPT ![cur] = Reader(IF name = "empty" THEN "got" ELSE "body",
                                                 [id |-> n, name |-> name], rd[cur].cmd)]
    <2>1. Rd' = Reader(IF name = "empty" THEN "got" ELSE "body",
                       [id |-> n, name |-> name], Rd.cmd)
      BY <1>1, <1>5, ReaderIs DEF Rd
    <2>2. /\ Rd'.at = IF name = "empty" THEN "got" ELSE "body"
          /\ Rd'.frame.id = Last' /\ Rd'.frame.name = p.name /\ Rd'.cmd = Rd.cmd
          /\ p.part = "head" /\ p.name = name
      BY <1>2, <1>3, <1>5, <2>1 DEF Reader
    <2>3. /\ Last' \in Nat /\ Last' >= Last /\ LastAnswered' = LastAnswered /\ Last \in Nat
          /\ \A m \in 1..Last : asked'[m] = asked[m]
      BY <1>1, <1>3, AskedKept, UseTypes
    <2>4. CommandInv'
      BY <1>1, <2>2, <2>3 DEF UseInv, CommandInv, InLine, Before
    <2>5. DeliveryInv'
      BY <1>1, <2>2, <2>3 DEF UseInv, DeliveryInv, CommandInv, InLine, Sure
    <2>6. FrameInv'
      <3>1. IsCommand(p.name) => Last' = Last + 1
        BY <1>3, <2>2 DEF Follows
      <3>2. /\ LastAnswered <= Last /\ LastAnswered \in Nat
            /\ Pr.cmd.id \in 0..Last /\ result.id \in 0..Last
        BY <2>3 DEF UseInv, CommandInv, InLine
      <3>3. IsCommand(p.name) => LastAnswered' < Last' /\ Pr'.cmd.id < Last' /\ result'.id < Last'
        BY <1>1, <2>3, <3>1, <3>2
      <3> QED BY <1>1, <1>3, <2>2, <3>3 DEF UseInv, FrameInv
    <2>7. PairInv'
      <3>1. ASSUME Rd.cmd = NoCommand, name = "CONNECT"
            PROVE  /\ asked'[Last'].kind \in Connects
                   /\ Tail(wire') = AfterConnect(Last', asked'[Last'].kind)
                   /\ Rd'.at = "body"
        BY <1>3, <2>2, <3>1 DEF Begins, Follows, IsCommand
      <3>2. ASSUME OneSidedUnits, Rd.cmd # NoCommand, name = "request"
            PROVE  Rd.cmd.id = Last' /\ asked'[Last'].kind = "CONNECT"
        <4>1. /\ Rd.cmd.id = Last /\ asked[Last].kind \in Connects
              /\ wire = AfterConnect(Last, asked[Last].kind)
          BY <1>1, <3>2 DEF UseInv, PairInv
        <4>2. CASE wire # <<>>
          <5>1. p = Head(wire) /\ UNCHANGED <<asked, Last>>
            BY <1>3, <4>2 DEF Last
          <5>2. \/ asked[Last].kind = "CONNECT"
                \/ p = Part(Last, "empty", "head")
            BY <2>3, <4>1, <4>2, <5>1, AfterConnectHead
          <5>3. p # Part(Last, "empty", "head")
            BY <2>2, <3>2 DEF Part
          <5> QED BY <4>1, <5>1, <5>2, <5>3
        <4>3. CASE wire = <<>>
          <5>1. Begins(Last', asked'[Last'].kind, p, wire') /\ asked'[Last'].kind \in Units
            BY <1>3, <4>3
          <5>2. asked'[Last'].kind = "STRAY"
            BY <2>2, <3>2, <5>1 DEF Begins
          <5>3. asked[Last].kind = "BARE"
            BY <4>1, <4>3 DEF AfterConnect, Frame, Connects
          <5>4. asked[Last].kind \in Units
            BY <1>1, <3>2, <2>3, <4>1, UseTypes DEF UseInv, FrameInv, CommandInv, InLine
          <5> QED BY <3>2, <5>1, <5>2, <5>3, <5>4 DEF OneSidedUnits
        <4> QED BY <4>2, <4>3
      <3> QED BY <2>2, <3>1, <3>2 DEF PairInv
    <2> QED BY <1>1, <1>3, <2>4, <2>5, <2>6, <2>7 DEF UseInv, ResultInv
  <1> QED BY <1>0, <1>4, <1>5

LEMMA ReadBodyKeepsUse ==
    ASSUME TypeOK, UseInv, cur \in Session, pc \in Serving, ReadBody(cur)
    PROVE  UseInv'
  <1>1. /\ UNCHANGED <<pc, cur, result, answered, asked>> /\ Pr' = Pr /\ Rd.at = "body"
        /\ wire # <<>>
    BY ReaderOnlyKeeps DEF ReadBody, Rd
  <1>2. AsksMore /\ UNCHANGED <<Last, LastAnswered>>
    BY <1>1 DEF AsksMore, Last, LastAnswered, Exchange!LastAnswered
  <1>3. CASE Offer(cur, Failed("reset")) /\ UNCHANGED wire
    <2>1. Rd' = Reader("offer", NoFrame, Failed("reset"))
      BY <1>1, <1>3, ReaderIs DEF Offer
    <2>2. WireInv'
      BY <1>1, <1>2, <1>3 DEF UseInv, WireInv
    <2> QED BY <1>1, <1>2, <2>1, <2>2, ReaderForgets, NothingFailed DEF Reader
  <1>4. CASE /\ rd' = [rd EXCEPT ![cur] = Reader("got", rd[cur].frame, rd[cur].cmd)]
             /\ wire' = Tail(wire)
    <2>1. Rd' = Reader("got", Rd.frame, Rd.cmd)
      BY <1>1, <1>4, ReaderIs DEF Rd
    <2>2. Rd'.at = "got" /\ Rd'.frame = Rd.frame /\ Rd'.cmd = Rd.cmd
      BY <2>1 DEF Reader
    <2>3. \A i \in DOMAIN wire' : i + 1 \in DOMAIN wire /\ wire'[i] = wire[i + 1]
      BY <1>1, <1>4, TailElements DEF TypeOK
    <2>4. WireInv'
      BY <1>1, <1>2, <2>3 DEF UseInv, WireInv
    <2>5. CommandInv' /\ DeliveryInv' /\ ResultInv'
      BY <1>1, <1>2, <2>2
      DEF UseInv, CommandInv, DeliveryInv, ResultInv, InLine, Before, Sure
    <2>6. FrameInv'
      BY <1>1, <1>2, <2>2 DEF UseInv, FrameInv
    <2>7. PairInv'
      BY <1>1, <1>2, <1>4, <2>2 DEF UseInv, PairInv
    <2> QED BY <2>4, <2>5, <2>6, <2>7 DEF UseInv
  <1> QED BY <1>3, <1>4 DEF ReadBody

LEMMA ForgetKeepsUse ==
    ASSUME TypeOK, UseInv, cur \in Session, pc \in Serving,
           ReadTimesOut(cur) \/ ReadFails(cur) \/ CountTimeout(cur) \/ ReaderStops(cur)
    PROVE  UseInv'
  <1>1. UNCHANGED <<pc, cur, result, answered, asked, wire>> /\ Pr' = Pr
    BY ReaderOnlyKeeps DEF ReadTimesOut, ReadFails, CountTimeout, ReaderStops
  <1>2. AsksMore /\ UNCHANGED <<Last, LastAnswered>>
    BY <1>1 DEF AsksMore, Last, LastAnswered, Exchange!LastAnswered
  <1>3. PICK at \in {"late", "offer", "exit"},
             c \in {NoCommand} \cup {Failed(v) : v \in {"ignore", "unhandled", "reset"}} :
               rd' = [rd EXCEPT ![cur] = Reader(at, NoFrame, c)]
    BY DEF ReadTimesOut, ReadFails, CountTimeout, ReaderStops, Offer
  <1>4. Rd' = Reader(at, NoFrame, c)
    BY <1>1, <1>3, ReaderIs
  <1>5. WireInv'
    BY <1>1, <1>2 DEF UseInv, WireInv
  <1> QED BY <1>1, <1>2, <1>4, <1>5, ReaderForgets, NothingFailed DEF Reader

(* A command that a CONNECT's own frame begins is the newest in line.        *)
LEMMA GotCommandKeepsUse ==
    ASSUME TypeOK, UseInv, cur \in Session, pc \in Serving, GotFrame(cur), Rd.cmd = NoCommand
    PROVE  UseInv'
  <1>1. /\ UNCHANGED <<pc, cur, result, answered, asked, wire>> /\ Pr' = Pr /\ Rd.at = "got"
        /\ rd' = [rd EXCEPT ![cur] = AfterCommand(Rd.frame)]
    BY ReaderOnlyKeeps DEF GotFrame, Rd
  <1>2. AsksMore /\ UNCHANGED <<Last, LastAnswered>>
    BY <1>1 DEF AsksMore, Last, LastAnswered, Exchange!LastAnswered
  <1>3. Rd' = AfterCommand(Rd.frame) /\ WireInv'
    BY <1>1, <1>2, ReaderIs DEF UseInv, WireInv
  <1>4. CASE ~IsCommand(Rd.frame.name)
    <2>1. Rd' = Reader("offer", NoFrame, Failed("unhandled"))
      BY <1>3, <1>4 DEF AfterCommand, IsCommand
    <2> QED BY <1>1, <1>2, <1>3, <2>1, ReaderForgets, NothingFailed DEF Reader
  <1>5. CASE IsCommand(Rd.frame.name)
    <2>0. PICK kind : kind = Rd.frame.name
      OBVIOUS
    <2>1. PICK at \in {"head", "offer"} :
            /\ Rd' = Reader(at, NoFrame, Command(Last, 0, kind, "none"))
            /\ at = "head" <=> kind = "CONNECT"
      BY <1>1, <1>3, <1>5, <2>0 DEF AfterCommand, UseInv, FrameInv
    <2>2. /\ Rd'.at = at /\ Rd'.cmd = Command(Last, 0, kind, "none")
          /\ Rd'.cmd.id = Last /\ Rd'.cmd.kind = kind /\ Rd'.cmd.verdict = "none"
      BY <2>1 DEF Reader, Command
    <2>3. /\ LastAnswered < Last /\ Pr.cmd.id < Last /\ result.id < Last
          /\ Last > 0 /\ Last \in Nat /\ asked[Last].session = cur
      BY <1>1, <1>5, UseTypes DEF UseInv, FrameInv
    <2>4. CommandInv'
      BY <1>1, <1>2, <2>2, <2>3 DEF UseInv, CommandInv, InLine, Before
    <2>5. DeliveryInv' /\ ResultInv'
      BY <1>1, <1>2, <2>0, <2>1, <2>2 DEF UseInv, DeliveryInv, ResultInv, Sure, Delivers
    <2>6. FrameInv'
      BY <2>1, <2>2, <2>3, <1>2 DEF FrameInv
    <2>7. PairInv'
      BY <1>1, <1>2, <2>0, <2>1, <2>2 DEF UseInv, PairInv
    <2> QED BY <1>3, <2>4, <2>5, <2>6, <2>7 DEF UseInv
  <1> QED BY <1>4, <1>5

LEMMA GotRequestKeepsUse ==
    ASSUME TypeOK, UseInv, cur \in Session, pc \in Serving, GotFrame(cur), Rd.cmd # NoCommand
    PROVE  UseInv'
  <1>1. /\ UNCHANGED <<pc, cur, result, answered, asked, wire>> /\ Pr' = Pr /\ Rd.at = "got"
        /\ rd' = [rd EXCEPT ![cur] = AfterRequest(Rd.cmd, Rd.frame)]
    BY ReaderOnlyKeeps DEF GotFrame, Rd
  <1>2. UNCHANGED <<Last, LastAnswered>>
    BY <1>1 DEF Last, LastAnswered, Exchange!LastAnswered
  <1>3. Rd' = AfterRequest(Rd.cmd, Rd.frame) /\ WireInv'
    BY <1>1, <1>2, ReaderIs DEF UseInv, WireInv
  <1>4. Rd'.at = "offer" /\ Rd'.cmd.id = Rd.cmd.id
    BY <1>3 DEF AfterRequest, Reader, Command
  <1>5. Delivers(Rd'.cmd) => Rd.frame.name = "request" /\ Rd'.cmd.req = Rd.frame.id
    BY <1>3 DEF AfterRequest, Reader, Command, Delivers, IsCommand
  <1>6. CommandInv'
    BY <1>1, <1>2, <1>4 DEF UseInv, CommandInv, InLine, Before
  <1>7. Sure(Rd.cmd)'
    BY <1>1, <1>2, <1>4, <1>5 DEF Sure, UseInv, FrameInv, PairInv
  <1>8. DeliveryInv' /\ ResultInv'
    BY <1>1, <1>2, <1>4, <1>7 DEF UseInv, DeliveryInv, ResultInv, Sure
  <1>9. FrameInv' /\ PairInv'
    BY <1>4 DEF FrameInv, PairInv
  <1> QED BY <1>3, <1>6, <1>8, <1>9 DEF UseInv

LEMMA PassKeepsUse ==
    ASSUME TypeOK, UseInv, cur \in Session, pc \in Serving, PassCommand(cur)
    PROVE  UseInv'
  <1>1. /\ UNCHANGED <<pc, cur, result, answered, asked, wire>> /\ Rd.at = "offer"
        /\ rd' = [rd EXCEPT ![cur] = Reader("head", NoFrame, NoCommand)]
        /\ pr' = [pr EXCEPT ![cur] = Processor("work", Rd.cmd)]
    BY DEF PassCommand, Rd, loopVars, netVars
  <1>2. UNCHANGED <<Last, LastAnswered>>
    BY <1>1 DEF Last, LastAnswered, Exchange!LastAnswered
  <1>3. Rd' = Reader("head", NoFrame, NoCommand) /\ Pr' = Processor("work", Rd.cmd)
    BY <1>1, ReaderIs DEF TypeOK, Pr
  <1>4. Rd'.at = "head" /\ Rd'.cmd = NoCommand /\ Pr'.cmd = Rd.cmd /\ NoCommand.id = 0
    BY <1>3 DEF Reader, Processor, NoCommand, Command
  <1>5. CommandInv'
    BY <1>1, <1>2, <1>4 DEF UseInv, CommandInv, InLine, Before
  <1>6. DeliveryInv' /\ ResultInv'
    BY <1>1, <1>2, <1>4 DEF UseInv, DeliveryInv, ResultInv, Sure
  <1>7. FrameInv' /\ PairInv'
    BY <1>4 DEF FrameInv, PairInv
  <1>8. WireInv'
    BY <1>1, <1>2 DEF UseInv, WireInv
  <1> QED BY <1>5, <1>6, <1>7, <1>8 DEF UseInv

-----------------------------------------------------------------------------
(* The processor of the session in use, and the steps of others.             *)

LEMMA ProcessorIs ==
    ASSUME TypeOK, cur \in Session, cur' = cur, NEW r, pr' = [pr EXCEPT ![cur] = r]
    PROVE  Pr' = r
  BY DEF TypeOK, Pr

LEMMA ProcessKeepsUse ==
    ASSUME TypeOK, UseInv, cur \in Session, pc \in Serving, Process(cur)
    PROVE  UseInv'
  <1>1. PICK v \in Verdicts(Pr.cmd) :
          pr' = [pr EXCEPT ![cur] = Processor("offer", Command(Pr.cmd.id, Pr.cmd.req, Pr.cmd.kind, v))]
    BY DEF Process, Pr
  <1>2. UNCHANGED <<pc, cur, result, answered, asked, wire>> /\ Rd' = Rd
    BY DEF Process, ProcessorOnly, loopVars, netVars, Rd
  <1>3. UNCHANGED <<Last, LastAnswered>>
    BY <1>2 DEF Last, LastAnswered, Exchange!LastAnswered
  <1>4. /\ Pr'.cmd.id = Pr.cmd.id /\ Pr'.cmd.req = Pr.cmd.req /\ Pr'.cmd.kind = Pr.cmd.kind
        /\ Pr'.cmd.verdict = v
    <2>1. Pr' = Processor("offer", Command(Pr.cmd.id, Pr.cmd.req, Pr.cmd.kind, v))
      BY <1>1, <1>2, ProcessorIs
    <2> QED BY <2>1 DEF Processor, Command
  <1>5. v # "none" /\ (v = "metrics" => Delivers(Pr.cmd))
    BY DEF Verdicts, Delivers
  <1>6. CommandInv'
    BY <1>2, <1>3, <1>4 DEF UseInv, CommandInv, InLine, Before
  <1>7. DeliveryInv' /\ ResultInv'
    BY <1>2, <1>3, <1>4, <1>5 DEF UseInv, DeliveryInv, ResultInv, Sure, Delivers
  <1>8. FrameInv'
    BY <1>2, <1>3, <1>4 DEF UseInv, FrameInv
  <1>9. WireInv' /\ PairInv'
    BY <1>2, <1>3 DEF UseInv, WireInv, PairInv
  <1> QED BY <1>6, <1>7, <1>8, <1>9 DEF UseInv

LEMMA DeliverKeepsUse ==
    ASSUME TypeOK, UseInv, cur \in Session, Deliver(cur)
    PROVE  UseInv'
  <1>1. /\ pc = "range" /\ pc' = "result" /\ result' = Pr.cmd
        /\ pr' = [pr EXCEPT ![cur] = Processor("take", NoCommand)]
        /\ UNCHANGED <<cur, answered, asked, wire>> /\ Rd' = Rd
    BY DEF Deliver, ProcessorOnly, netVars, Pr, Rd
  <1>2. UNCHANGED <<Last, LastAnswered>>
    BY <1>1 DEF Last, LastAnswered, Exchange!LastAnswered
  <1>3. Pr'.cmd = NoCommand /\ NoCommand.id = 0 /\ ~Delivers(NoCommand)
    <2>1. Pr' = Processor("take", NoCommand)
      BY <1>1, ProcessorIs
    <2> QED BY <2>1 DEF Processor, NoCommand, Command, Delivers
  <1>4. pc \in Serving /\ pc' \in Serving
    BY <1>1 DEF Serving
  <1>5. CommandInv'
    BY <1>1, <1>2, <1>3, <1>4 DEF UseInv, CommandInv, InLine, Before
  <1>6. DeliveryInv' /\ ResultInv'
    BY <1>1, <1>2, <1>3, <1>4 DEF UseInv, DeliveryInv, ResultInv, Sure
  <1>7. FrameInv'
    BY <1>1, <1>2, <1>3, <1>4 DEF UseInv, FrameInv
  <1>8. WireInv' /\ PairInv'
    BY <1>1, <1>2, <1>4 DEF UseInv, WireInv, PairInv
  <1> QED BY <1>5, <1>6, <1>7, <1>8 DEF UseInv

LEMMA ProcessorEndKeepsUse ==
    ASSUME TypeOK, UseInv, cur \in Session, pc \in Serving,
           ProcessorStops(cur) \/ CommandsEnd(cur)
    PROVE  UseInv'
  <1>1. /\ UNCHANGED <<pc, cur, result, answered, asked, wire>> /\ Rd' = Rd
        /\ pr' = [pr EXCEPT ![cur] = Processor("exit", NoCommand)]
    BY DEF ProcessorStops, CommandsEnd, ProcessorOnly, loopVars, netVars, Rd
  <1>2. UNCHANGED <<Last, LastAnswered>>
    BY <1>1 DEF Last, LastAnswered, Exchange!LastAnswered
  <1>3. Pr'.cmd = NoCommand /\ NoCommand.id = 0 /\ ~Delivers(NoCommand)
    <2>1. Pr' = Processor("exit", NoCommand)
      BY <1>1, ProcessorIs
    <2> QED BY <2>1 DEF Processor, NoCommand, Command, Delivers
  <1>4. CommandInv'
    BY <1>1, <1>2, <1>3 DEF UseInv, CommandInv, InLine, Before
  <1>5. DeliveryInv' /\ ResultInv'
    BY <1>1, <1>2, <1>3 DEF UseInv, DeliveryInv, ResultInv, Sure
  <1>6. FrameInv'
    BY <1>1, <1>2, <1>3 DEF UseInv, FrameInv
  <1>7. WireInv' /\ PairInv'
    BY <1>1, <1>2 DEF UseInv, WireInv, PairInv
  <1> QED BY <1>4, <1>5, <1>6, <1>7 DEF UseInv

(* A session that is not in use reads nothing, and its goroutines only get   *)
(* rid of what they hold.                                                    *)
LEMMA OthersKeepUse ==
    ASSUME TypeOK, SessionInv, UseInv, NEW s \in Session, s # cur \/ pc \notin Serving,
           ReaderStep(s) \/ ProcessorStep(s)
    PROVE  UseInv'
  <1>1. ~ReadHead(s) /\ ~ReadBody(s) /\ ~Deliver(s)
    BY DEF SessionInv, OneLiveSession, ReadHead, ReadBody, Deliver, Serving
  <1>2. CASE ReaderStep(s)
    <2>1. /\ UNCHANGED <<pc, cur, result, wire, asked, answered>>
          /\ \E r : rd' = [rd EXCEPT ![s] = r]
          /\ pr' = pr \/ \E r : pr' = [pr EXCEPT ![s] = r]
      BY <1>1, <1>2
      DEF ReaderStep, ReadTimesOut, ReadFails, CountTimeout, GotFrame, PassCommand, ReaderStops,
          ReaderOnly, Offer, loopVars, netVars
    <2>2. CASE pc \in Serving
      <3>1. cur \in Session /\ s # cur
        BY <2>2 DEF SessionInv
      <3>2. Rd' = Rd
        BY <2>1, <3>1 DEF TypeOK, Rd
      <3>3. Pr' = Pr
        BY <2>1, <3>1 DEF TypeOK, Pr
      <3> QED BY <2>1, <3>2, <3>3, OtherSessions
    <2>3. CASE pc \notin Serving
      BY <2>1, <2>3, NotInUse DEF UseInv, WireInv, ResultInv, Serving
    <2> QED BY <2>2, <2>3
  <1>3. CASE ProcessorStep(s)
    <2>1. /\ UNCHANGED <<pc, cur, result, wire, asked, answered, rd>>
          /\ \E r : pr' = [pr EXCEPT ![s] = r]
      BY <1>1, <1>3
      DEF ProcessorStep, Process, ProcessorStops, CommandsEnd, ProcessorOnly, loopVars, netVars
    <2>2. CASE pc \in Serving
      <3>1. cur \in Session /\ s # cur
        BY <2>2 DEF SessionInv
      <3>2. Rd' = Rd
        BY <2>1, <3>1 DEF TypeOK, Rd
      <3>3. Pr' = Pr
        BY <2>1, <3>1 DEF TypeOK, Pr
      <3> QED BY <2>1, <3>2, <3>3, OtherSessions
    <2>3. CASE pc \notin Serving
      BY <2>1, <2>3, NotInUse DEF UseInv, WireInv, ResultInv, Serving
    <2> QED BY <2>2, <2>3
  <1> QED BY <1>2, <1>3

LEMMA NextUse == ASSUME TypeOK, SessionInv, UseInv, [Next]_vars PROVE UseInv'
  <1>1. CASE StartStep
    BY <1>1, IdleStartKeepsUse, ServeKeepsUse, HandleKeepsUse, SendKeepsUse, CloseKeepsUse
    DEF StartStep
  <1>2. ASSUME NEW s \in Session, ReaderStep(s) \/ ProcessorStep(s) PROVE UseInv'
    <2>1. CASE s # cur \/ pc \notin Serving
      BY <1>2, <2>1, OthersKeepUse
    <2>2. CASE s = cur /\ pc \in Serving
      BY <1>2, <2>2, ReadHeadKeepsUse, ReadBodyKeepsUse, ForgetKeepsUse, GotCommandKeepsUse,
         GotRequestKeepsUse, PassKeepsUse, ProcessKeepsUse, DeliverKeepsUse,
         ProcessorEndKeepsUse
      DEF ReaderStep, ProcessorStep
    <2> QED BY <2>1, <2>2
  <1>3. CASE BrokerHangsUp \/ Cancel \/ UNCHANGED vars
    <2>1. UNCHANGED <<pc, cur, result, wire, asked, answered, Rd, Pr>>
      BY <1>3 DEF BrokerHangsUp, Cancel, vars, loopVars, netVars, Rd, Pr
    <2> QED BY <2>1, OtherSessions
  <1> QED BY <1>1, <1>2, <1>3 DEF Next, ConnectionStep, Finished

LEMMA UseInvHolds == Spec => []UseInv
  BY InitUse, NextUse, TypeCorrect, SessionInvHolds, PTL DEF Spec

-----------------------------------------------------------------------------
(* The refinement of MetricExchange.                                         *)

ExchangeStep == [Exchange!ExchangeNext]_(Exchange!exchangeVars)

LEMMA LiveIs ==
    ASSUME TypeOK, SessionInv
    PROVE  /\ pc \in Serving \cup {"opened"} => Live = cur /\ cur # 0
           /\ pc \notin Serving \cup {"opened"} => Live = 0
  BY DEF Live, Serving, SessionInv, Session

LEMMA ExchangeStutters ==
    ASSUME UNCHANGED <<cur, asked, answered>>,
           pc \in Serving \cup {"opened"} <=> pc' \in Serving \cup {"opened"}
    PROVE  UNCHANGED Exchange!exchangeVars
  BY DEF Live, Serving, Exchange!exchangeVars

LEMMA ExchangeEnds ==
    ASSUME TypeOK, SessionInv, UNCHANGED <<cur, asked, answered>>,
           pc \in Serving \cup {"opened"}, pc' \notin Serving \cup {"opened"}
    PROVE  Exchange!EndSession
  BY LiveIs DEF Live, Serving, Exchange!EndSession

LEMMA StartExchanges ==
    ASSUME OneSidedUnits, TypeOK, SessionInv, UseInv, StartStep
    PROVE  ExchangeStep
  <1>1. CASE StartConnect \/ WakeUp \/ Dial
    <2>1. UNCHANGED <<cur, asked, answered>> /\ {pc, pc'} \cap (Serving \cup {"opened"}) = {}
      BY <1>1 DEF StartConnect, WakeUp, Dial, Return, Serving, netVars
    <2> QED BY <2>1, ExchangeStutters DEF ExchangeStep
  <1>2. CASE SendIntro
    <2>1. CASE pc' = "connect"
      <3>1. UNCHANGED <<cur, asked, answered>> /\ {pc, pc'} \cap (Serving \cup {"opened"}) = {}
        BY <1>2, <2>1 DEF SendIntro, Serving
      <3> QED BY <3>1, ExchangeStutters DEF ExchangeStep
    <2>2. CASE pc' = "opened" /\ cur' = cur + 1
      <3>1. Exchange!OpenSession
        BY <1>2, <2>2 DEF SendIntro, Live, Exchange!OpenSession
      <3> QED BY <3>1 DEF ExchangeStep, Exchange!ExchangeNext
    <2> QED BY <1>2, <2>1, <2>2 DEF SendIntro
  <1>3. CASE Serve \/ RangeEnds \/ HandleResult \/ CloseSession
    <2>1. UNCHANGED <<cur, asked, answered>> /\ pc \in Serving \cup {"opened"}
      BY <1>3 DEF Serve, RangeEnds, HandleResult, CloseSession, Serving, netVars
    <2> QED BY <2>1, ExchangeStutters, ExchangeEnds DEF ExchangeStep, Exchange!ExchangeNext
  <1>4. CASE SendMetrics
    <2>1. pc = "send" /\ UNCHANGED <<cur, asked>>
      BY <1>4 DEF SendMetrics
    <2>2. CASE pc' = "returned"
      <3>1. UNCHANGED answered
        BY <1>4, <2>2 DEF SendMetrics
      <3> QED
        BY <2>1, <2>2, <3>1, ExchangeEnds DEF ExchangeStep, Exchange!ExchangeNext, Serving
    <2>3. CASE /\ pc' = "range"
               /\ answered' = Append(answered, [id |-> result.id, req |-> result.req])
      <3> DEFINE n == result.id
      <3>1. /\ n \in 1..Last /\ LastAnswered < n /\ asked[n].session = cur
            /\ result.req = n /\ asked[n].kind = "CONNECT"
        BY <2>1
        DEF UseInv, ResultInv, DeliveryInv, CommandInv, Sure, Delivers, InLine, Serving
      <3>2. n \in DOMAIN asked /\ asked[n] \in [session : Session, kind : Units]
        BY <3>1, UseTypes, ElementOfSeq DEF TypeOK, Last
      <3>3. Live = cur /\ Live' = cur
        BY <2>1, <2>3 DEF Live
      <3>4. asked[n] = [session |-> Live, kind |-> "CONNECT"]
        BY <3>1, <3>2, <3>3
      <3>5. n > Exchange!LastAnswered
        <4>1. LastAnswered \in Nat /\ n \in Nat
          BY <3>1, UseTypes DEF UseInv, CommandInv
        <4> QED BY <3>1, <4>1 DEF LastAnswered
      <3>6. answered' = Append(answered, [id |-> n, req |-> n])
        BY <2>3, <3>1
      <3>7. Exchange!Answer(n)
        BY <2>1, <3>3, <3>4, <3>5, <3>6 DEF Exchange!Answer
      <3> QED BY <3>2, <3>7 DEF ExchangeStep, Exchange!ExchangeNext
    <2> QED BY <1>4, <2>2, <2>3 DEF SendMetrics, Return
  <1> QED BY <1>1, <1>2, <1>3, <1>4 DEF StartStep

LEMMA ReaderExchanges ==
    ASSUME TypeOK, SessionInv, NEW s \in Session, ReaderStep(s)
    PROVE  ExchangeStep
  <1>1. UNCHANGED <<pc, cur, answered>>
    BY DEF ReaderStep, ReadHead, ReadBody, ReadTimesOut, ReadFails, CountTimeout, GotFrame,
       PassCommand, ReaderStops, ReaderOnly, loopVars
  <1>2. CASE UNCHANGED asked
    BY <1>1, <1>2, ExchangeStutters DEF ExchangeStep
  <1>3. CASE ReadHead(s) /\ \E k \in Units : asked' = Append(asked, [session |-> s, kind |-> k])
    <2>1. PICK k \in Units : asked' = Append(asked, [session |-> s, kind |-> k])
      BY <1>3
    <2>2. s = cur /\ pc \in Serving
      BY <1>3 DEF SessionInv, OneLiveSession, ReadHead, Serving
    <2>3. Live = s /\ Live # 0 /\ Live' = Live
      BY <1>1, <2>2, LiveIs DEF Live
    <2>4. Exchange!Ask(k)
      BY <1>1, <2>1, <2>3 DEF Exchange!Ask
    <2> QED
      BY <2>4, ConnectionAssumption DEF ConnectionAssumption, ExchangeStep, Exchange!ExchangeNext
  <1>4. ReadHead(s) =>
          UNCHANGED asked \/ \E k \in Units : asked' = Append(asked, [session |-> s, kind |-> k])
    BY DEF ReadHead, NextPart
  <1>5. ~ReadHead(s) => UNCHANGED asked
    BY DEF ReaderStep, ReadBody, ReadTimesOut, ReadFails, CountTimeout, GotFrame,
       PassCommand, ReaderStops, netVars
  <1> QED BY <1>2, <1>3, <1>4, <1>5

(* Answers go out on the session that was asked, in order, once, each with   *)
(* the data of its own request: Connection implements MetricExchange for a   *)
(* broker that does not send a request alone where a CONNECT alone may come  *)
(* before it: the two would be a request (command_reader.go:34-118,          *)
(* command_processor.go:30-61).                                              *)
THEOREM AnswersInOrder == ASSUME OneSidedUnits PROVE Spec => AnswersAsAsked
  <1>1. Init => Exchange!ExchangeInit
    BY DEF Init, Live, Exchange!ExchangeInit
  <1>2. TypeOK /\ SessionInv /\ UseInv /\ [Next]_vars => ExchangeStep
    <2> SUFFICES ASSUME TypeOK, SessionInv, UseInv, [Next]_vars PROVE ExchangeStep
      OBVIOUS
    <2>1. ASSUME NEW s \in Session, ProcessorStep(s) PROVE ExchangeStep
      <3>1. /\ UNCHANGED <<cur, asked, answered>>
            /\ pc' = pc \/ (pc = "range" /\ pc' = "result")
        BY <2>1 DEF ProcessorStep, Process, Deliver, ProcessorStops, CommandsEnd,
           ProcessorOnly, loopVars, netVars
      <3> QED BY <3>1, ExchangeStutters DEF ExchangeStep, Serving
    <2>2. CASE BrokerHangsUp \/ Cancel \/ UNCHANGED vars
      <3>1. UNCHANGED <<pc, cur, asked, answered>>
        BY <2>2 DEF BrokerHangsUp, Cancel, vars, loopVars, netVars
      <3> QED BY <3>1, ExchangeStutters DEF ExchangeStep
    <2> QED
      BY <2>1, <2>2, StartExchanges, ReaderExchanges DEF Next, ConnectionStep, Finished
  <1> QED
    BY <1>1, <1>2, TypeCorrect, SessionInvHolds, UseInvHolds, PTL
    DEF Spec, ExchangeStep, AnswersAsAsked, Exchange!ExchangeSpec

-----------------------------------------------------------------------------
(* Batches and their sessions.                                               *)

(* What makes LossEndsSession inductive: a session is stopped when it is     *)
(* over, a goroutine that ended was told to, and answers are to units.       *)
LossInv ==
    /\ LossEndsSession
    /\ \A s \in Session : pr[s].at = "exit" \/ rd[s].at = "exit" => Stopped(s)
    /\ \A s \in Session :
         s < cur \/ (s = cur /\ pc \notin {"opened", "range", "result", "send"}) => Stopped(s)
    /\ \A s \in Session : s > cur \/ (s = cur /\ pc = "opened") => pr[s].at = "off"
    /\ \A i \in DOMAIN answered : answered[i].id \in 1..Last

Answers(s) == {i \in DOMAIN answered : asked[answered[i].id].session = s}

LEMMA AnswersCounted ==
    ASSUME TypeOK, NEW s
    PROVE  /\ AnswersOn(s) = Cardinality(Answers(s)) /\ AnswersOn(s) \in Nat
           /\ IsFiniteSet(Answers(s)) /\ Answers(s) \subseteq 1..Len(answered)
  <1>1. DOMAIN answered = 1..Len(answered) /\ Len(answered) \in Nat
    BY DEF TypeOK
  <1>2. IsFiniteSet(1..Len(answered))
    BY <1>1, FS_Interval
  <1>3. Answers(s) \subseteq 1..Len(answered)
    BY <1>1 DEF Answers
  <1>4. IsFiniteSet(Answers(s)) /\ Cardinality(Answers(s)) \in Nat
    BY <1>2, <1>3, FS_Subset, FS_CardinalityType
  <1> QED BY <1>3, <1>4 DEF AnswersOn, Answers

LEMMA AnswersKept ==
    ASSUME LossInv, answered' = answered, \A n \in 1..Last : asked'[n] = asked[n], NEW s
    PROVE  AnswersOn(s)' = AnswersOn(s)
  BY DEF AnswersOn, LossInv

LEMMA AnswerCounted ==
    ASSUME TypeOK, LossInv, asked' = asked, NEW a \in [id : Nat, req : Nat],
           answered' = Append(answered, a), NEW s
    PROVE  AnswersOn(s)' = IF asked[a.id].session = s THEN AnswersOn(s) + 1 ELSE AnswersOn(s)
  <1>1. /\ DOMAIN answered = 1..Len(answered) /\ Len(answered) \in Nat
        /\ DOMAIN answered' = 1..Len(answered) + 1
        /\ \A i \in 1..Len(answered) : answered'[i] = answered[i]
        /\ answered'[Len(answered) + 1] = a
    BY DEF TypeOK
  <1> DEFINE next == Len(answered) + 1
             now  == {i \in DOMAIN answered' : asked[answered'[i].id].session = s}
  <1>2. AnswersOn(s)' = Cardinality(now)
    BY DEF AnswersOn
  <1>3. next \notin Answers(s)
    BY <1>1 DEF Answers
  <1>4. CASE asked[a.id].session = s
    <2>1. now = Answers(s) \cup {next}
      BY <1>1, <1>4 DEF Answers
    <2>2. Cardinality(Answers(s) \cup {next}) = Cardinality(Answers(s)) + 1
      <3> HIDE DEF next, Answers
      <3> QED BY <1>3, AnswersCounted, FS_AddElement
    <2> HIDE DEF next, now, Answers
    <2> QED BY <1>2, <1>4, <2>1, <2>2, AnswersCounted
  <1>5. CASE asked[a.id].session # s
    <2>1. now = Answers(s)
      BY <1>1, <1>5 DEF Answers
    <2> QED BY <1>2, <1>5, <2>1, AnswersCounted
  <1> QED BY <1>4, <1>5

LEMMA InitLoss == ASSUME Init PROVE LossInv
  <1>1. \A s \in Session : pr[s].at = "off" /\ rd[s].at = "off" /\ fetched[s] = 0
    BY DEF Init, Reader, Processor
  <1>2. cur = 0 /\ answered = <<>> /\ \A s \in Session : s > cur /\ s # cur
    BY DEF Init, Session
  <1>3. \A s : AnswersOn(s) = 0
    BY <1>2, FS_EmptySet DEF AnswersOn
  <1>4. \A s \in Session : Held(s) = 0
    BY <1>1, <1>2 DEF Held
  <1>5. \A s \in Session : ~(s < cur)
    BY <1>2 DEF Session
  <1> QED BY <1>1, <1>2, <1>3, <1>4, <1>5 DEF LossInv, LossEndsSession

(* Steps that neither fetch nor answer.                                      *)
LossKept ==
    \A s \in Session : ~Stopped(s)' => ~Stopped(s) /\ Held(s)' = Held(s)

LEMMA QuietKeepsLoss ==
    ASSUME TypeOK, LossInv, LossKept, UNCHANGED <<asked, answered, fetched>>
    PROVE  LossEndsSession' /\ \A i \in DOMAIN answered' : answered'[i].id \in 1..Last'
  <1>1. \A s \in Session : AnswersOn(s)' = AnswersOn(s)
    BY DEF AnswersOn
  <1> QED BY <1>1 DEF LossKept, LossInv, LossEndsSession, Last

LEMMA IdleStartKeepsLoss ==
    ASSUME TypeOK, UseInv, LossInv, StartConnect \/ WakeUp \/ Dial \/ SendIntro
    PROVE  LossInv'
  <1>1. /\ UNCHANGED <<ctxDone, result, rd, pr, asked, answered, fetched>>
        /\ cancelled \subseteq cancelled'
        /\ pc \in {"connect", "sleep", "dial", "intro"}
        /\ \/ cur' = cur /\ pc' \notin {"opened", "range", "result", "send"}
           \/ cur' = cur + 1 /\ pc' = "opened"
    BY DEF StartConnect, WakeUp, Dial, SendIntro, Return, retryVars, netVars
  <1>2. result.verdict # "metrics" /\ cur \in Nat /\ \A s \in Session : s \in Int
    BY <1>1, ConnectionAssumption
    DEF UseInv, ResultInv, NoCommand, Command, TypeOK, Session, ConnectionAssumption
  <1>3. \A s : Held(s)' = Held(s)
    BY <1>1, <1>2 DEF Held
  <1>4. \A s : Stopped(s) => Stopped(s)'
    BY <1>1 DEF Stopped
  <1>5. LossKept
    BY <1>3, <1>4 DEF LossKept
  <1>6. LossEndsSession' /\ \A i \in DOMAIN answered' : answered'[i].id \in 1..Last'
    BY <1>1, <1>5, QuietKeepsLoss
  <1>7. \A s \in Session : s <= cur => Stopped(s)
    BY <1>1, <1>2 DEF LossInv
  <1>8. \A s \in Session : s > cur => pr[s].at = "off"
    BY DEF LossInv
  <1>9. \A s \in Session : pr'[s].at = "exit" \/ rd'[s].at = "exit" => Stopped(s)'
    BY <1>1, <1>4 DEF LossInv
  <1>10. \A s \in Session :
           s < cur' \/ (s = cur' /\ pc' \notin {"opened", "range", "result", "send"}) => Stopped(s)'
    BY <1>1, <1>2, <1>4, <1>7
  <1>11. \A s \in Session : s > cur' \/ (s = cur' /\ pc' = "opened") => pr'[s].at = "off"
    BY <1>1, <1>2, <1>8
  <1> QED BY <1>6, <1>9, <1>10, <1>11 DEF LossInv

LEMMA ServeKeepsLoss == ASSUME TypeOK, SessionInv, LossInv, Serve PROVE LossInv'
  <1>1. /\ pc = "opened" /\ cur \in Session
        /\ UNCHANGED <<ctxDone, result, cur, asked, answered, fetched>>
    BY DEF Serve, SessionInv, netVars
  <1>2. pr[cur].at = "off"
    BY <1>1 DEF LossInv
  <1>3. CASE ctxDone
    <2>1. \A s : Stopped(s) /\ Stopped(s)'
      BY <1>1, <1>3 DEF Stopped
    <2>2. LossKept
      BY <2>1 DEF LossKept
    <2>3. pc' = "returned" /\ pr' = pr
      BY <1>3 DEF Serve, Return
    <2> QED BY <1>1, <2>1, <2>2, <2>3, QuietKeepsLoss DEF LossInv
  <1>4. CASE ~ctxDone
    <2>1. /\ pc' = "range" /\ cancelled' = cancelled
          /\ rd' = [rd EXCEPT ![cur] = Reader("head", NoFrame, NoCommand)]
          /\ pr' = [pr EXCEPT ![cur] = Processor("take", NoCommand)]
      BY <1>4 DEF Serve
    <2>2. /\ \A s \in Session : s # cur => pr'[s] = pr[s] /\ rd'[s] = rd[s]
          /\ pr'[cur].at = "take" /\ rd'[cur].at = "head"
      BY <1>1, <2>1 DEF TypeOK, Processor, Reader
    <2>3. \A s \in Session : Held(s)' = Held(s)
      BY <1>1, <1>2, <2>2 DEF Held
    <2>4. \A s : Stopped(s)' <=> Stopped(s)
      BY <1>1, <2>1 DEF Stopped
    <2>5. LossKept
      BY <2>3, <2>4 DEF LossKept
    <2>6. LossEndsSession' /\ \A i \in DOMAIN answered' : answered'[i].id \in 1..Last'
      BY <1>1, <2>5, QuietKeepsLoss
    <2> QED BY <1>1, <2>1, <2>2, <2>4, <2>6 DEF LossInv, Session
  <1> QED BY <1>3, <1>4

LEMMA LoopKeepsLoss ==
    ASSUME TypeOK, SessionInv, LossInv, RangeEnds \/ HandleResult \/ CloseSession
    PROVE  LossInv'
  <1>1. /\ UNCHANGED <<ctxDone, cur, asked, answered, fetched, rd, pr>>
        /\ cancelled \subseteq cancelled' /\ pc \in Serving /\ cur \in Session
        /\ pc' # "opened"
    BY DEF RangeEnds, HandleResult, CloseSession, Return, retryVars, netVars, SessionInv, Serving
  <1>2. \A s \in Session : Stopped(s) => Stopped(s)'
    BY <1>1 DEF Stopped
  <1>3. result' = result \/ ctxDone' \/ (result.verdict # "metrics" /\ result' = NoCommand)
        \/ (cur \in cancelled' /\ result' = NoCommand)
    BY DEF RangeEnds, HandleResult, CloseSession
  <1>4. LossKept
    <2> SUFFICES ASSUME NEW s \in Session, ~Stopped(s)'
                 PROVE  ~Stopped(s) /\ Held(s)' = Held(s)
      BY DEF LossKept
    <2>1. result' = result \/ (result.verdict # "metrics" /\ result'.verdict # "metrics") \/ s # cur
      BY <1>1, <1>3 DEF Stopped, NoCommand, Command
    <2> QED BY <1>1, <1>2, <2>1 DEF Held
  <1>5. LossEndsSession' /\ \A i \in DOMAIN answered' : answered'[i].id \in 1..Last'
    BY <1>1, <1>4, QuietKeepsLoss
  <1>6. pc' \notin {"range", "result", "send"} => Stopped(cur)'
    <2>1. CASE RangeEnds
      BY <1>1, <1>2, <2>1 DEF RangeEnds, LossInv
    <2>2. CASE HandleResult
      BY <1>1, <2>2 DEF HandleResult, Return, Stopped
    <2>3. CASE CloseSession
      BY <1>1, <1>2, <2>3 DEF CloseSession, LossInv
    <2> QED BY <2>1, <2>2, <2>3
  <1>7. \A s \in Session : s < cur => Stopped(s)'
    BY <1>2 DEF LossInv
  <1>8. \A s \in Session : pr'[s].at = "exit" \/ rd'[s].at = "exit" => Stopped(s)'
    BY <1>1, <1>2 DEF LossInv
  <1>9. \A s \in Session : s > cur => pr[s].at = "off"
    BY DEF LossInv
  <1> QED BY <1>1, <1>5, <1>6, <1>7, <1>8, <1>9 DEF LossInv

LEMMA SendKeepsLoss ==
    ASSUME TypeOK, SessionInv, UseInv, LossInv, SendMetrics PROVE LossInv'
  <1>1. /\ UNCHANGED <<ctxDone, cur, asked, fetched, rd, pr>>
        /\ pc = "send" /\ cur \in Session /\ result' = NoCommand
    BY DEF SendMetrics, SessionInv, Serving
  <1>2. /\ result.verdict = "metrics" /\ result'.verdict # "metrics"
        /\ result.id \in 1..Last /\ asked[result.id].session = cur
    BY <1>1 DEF UseInv, ResultInv, CommandInv, DeliveryInv, Sure, Delivers, InLine, Serving,
       NoCommand, Command
  <1>3. \A s \in Session : s < cur => Stopped(s)
    BY DEF LossInv
  <1>4. \A s \in Session : s > cur => pr[s].at = "off"
    BY DEF LossInv
  <1>5. \A s \in Session : pr[s].at = "exit" \/ rd[s].at = "exit" => Stopped(s)
    BY DEF LossInv
  <1>6. CASE Return("refresh") /\ UNCHANGED answered
    <2>1. pc' = "returned" /\ cancelled' = cancelled \cup 1..cur
      BY <1>6 DEF Return
    <2>2. \A s \in Session : (s <= cur => Stopped(s)') /\ (Stopped(s) => Stopped(s)')
      BY <1>1, <2>1, ConnectionAssumption DEF Stopped, Session, ConnectionAssumption
    <2>3. \A s \in Session : s # cur => Held(s)' = Held(s)
      BY <1>1 DEF Held
    <2>4. LossKept
      BY <1>1, <2>2, <2>3 DEF LossKept, Session
    <2>5. LossEndsSession' /\ \A i \in DOMAIN answered' : answered'[i].id \in 1..Last'
      BY <1>1, <1>6, <2>4, QuietKeepsLoss
    <2> QED BY <1>1, <1>4, <1>5, <2>1, <2>2, <2>5 DEF LossInv, Session
  <1>7. CASE /\ answered' = Append(answered, [id |-> result.id, req |-> result.req])
             /\ pc' = "range" /\ cancelled' = cancelled
    <2> DEFINE a == [id |-> result.id, req |-> result.req]
    <2>1. a \in [id : Nat, req : Nat] /\ a.id = result.id
      BY DEF TypeOK, CommandType
    <2>2. \A s : AnswersOn(s)' = IF asked[a.id].session = s THEN AnswersOn(s) + 1 ELSE AnswersOn(s)
      <3>1. answered' = Append(answered, a)
        BY <1>7
      <3> HIDE DEF a
      <3> QED BY <1>1, <2>1, <3>1, AnswerCounted
    <2>3. \A s : AnswersOn(s)' = IF s = cur THEN AnswersOn(s) + 1 ELSE AnswersOn(s)
      BY <1>2, <2>1, <2>2
    <2>4. \A s : Held(s) = IF s = cur THEN Held(s)' + 1 ELSE Held(s)'
      BY <1>1, <1>2 DEF Held
    <2>5. \A s : AnswersOn(s) \in Nat /\ Held(s)' \in Nat
      BY AnswersCounted DEF Held
    <2>6. \A s : Stopped(s)' <=> Stopped(s)
      BY <1>1, <1>7 DEF Stopped
    <2>7. LossEndsSession'
      <3> SUFFICES ASSUME NEW s \in Session, ~Stopped(s)'
                   PROVE  fetched'[s] = AnswersOn(s)' + Held(s)'
        BY DEF LossEndsSession
      <3>1. fetched[s] = AnswersOn(s) + Held(s)
        BY <2>6 DEF LossInv, LossEndsSession
      <3> HIDE DEF a
      <3> QED BY <1>1, <2>3, <2>4, <2>5, <3>1
    <2>8. \A i \in DOMAIN answered' : answered'[i].id \in 1..Last'
      <3>1. \A i \in DOMAIN answered : answered[i].id \in 1..Last
        BY DEF LossInv
      <3>2. /\ DOMAIN answered' = 1..Len(answered) + 1 /\ Len(answered) \in Nat
            /\ DOMAIN answered = 1..Len(answered)
            /\ \A i \in 1..Len(answered) : answered'[i] = answered[i]
            /\ answered'[Len(answered) + 1] = a
        BY <1>7, <2>1 DEF TypeOK
      <3> HIDE DEF a
      <3> QED BY <1>1, <1>2, <2>1, <3>1, <3>2 DEF Last
    <2> QED BY <1>1, <1>3, <1>4, <1>5, <1>7, <2>6, <2>7, <2>8 DEF LossInv
  <1> QED BY <1>6, <1>7 DEF SendMetrics

LEMMA ReaderKeepsLoss ==
    ASSUME TypeOK, LossInv, NEW s \in Session, ReaderStep(s) PROVE LossInv'
  <1>1. UNCHANGED <<ctxDone, pc, result, cur, cancelled, answered, fetched>>
    BY DEF ReaderStep, ReadHead, ReadBody, ReadTimesOut, ReadFails, CountTimeout, GotFrame,
       PassCommand, ReaderStops, ReaderOnly, loopVars
  <1>2. /\ \A t \in Session : t # s => rd'[t] = rd[t]
        /\ rd'[s].at = "exit" => Stopped(s)
    <2>1. PassCommand(s) => rd' = [rd EXCEPT ![s] = Reader("head", NoFrame, NoCommand)]
      BY DEF PassCommand
    <2>2. ReaderStops(s) => /\ rd' = [rd EXCEPT ![s] = Reader("exit", NoFrame, NoCommand)]
                            /\ Stopped(s)
      BY DEF ReaderStops
    <2>3. GotFrame(s) => \E r : rd' = [rd EXCEPT ![s] = r] /\ r.at # "exit"
      BY DEF GotFrame, AfterCommand, AfterRequest, Reader
    <2>4. ~PassCommand(s) /\ ~ReaderStops(s) /\ ~GotFrame(s) =>
            \E r : rd' = [rd EXCEPT ![s] = r] /\ r.at # "exit"
      BY DEF ReaderStep, ReadHead, ReadBody, ReadTimesOut, ReadFails, CountTimeout, Offer, Reader
    <2> QED BY <2>1, <2>2, <2>3, <2>4 DEF TypeOK, Reader
  <1>3. /\ \A t \in Session : t # s => pr'[t] = pr[t]
        /\ pr' = pr \/ (pr[s].at = "take" /\ pr'[s].at = "work")
    BY DEF ReaderStep, ReadHead, ReadBody, ReadTimesOut, ReadFails, CountTimeout, GotFrame,
       PassCommand, ReaderStops, ReaderOnly, TypeOK, Processor
  <1>4. Last' >= Last /\ \A n \in 1..Last : asked'[n] = asked[n]
    <2>1. asked' = asked \/ \E k \in Units : asked' = Append(asked, [session |-> s, kind |-> k])
      BY DEF ReaderStep, ReadHead, NextPart, ReadBody, ReadTimesOut, ReadFails, CountTimeout,
         GotFrame, PassCommand, ReaderStops, netVars
    <2>2. asked \in Seq([session : Session, kind : Units])
      BY DEF TypeOK
    <2>3. ASSUME NEW k \in Units, asked' = Append(asked, [session |-> s, kind |-> k])
          PROVE  Last' >= Last /\ \A n \in 1..Last : asked'[n] = asked[n]
      BY <2>2, <2>3 DEF Last
    <2>4. CASE asked' = asked
      BY <2>2, <2>4 DEF Last
    <2> QED BY <2>1, <2>3, <2>4
  <1>5. \A t : AnswersOn(t)' = AnswersOn(t)
    BY <1>1, <1>4, AnswersKept
  <1>6. \A t \in Session : Held(t)' = Held(t)
    BY <1>1, <1>3 DEF Held
  <1>7. \A t : Stopped(t)' <=> Stopped(t)
    BY <1>1 DEF Stopped
  <1>8. LossEndsSession'
    BY <1>1, <1>5, <1>6, <1>7 DEF LossInv, LossEndsSession
  <1>9. \A i \in DOMAIN answered' : answered'[i].id \in 1..Last'
    BY <1>1, <1>4 DEF LossInv, Last, TypeOK
  <1>10. \A t \in Session : pr'[t].at = "exit" \/ rd'[t].at = "exit" => Stopped(t)'
    BY <1>2, <1>3, <1>7 DEF LossInv
  <1> QED BY <1>1, <1>3, <1>7, <1>8, <1>9, <1>10 DEF LossInv

LEMMA ProcessorKeepsLoss ==
    ASSUME TypeOK, UseInv, LossInv, NEW s \in Session, ProcessorStep(s) PROVE LossInv'
  <1>1. /\ UNCHANGED <<ctxDone, cur, cancelled, asked, answered, rd>>
        /\ pc' = pc \/ (pc = "range" /\ pc' = "result")
    BY DEF ProcessorStep, Process, Deliver, ProcessorStops, CommandsEnd, ProcessorOnly,
       loopVars, netVars
  <1>2. /\ \A t \in Session : t # s => pr'[t] = pr[t] /\ fetched'[t] = fetched[t]
        /\ pr[s].at # "off"
        /\ pr'[s].at = "exit" => Stopped(s)
    BY DEF ProcessorStep, Process, Deliver, ProcessorStops, CommandsEnd, TypeOK, Processor,
       LossInv
  <1>3. \A t : AnswersOn(t)' = AnswersOn(t)
    BY <1>1 DEF AnswersOn
  <1>4. \A t : Stopped(t)' <=> Stopped(t)
    BY <1>1 DEF Stopped
  <1>5. \A t \in Session : t # s => Held(t)' = Held(t)
    <2>1. result' = result \/ s = cur
      BY DEF ProcessorStep, Process, Deliver, ProcessorStops, CommandsEnd, loopVars
    <2> QED BY <1>1, <1>2, <2>1 DEF Held
  <1>6. ~Stopped(s) => fetched'[s] - fetched[s] = Held(s)' - Held(s)
    <2>1. CASE Process(s)
      <3>1. PICK v \in Verdicts(pr[s].cmd) :
              /\ pr' = [pr EXCEPT ![s] =
                          Processor("offer", Command(pr[s].cmd.id, pr[s].cmd.req, pr[s].cmd.kind, v))]
              /\ fetched' = [fetched EXCEPT ![s] = IF v = "metrics" THEN @ + 1 ELSE @]
        BY <2>1 DEF Process
      <3>2. pr'[s].at = "offer" /\ pr'[s].cmd.verdict = v /\ pr[s].at = "work" /\ result' = result
        BY <2>1, <3>1 DEF Process, loopVars, TypeOK, Processor, Command
      <3>3. fetched'[s] = (IF v = "metrics" THEN fetched[s] + 1 ELSE fetched[s]) /\ fetched[s] \in Nat
        BY <3>1 DEF TypeOK
      <3> QED BY <1>1, <3>2, <3>3 DEF Held
    <2>2. CASE Deliver(s)
      <3>1. /\ result' = pr[s].cmd /\ pr[s].at = "offer" /\ pr'[s].at = "take" /\ s = cur
            /\ pc = "range" /\ fetched' = fetched /\ fetched[s] \in Nat
        BY <2>2 DEF Deliver, TypeOK, Processor
      <3>2. result.verdict # "metrics"
        BY <3>1 DEF UseInv, ResultInv, NoCommand, Command
      <3> QED BY <1>1, <3>1, <3>2 DEF Held
    <2>3. CASE ProcessorStops(s)
      BY <2>3 DEF ProcessorStops
    <2>4. CASE CommandsEnd(s)
      BY <2>4 DEF CommandsEnd, LossInv
    <2> QED BY <2>1, <2>2, <2>3, <2>4 DEF ProcessorStep
  <1>7. LossEndsSession'
    <2>1. \A t : AnswersOn(t) \in Nat /\ Held(t) \in Nat /\ Held(t)' \in Nat
      BY AnswersCounted DEF Held
    <2>2. fetched[s] \in Nat /\ fetched'[s] \in Nat
      BY DEF TypeOK, ProcessorStep, Process, Deliver, ProcessorStops, CommandsEnd
    <2>3. \A t \in Session : ~Stopped(t) => fetched[t] = AnswersOn(t) + Held(t)
      BY DEF LossInv, LossEndsSession
    <2>4. ~Stopped(s) => fetched'[s] = AnswersOn(s) + Held(s)'
      <3> HIDE DEF Held
      <3>1. Held(s) \in Nat /\ Held(s)' \in Nat /\ AnswersOn(s) \in Nat
        BY <2>1
      <3>2. ~Stopped(s) => fetched[s] = AnswersOn(s) + Held(s)
        BY <2>3
      <3> QED BY <1>6, <2>2, <3>1, <3>2
    <2> QED BY <1>2, <1>3, <1>4, <1>5, <2>3, <2>4 DEF LossEndsSession
  <1>8. \A t \in Session : pr'[t].at = "exit" \/ rd'[t].at = "exit" => Stopped(t)'
    BY <1>1, <1>2, <1>4 DEF LossInv
  <1>9. \A t \in Session :
          t < cur' \/ (t = cur' /\ pc' \notin {"opened", "range", "result", "send"}) => Stopped(t)'
    BY <1>1, <1>4 DEF LossInv
  <1>10. \A t \in Session : t > cur' \/ (t = cur' /\ pc' = "opened") => pr'[t].at = "off"
    BY <1>1, <1>2 DEF LossInv
  <1>11. \A i \in DOMAIN answered' : answered'[i].id \in 1..Last'
    BY <1>1 DEF LossInv, Last
  <1> QED BY <1>7, <1>8, <1>9, <1>10, <1>11 DEF LossInv

LEMMA OthersKeepLoss ==
    ASSUME TypeOK, LossInv, BrokerHangsUp \/ Cancel \/ UNCHANGED vars PROVE LossInv'
  <1>1. /\ UNCHANGED <<pc, result, cur, cancelled, rd, pr, asked, answered, fetched>>
        /\ ctxDone => ctxDone'
    BY DEF BrokerHangsUp, Cancel, vars, loopVars, netVars
  <1>2. \A s \in Session : Stopped(s) => Stopped(s)'
    BY <1>1 DEF Stopped
  <1>3. LossKept
    BY <1>1, <1>2 DEF LossKept, Held
  <1>4. LossEndsSession' /\ \A i \in DOMAIN answered' : answered'[i].id \in 1..Last'
    BY <1>1, <1>3, QuietKeepsLoss
  <1> QED BY <1>1, <1>2, <1>4 DEF LossInv

(* A fetch empties the agent's buffers: until its session is stopped, every  *)
(* fetched batch was sent or is in the hands of the processor or of Start    *)
(* (command_processor.go:30-61, connection.go:138-230).                      *)
THEOREM BatchesLostWithSession == Spec => []LossEndsSession
  <1>1. TypeOK /\ SessionInv /\ UseInv /\ LossInv /\ [Next]_vars => LossInv'
    BY IdleStartKeepsLoss, ServeKeepsLoss, LoopKeepsLoss, SendKeepsLoss, ReaderKeepsLoss,
       ProcessorKeepsLoss, OthersKeepLoss
    DEF Next, ConnectionStep, StartStep, Finished
  <1>2. LossInv => LossEndsSession
    BY DEF LossInv
  <1> QED
    BY <1>1, <1>2, InitLoss, TypeCorrect, SessionInvHolds, UseInvHolds, PTL DEF Spec
=============================================================================
