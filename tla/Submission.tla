----------------------------- MODULE Submission -----------------------------
(* The multi-agent mode: applications hand samples to the receivers and the  *)
(* StatsD listener, and at every tick the submitter flushes them and puts    *)
(* them to the broker, with retries (multiagent/multiagent.go).              *)
EXTENDS MetricIntake, Sequences, FiniteSetsExt

CONSTANTS
    Posts,      \* requests on /write and /prom, and StatsD packets
    Scenes,     \* what they may hold, with the settings of the StatsD listener
    RetryMax,   \* of the retrying HTTP client
    MaxBreaks   \* bound: connections to the broker that break

Vias == {"write", "prom", "statsd"}

ASSUME SubmissionAssumption ==
    /\ RetryMax \in Nat /\ MaxBreaks \in Nat
    /\ \A scene \in Scenes, p \in Posts :
         scene.posts[p].via \in Vias /\ scene.posts[p].readable \in BOOLEAN

SamplesOf(x) == UNION {{p} \X x.posts[p].metrics : p \in Posts}
Samples == UNION {SamplesOf(x) : x \in Scenes}

VARIABLES
    scene,      \* the posts, and the settings
    opened,     \* the posts that are being recorded, or were
    todo,       \* their metrics that are not recorded yet
    held,       \* samples in the cgm instances of the receivers and of StatsD
    passed,     \* samples in the instance of the group check
    replaced, lost,
    at,         \* the submitter: "idle", "collect", "send", "await", "ended"
    flushed,    \* the conduits GetMetrics has flushed
    batch,      \* what it got
    number, attempt,
    copies,     \* requests on their way to the broker or in its hands
    broken,     \* requests whose connection broke
    log,        \* requests the broker counted, in order
    calm,       \* connections are made, kept and answered
    ctxDone,
    run         \* the process: "up", "exited", "panicked"

intake  == <<opened, todo, held, passed, replaced>>
network == <<copies, broken, log>>
sending == <<at, flushed, batch, number, attempt>>
vars    == <<scene, intake, lost, sending, network, calm, ctxDone, run>>

Init ==
    /\ scene \in Scenes
    /\ opened = {} /\ todo = [p \in Posts |-> {}]
    /\ held = {} /\ passed = {} /\ replaced = {} /\ lost = {}
    /\ at = "idle" /\ flushed = {} /\ batch = {}
    /\ number = 0 /\ attempt = 0
    /\ copies = {} /\ broken = {} /\ log = <<>>
    /\ calm = FALSE /\ ctxDone = FALSE /\ run = "up"

-----------------------------------------------------------------------------
(* Applications.                                                             *)

ViaOf(s) == scene.posts[s[1]].via

Intake(p, m) ==
    CASE scene.posts[p].via = "write"  -> WriteMetric(m)
      [] scene.posts[p].via = "prom"   -> PromMetric(m)
      [] scene.posts[p].via = "statsd" -> StatsdMetric(scene.settings, m)

Name(s) == IF "label" \in DOMAIN s[2] THEN PromName(s[2]) ELSE <<s[2].name>>

(* receiver.Parse and promrecv.Parse decode the whole body first.            *)
Open(p) ==
    /\ run = "up" /\ p \notin opened
    /\ opened' = opened \cup {p}
    /\ todo' = [todo EXCEPT ![p] = IF scene.posts[p].readable THEN scene.posts[p].metrics ELSE {}]
    /\ UNCHANGED <<scene, held, passed, replaced, lost, sending, network, calm, ctxDone, run>>

(* The next metric of a post in any order: those of a request are a map, the *)
(* lines of a packet have an order that no property tells apart.  Flushes    *)
(* come in between.                                                          *)
Record(p, m) ==
    /\ run = "up" /\ m \in todo[p]
    /\ LET does    == Intake(p, m)
           sample  == <<p, m>>
           group   == ViaOf(sample) = "statsd" /\ Destination(scene.settings, m.prefix) = "group"
           old     == {s \in held : ViaOf(s) = ViaOf(sample) /\ Name(s) = Name(sample)}
       IN  IF does.how = "panics"
           THEN run' = "panicked" /\ lost' = lost \cup held \cup batch /\ UNCHANGED intake
           ELSE /\ todo' = [todo EXCEPT ![p] = @ \ {m}]
                /\ passed' = IF does.how # "none" /\ group THEN passed \cup {sample} ELSE passed
                /\ IF does.how = "none" \/ group
                   THEN UNCHANGED <<held, replaced>>
                   ELSE IF does.how = "sets"
                   THEN held' = (held \ old) \cup {sample} /\ replaced' = replaced \cup old
                   ELSE held' = held \cup {sample} /\ UNCHANGED replaced
                /\ UNCHANGED <<opened, lost, run>>
    /\ UNCHANGED <<scene, sending, network, calm, ctxDone>>

-----------------------------------------------------------------------------
(* The submitter.                                                            *)

SubmitterOnly == run = "up" /\ UNCHANGED <<scene, opened, todo, passed, replaced, calm, ctxDone, run>>

(* select picks one of the channels that are ready: that of the ticker, ...  *)
TakeTick ==
    /\ at = "idle"
    /\ at' = "collect" /\ flushed' = {} /\ batch' = {}
    /\ UNCHANGED <<held, lost, number, attempt, network>> /\ SubmitterOnly

(* ... or that of the context.                                               *)
End ==
    /\ at = "idle" /\ ctxDone
    /\ at' = "ended"
    /\ UNCHANGED <<held, lost, flushed, batch, number, attempt, network>> /\ SubmitterOnly

(* GetMetrics: the conduits are flushed concurrently.                        *)
Conduits == {scene.posts[p].via : p \in Posts}

(* Mutated: what was flushed stays in the receiver.                          *)
CopyConduit(via) ==
    /\ at = "collect" /\ via \in Conduits \ flushed
    /\ batch' = batch \cup {s \in held : ViaOf(s) = via}
    /\ flushed' = flushed \cup {via}
    /\ UNCHANGED <<held, lost, at, number, attempt, network>> /\ SubmitterOnly

FlushConduit(via) ==
    /\ at = "collect" /\ via \in Conduits \ flushed
    /\ LET mine == {s \in held : ViaOf(s) = via} IN
       held' = held \ mine /\ batch' = batch \cup mine
    /\ flushed' = flushed \cup {via}
    /\ UNCHANGED <<lost, at, number, attempt, network>> /\ SubmitterOnly

Encodable == \A s \in batch : Intake(s[1], s[2]).encodable

(* sendMetrics.  The metrics are never none, for those of the agent itself   *)
(* are among them; a submission of only those is not followed.               *)
Submit ==
    /\ at = "collect" /\ flushed = Conduits
    /\ IF Encodable /\ batch # {}
       THEN at' = "send" /\ number' = number + 1 /\ attempt' = 0 /\ UNCHANGED lost
       ELSE at' = "idle" /\ lost' = lost \cup batch /\ UNCHANGED <<number, attempt>>
    /\ UNCHANGED <<held, flushed, batch, network>> /\ SubmitterOnly

Current == [number |-> number, attempt |-> attempt, samples |-> batch]

Send ==
    /\ at = "send" /\ ~ctxDone
    /\ copies' = copies \cup {Current} /\ at' = "await"
    /\ UNCHANGED <<held, lost, flushed, batch, number, attempt, broken, log>> /\ SubmitterOnly

(* Mutated: a failed submission ends the submitter.                          *)
EndsOnError == at' = "ended" /\ lost' = lost \cup batch /\ UNCHANGED attempt

GiveUp == at' = "idle" /\ lost' = lost \cup batch /\ UNCHANGED attempt

(* The retrying client tries RetryMax times more.                            *)
TryAgain ==
    IF attempt < RetryMax
    THEN at' = "send" /\ attempt' = attempt + 1 /\ UNCHANGED lost
    ELSE GiveUp

Fails == UNCHANGED <<held, flushed, batch, number>> /\ SubmitterOnly

(* No connection, or none that reaches the broker.                           *)
DialFails ==
    /\ at = "send" /\ ~ctxDone /\ ~calm
    /\ TryAgain /\ UNCHANGED network /\ Fails

(* The connection breaks: the broker may have the request, or get it yet.    *)
ConnectionBreaks ==
    /\ at = "await" /\ ~calm /\ Cardinality(broken) < MaxBreaks
    /\ broken' = broken \cup {Current}
    /\ copies' \in {copies, copies \ {Current}}
    /\ TryAgain /\ UNCHANGED log /\ Fails

(* The broker is unable to take the request, and says so.                    *)
AnswerUnavailable ==
    /\ at = "await" /\ ~calm /\ Current \in copies
    /\ copies' = copies \ {Current}
    /\ TryAgain /\ UNCHANGED <<broken, log>> /\ Fails

AnswerRefused ==
    /\ at = "await" /\ ~calm /\ Current \in copies
    /\ copies' = copies \ {Current}
    /\ GiveUp /\ UNCHANGED <<broken, log>> /\ Fails

(* Mutated: an unreadable answer is a reason to try again.                   *)
AnsweredOrAgain ==
    /\ at = "await" /\ \E i \in DOMAIN log : log[i] = Current
    /\ \/ at' = "idle" /\ UNCHANGED <<lost, attempt>>
       \/ TryAgain
    /\ UNCHANGED network /\ Fails

(* The answer of a broker that counted the request, which may be unreadable: *)
(* that is an error too, but not one to try again for.                       *)
Answered ==
    /\ at = "await" /\ \E i \in DOMAIN log : log[i] = Current
    /\ at' = "idle"
    /\ UNCHANGED <<lost, attempt, network>> /\ Fails

(* Mutated: the request is made without the context, which then only keeps   *)
(* the client from trying again.                                             *)
AbortedBetween ==
    /\ at = "send" /\ ctxDone
    /\ GiveUp /\ UNCHANGED network /\ Fails

(* The request ends with its context.                                        *)
Aborted ==
    /\ at \in {"send", "await"} /\ ctxDone
    /\ broken' = IF at = "await" THEN broken \cup {Current} ELSE broken
    /\ GiveUp /\ UNCHANGED <<copies, log>> /\ Fails

-----------------------------------------------------------------------------
(* The broker, and the end of the agent.                                     *)

Counts(copy) ==
    /\ copies' = copies \ {copy}
    /\ log' = Append(log, copy)
    /\ UNCHANGED <<scene, intake, lost, sending, broken, calm, ctxDone, run>>

(* The network and the broker are mended; before, anything may fail.         *)
Mended ==
    /\ ~calm /\ calm' = TRUE
    /\ UNCHANGED <<scene, intake, lost, sending, network, ctxDone, run>>

Cancel ==
    /\ run = "up" /\ ~ctxDone /\ ctxDone' = TRUE
    /\ UNCHANGED <<scene, intake, lost, sending, network, calm, run>>

Exit ==
    /\ run = "up" /\ at = "ended"
    /\ run' = "exited" /\ lost' = lost \cup held
    /\ UNCHANGED <<scene, intake, sending, network, calm, ctxDone>>

(* The steps the submitter takes by itself, and those others answer for.     *)
Submitting == TakeTick \/ (\E via \in Vias : FlushConduit(via)) \/ Submit \/ Send \/ Aborted
Answering  == Answered \/ DialFails \/ ConnectionBreaks \/ AnswerUnavailable \/ AnswerRefused

Next ==
    \/ \E p \in Posts : Open(p) \/ \E m \in todo[p] : Record(p, m)
    \/ Submitting \/ Answering \/ End
    \/ \E copy \in copies : Counts(copy)
    \/ Mended \/ Cancel \/ Exit

Spec == Init /\ [][Next]_vars

(* The ticker ticks and the submitter's goroutine runs; a select that finds   *)
(* the context done again and again takes that case at last; and a broker    *)
(* that is reached for good counts what it got, and answers.                 *)
FairSpec ==
    /\ Spec
    /\ WF_vars(Submitting) /\ SF_vars(End)
    /\ WF_vars(calm /\ Answered)
    /\ WF_vars(calm /\ \E copy \in copies : Counts(copy))

-----------------------------------------------------------------------------
(* Properties.                                                               *)

Counted == UNION {log[i].samples : i \in DOMAIN log}
Offered == {s \in SamplesOf(scene) : s[1] \notin opened \/ s[2] \in todo[s[1]]}

(* The fates of the samples; those of other scenes are never offered.        *)
Fates ==
    LET counted == Counted
        mine    == SamplesOf(scene)
        offered == Offered
    IN  [s \in Samples |->
            IF s \in counted       THEN "counted"
            ELSE IF s \in lost     THEN "lost"
            ELSE IF s \in batch    THEN "taken"
            ELSE IF s \in held     THEN "held"
            ELSE IF s \in replaced THEN "replaced"
            ELSE IF s \in passed   THEN "passed"
            ELSE IF s \in mine \ offered THEN "refused" ELSE "offered"]

AbstractLedger == INSTANCE SampleLedger WITH fate <- Fates

(* The receivers, the flushes that fall between the metrics of a request and *)
(* the retries keep the books: no sample is taken by two submissions or left *)
(* between them, and a submission is counted or lost as a whole              *)
(* (receiver.go:92-169, handlers.go:166-212, multiagent.go:181-327).         *)
KeepsLedger == AbstractLedger!Ledger

(* The broker counts a submission once, and submissions in the order they    *)
(* were collected, but for requests whose connection broke before they were  *)
(* answered: those the client sends again, and they may be counted twice, or *)
(* after newer ones (multiagent.go:246-327).                                 *)
CountedOnceInOrder ==
    \A i, j \in DOMAIN log :
        i < j /\ {log[i], log[j]} \cap broken = {} =>
            log[i].number < log[j].number /\ log[i].samples \cap log[j].samples = {}

(* However many submissions failed before, when the broker has become        *)
(* reachable for good everything that is held is submitted (multiagent.go:   *)
(* 159-179): no failure ends the submitter, or stops it for ever.            *)
Drains == <>[](calm /\ ~ctxDone) => <>[](held = {} \/ run = "panicked")

(* A cancellation ends the submitter, also one that waits for a broker that  *)
(* never answers: its HTTP client has no timeout of its own.                 *)
CancelEndsSubmitter == ctxDone ~> (at = "ended" \/ run = "panicked")
=============================================================================
