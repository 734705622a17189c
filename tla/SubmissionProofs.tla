-------------------------- MODULE SubmissionProofs --------------------------
(* Theorems about Submission, for any posts, settings, retries and broken    *)
(* connections.                                                              *)
EXTENDS Submission, SequenceTheorems, TLAPS

Copies == [number : Nat, attempt : Nat, samples : SUBSET Samples]

Logged == {log[i] : i \in DOMAIN log}
Known  == copies \cup broken \cup Logged
Sent   == UNION {c.samples : c \in Known}

Sending == at \in {"send", "await"}

TypeInv ==
    /\ scene \in Scenes /\ opened \in SUBSET Posts
    /\ DOMAIN todo = Posts
    /\ \A p \in Posts : todo[p] \subseteq scene.posts[p].metrics /\ (p \notin opened => todo[p] = {})
    /\ {held, batch, lost} \subseteq SUBSET Samples
    /\ at \in {"idle", "collect", "send", "await", "ended"}
    /\ number \in Nat /\ attempt \in Nat
    /\ copies \subseteq Copies /\ broken \subseteq Copies /\ log \in Seq(Copies)
    /\ run \in {"up", "exited", "panicked"}

(* What is offered, held and given away are apart.                           *)
ApartInv ==
    /\ Offered \cap (held \cup replaced \cup passed \cup batch \cup lost \cup Sent) = {}
    /\ held \cap (batch \cup Sent) = {}
    /\ run = "up" => held \cap lost = {}

(* The batch in work is nowhere else; one that is done with is counted or    *)
(* lost.                                                                     *)
BatchInv ==
    /\ at \in {"idle", "ended"} => batch \subseteq Counted \cup lost
    /\ at = "collect" => batch \cap Sent = {}
    /\ at \in {"collect", "send", "await"} /\ run = "up" => batch \cap lost = {}
    /\ run = "panicked" => held \cup batch \subseteq lost
    /\ run = "exited" => at = "ended"

(* Requests of the submission in work carry its batch, those of others       *)
(* nothing of it, and they are settled.                                      *)
RequestInv ==
    \A c \in Known :
        /\ c.number <= number
        /\ IF c.number = number /\ Sending
           THEN c.samples = batch
           ELSE c.samples \subseteq Counted \cup lost /\ (Sending => c.samples \cap batch = {})

(* A request whose connection holds is the one that is awaited, and is not   *)
(* counted yet; an attempt is made once.                                     *)
CopyInv ==
    /\ \A c \in copies \ broken : at = "await" /\ c = Current
    /\ copies \cap Logged = {}
    /\ at = "send" => \A c \in Known : c.number = number => c.attempt < attempt
    /\ at = "await" => \A c \in Known : c.number = number => c.attempt <= attempt
    /\ Sending => \A c \in Logged \ broken : c.number = number => at = "await" /\ c = Current

IInv == TypeInv /\ ApartInv /\ BatchInv /\ RequestInv /\ CopyInv /\ CountedOnceInOrder
-----------------------------------------------------------------------------
(* Samples of a scene, and what a step of the log adds to what is counted.   *)

LEMMA OfferedPairs ==
    ASSUME TypeInv, NEW s
    PROVE  s \in Offered <=>
               \E p \in Posts : \E m \in scene.posts[p].metrics :
                   s = <<p, m>> /\ (p \notin opened \/ m \in todo[p])
  BY DEF Offered, SamplesOf

LEMMA ScenePairs ==
    ASSUME TypeInv, NEW p \in Posts, NEW m \in scene.posts[p].metrics
    PROVE  <<p, m>> \in Samples /\ <<p, m>> \in SamplesOf(scene)
  <1>1. <<p, m>> \in SamplesOf(scene)
    BY DEF SamplesOf
  <1> QED BY <1>1 DEF Samples, TypeInv

LEMMA CountedSamples == \A s : s \in Counted <=> \E c \in Logged : s \in c.samples
  BY DEF Counted, Logged

LEMMA SentSamples == \A s : s \in Sent <=> \E c \in Known : s \in c.samples
  BY DEF Sent

LEMMA LoggedCopies == ASSUME TypeInv PROVE Logged \subseteq Copies
  <1>1. \A i \in DOMAIN log : log[i] \in Copies
    BY ElementOfSeq DEF TypeInv
  <1> QED BY <1>1 DEF Logged

LEMMA LogGrows ==
    ASSUME TypeInv, NEW copy \in copies, log' = Append(log, copy)
    PROVE  /\ log' \in Seq(Copies)
           /\ Len(log') = Len(log) + 1 /\ Len(log) \in Nat
           /\ DOMAIN log = 1 .. Len(log) /\ DOMAIN log' = 1 .. Len(log')
           /\ \A i \in DOMAIN log : log'[i] = log[i]
           /\ log'[Len(log) + 1] = copy
  BY DEF TypeInv

LEMMA LoggedGrows ==
    ASSUME TypeInv, NEW copy \in copies, log' = Append(log, copy)
    PROVE  Logged' = Logged \cup {copy}
  BY LogGrows DEF Logged

-----------------------------------------------------------------------------
(* What the intake does to the samples.                                      *)

LEMMA OpenOffers ==
    ASSUME TypeInv, NEW p \in Posts, Open(p)
    PROVE  /\ TypeInv' /\ Offered' \subseteq Offered
           /\ \A s \in Offered \ Offered' : s \in SamplesOf(scene)
  <1>1. scene' = scene /\ p \notin opened /\ opened' = opened \cup {p} /\ todo[p] = {}
    BY DEF Open, TypeInv
  <1>2. /\ DOMAIN todo' = Posts
        /\ \A q \in Posts : todo'[q] = IF q = p
             THEN IF scene.posts[p].readable THEN scene.posts[p].metrics ELSE {}
             ELSE todo[q]
    BY DEF Open, TypeInv
  <1>3. TypeInv'
    <2>1. DOMAIN todo' = Posts /\ \A q \in Posts :
              todo'[q] \subseteq scene'.posts[q].metrics /\ (q \notin opened' => todo'[q] = {})
      BY <1>1, <1>2 DEF TypeInv
    <2> QED BY <1>1, <2>1 DEF Open, TypeInv, sending, network
  <1>4. ASSUME NEW s \in Offered' PROVE s \in Offered
    <2>0. s \in Offered' <=> \E q \in Posts : \E m \in scene.posts[q].metrics :
              s = <<q, m>> /\ (q \notin opened' \/ m \in todo'[q])
      BY <1>1 DEF Offered, SamplesOf
    <2>1. PICK q \in Posts : \E m \in scene.posts[q].metrics :
              s = <<q, m>> /\ (q \notin opened' \/ m \in todo'[q])
      BY <1>4, <2>0
    <2> QED BY <1>1, <1>2, <2>1, OfferedPairs
  <1>5. ASSUME NEW s \in Offered PROVE s \in SamplesOf(scene)
    BY <1>5 DEF Offered
  <1> QED BY <1>3, <1>4, <1>5

(* A metric that is recorded is turned away or passed on, or it is held and  *)
(* may replace what was held of its name; or the process panics.             *)
RecordedAs(s) ==
    \/ passed' \in {passed, passed \cup {s}} /\ UNCHANGED <<held, replaced>>
    \/ \E old \in SUBSET held :
         /\ \A t \in old : Name(t) = Name(s)
         /\ held' = (held \ old) \cup {s} /\ replaced' = replaced \cup old
         /\ UNCHANGED passed

Panics == run' = "panicked" /\ lost' = lost \cup held \cup batch /\ UNCHANGED intake

LEMMA RecordCases ==
    ASSUME NEW p, NEW m, Record(p, m)
    PROVE  \/ Panics
           \/ /\ UNCHANGED <<opened, lost, run>> /\ todo' = [todo EXCEPT ![p] = @ \ {m}]
              /\ RecordedAs(<<p, m>>)
  <1> DEFINE does   == Intake(p, m)
             sample == <<p, m>>
             group  == ViaOf(sample) = "statsd" /\ Destination(scene.settings, m.prefix) = "group"
             old    == {s \in held : ViaOf(s) = ViaOf(sample) /\ Name(s) = Name(sample)}
  <1>1. CASE does.how = "panics"
    BY <1>1 DEF Record, Panics
  <1>2. CASE does.how # "panics"
    <2>1. /\ todo' = [todo EXCEPT ![p] = @ \ {m}]
          /\ passed' = IF does.how # "none" /\ group THEN passed \cup {sample} ELSE passed
          /\ IF does.how = "none" \/ group
             THEN UNCHANGED <<held, replaced>>
             ELSE IF does.how = "sets"
             THEN held' = (held \ old) \cup {sample} /\ replaced' = replaced \cup old
             ELSE held' = held \cup {sample} /\ UNCHANGED replaced
          /\ UNCHANGED <<opened, lost, run>>
      BY <1>2 DEF Record
    <2>2. CASE does.how = "none" \/ group
      BY <2>1, <2>2 DEF RecordedAs
    <2>3. CASE ~(does.how = "none" \/ group) /\ does.how = "sets"
      <3>1. old \in SUBSET held /\ \A t \in old : Name(t) = Name(sample)
        OBVIOUS
      <3>2. held' = (held \ old) \cup {sample} /\ replaced' = replaced \cup old /\ passed' = passed
        BY <2>1, <2>3
      <3> HIDE DEF old
      <3> QED BY <2>1, <3>1, <3>2 DEF RecordedAs
    <2>4. CASE ~(does.how = "none" \/ group) /\ does.how # "sets"
      <3>1. /\ held' = (held \ {}) \cup {sample} /\ replaced' = replaced \cup {}
            /\ UNCHANGED passed
        BY <2>1, <2>4
      <3>2. {} \in SUBSET held /\ \A t \in {} : Name(t) = Name(sample)
        OBVIOUS
      <3>3. RecordedAs(sample)
        BY <3>1, <3>2 DEF RecordedAs
      <3> QED BY <2>1, <3>3
    <2> QED BY <2>2, <2>3, <2>4
  <1> QED BY <1>1, <1>2

LEMMA RecordOffers ==
    ASSUME TypeInv, NEW p \in Posts, NEW m \in todo[p], UNCHANGED <<scene, opened>>,
           todo' = [todo EXCEPT ![p] = @ \ {m}]
    PROVE  <<p, m>> \in Offered /\ \A s : s \in Offered' <=> s \in Offered \ {<<p, m>>}
  <1>1. /\ DOMAIN todo' = Posts /\ p \in opened
        /\ \A q \in Posts : todo'[q] = IF q = p THEN todo[p] \ {m} ELSE todo[q]
        /\ m \in scene.posts[p].metrics
    BY DEF TypeInv
  <1>2. <<p, m>> \in Offered
    BY <1>1, OfferedPairs
  <1>3. ASSUME NEW s PROVE s \in Offered' <=>
               \E q \in Posts : \E n \in scene.posts[q].metrics :
                   s = <<q, n>> /\ (q \notin opened \/ n \in todo'[q])
    BY DEF Offered, SamplesOf
  <1>4. ASSUME NEW s \in Offered, s # <<p, m>> PROVE s \in Offered'
    <2>1. PICK q \in Posts : \E n \in scene.posts[q].metrics :
              s = <<q, n>> /\ (q \notin opened \/ n \in todo[q])
      BY OfferedPairs
    <2> QED BY <1>1, <1>3, <1>4, <2>1
  <1>5. ASSUME NEW s \in Offered' PROVE s \in Offered /\ s # <<p, m>>
    <2>1. PICK q \in Posts : \E n \in scene.posts[q].metrics :
              s = <<q, n>> /\ (q \notin opened \/ n \in todo'[q])
      BY <1>3, <1>5
    <2> QED BY <1>1, <2>1, OfferedPairs
  <1> QED BY <1>2, <1>4, <1>5

-----------------------------------------------------------------------------
(* The invariant.                                                            *)

LEMMA InitIInv == ASSUME Init PROVE IInv
  <1>1. Logged = {} /\ Known = {} /\ Sent = {} /\ Counted = {}
    BY DEF Init, Logged, Known, Sent, Counted
  <1>2. TypeInv
    BY DEF Init, TypeInv
  <1>3. ApartInv /\ BatchInv /\ RequestInv /\ CopyInv
    BY <1>1 DEF Init, ApartInv, BatchInv, RequestInv, CopyInv, Sending
  <1>4. CountedOnceInOrder
    BY DEF Init, CountedOnceInOrder
  <1> QED BY <1>2, <1>3, <1>4 DEF IInv

LEMMA NetworkKept ==
    ASSUME UNCHANGED network
    PROVE  /\ UNCHANGED <<Known, Logged, Sent, Counted>>
           /\ CountedOnceInOrder => CountedOnceInOrder'
  BY DEF network, Known, Logged, Sent, Counted, CountedOnceInOrder

(* The intake moves what was offered, and what was held, out of the way of   *)
(* the submitter.                                                            *)
LEMMA IntakeKeeps ==
    ASSUME IInv, TypeInv', run = "up", UNCHANGED <<lost, sending, network, run>>,
           Offered' \subseteq Offered, held' \subseteq held \cup (Offered \ Offered'),
           replaced' \cup passed' \subseteq replaced \cup passed \cup held \cup (Offered \ Offered')
    PROVE  IInv'
  <1>1. UNCHANGED <<Known, Logged, Sent, Counted>> /\ CountedOnceInOrder'
    BY NetworkKept DEF IInv
  <1>2. UNCHANGED <<at, batch, number, attempt, copies, broken, Current, Sending>>
    BY DEF sending, network, Current, Sending
  <1>3. ApartInv'
    BY <1>1, <1>2 DEF IInv, ApartInv
  <1>4. BatchInv'
    BY <1>1, <1>2 DEF IInv, BatchInv
  <1>5. RequestInv' /\ CopyInv'
    BY <1>1, <1>2 DEF IInv, RequestInv, CopyInv
  <1> QED BY <1>1, <1>3, <1>4, <1>5 DEF IInv

LEMMA OpenKeeps == ASSUME IInv, NEW p \in Posts, Open(p) PROVE IInv'
  <1>1. TypeInv' /\ Offered' \subseteq Offered
    BY OpenOffers DEF IInv
  <1>2. run = "up" /\ UNCHANGED <<held, replaced, passed, lost, sending, network, run>>
    BY DEF Open
  <1> QED BY <1>1, <1>2, IntakeKeeps

LEMMA PanicKeeps ==
    ASSUME IInv, Panics, UNCHANGED <<scene, sending, network, calm, ctxDone>>, run = "up"
    PROVE  IInv'
  <1>1. UNCHANGED <<Known, Logged, Sent, Counted>> /\ CountedOnceInOrder'
    BY NetworkKept DEF IInv
  <1>2. /\ UNCHANGED <<at, batch, number, attempt, copies, broken, Current, Sending>>
        /\ UNCHANGED <<held, replaced, passed, todo, opened, Offered>>
    BY DEF sending, network, Current, Sending, Panics, intake, Offered
  <1>3. TypeInv'
    BY <1>2 DEF IInv, TypeInv, Panics, network
  <1>4. ApartInv'
    BY <1>1, <1>2 DEF IInv, ApartInv, Panics
  <1>5. BatchInv'
    BY <1>1, <1>2 DEF IInv, BatchInv, Panics
  <1>6. RequestInv'
    BY <1>1, <1>2 DEF IInv, RequestInv, Panics
  <1>7. CopyInv'
    BY <1>1, <1>2 DEF IInv, CopyInv
  <1> QED BY <1>1, <1>3, <1>4, <1>5, <1>6, <1>7 DEF IInv

LEMMA RecordKeeps == ASSUME IInv, NEW p \in Posts, NEW m \in todo[p], Record(p, m) PROVE IInv'
  <1>0. run = "up" /\ UNCHANGED <<scene, sending, network, calm, ctxDone>>
    BY DEF Record
  <1>1. CASE Panics
    BY <1>0, <1>1, PanicKeeps
  <1>2. CASE /\ UNCHANGED <<opened, lost, run>> /\ todo' = [todo EXCEPT ![p] = @ \ {m}]
             /\ RecordedAs(<<p, m>>)
    <2> DEFINE s == <<p, m>>
    <2>1. s \in Offered /\ Offered' = Offered \ {s}
      BY <1>0, <1>2, RecordOffers DEF IInv
    <2>2. m \in scene.posts[p].metrics
      BY DEF IInv, TypeInv
    <2>3. s \in Samples
      BY <2>2, ScenePairs DEF IInv
    <2> HIDE DEF s
    <2>4. held' \subseteq held \cup {s}
      BY <1>2 DEF RecordedAs, s
    <2>5. replaced' \cup passed' \subseteq replaced \cup passed \cup held \cup {s}
      BY <1>2 DEF RecordedAs, s
    <2>6. TypeInv'
      <3>1. DOMAIN todo' = Posts /\ \A q \in Posts :
                todo'[q] \subseteq scene.posts[q].metrics /\ (q \notin opened => todo'[q] = {})
        BY <1>2 DEF IInv, TypeInv
      <3> QED BY <1>0, <1>2, <2>3, <2>4, <3>1 DEF IInv, TypeInv, sending, network
    <2> QED BY <1>0, <1>2, <2>1, <2>4, <2>5, <2>6, IntakeKeeps
  <1> QED BY <1>1, <1>2, RecordCases

-----------------------------------------------------------------------------
(* The submitter's own steps.                                                *)

LEMMA CurrentType == ASSUME TypeInv PROVE Current \in Copies
  BY DEF TypeInv, Copies, Current

LEMMA SubmitterKept ==
    ASSUME SubmitterOnly
    PROVE  run = "up" /\ UNCHANGED <<scene, opened, todo, replaced, passed, run, Offered>>
  BY DEF SubmitterOnly, Offered

LEMMA TakeTickKeeps == ASSUME IInv, TakeTick PROVE IInv'
  <1>1. UNCHANGED <<Known, Logged, Sent, Counted>> /\ CountedOnceInOrder'
    BY NetworkKept DEF IInv, TakeTick
  <1>2. SubmitterOnly
    BY DEF TakeTick
  <1>3. TypeInv'
    BY <1>2, SubmitterKept DEF IInv, TypeInv, TakeTick, network
  <1>4. ApartInv' /\ BatchInv'
    BY <1>1, <1>2, SubmitterKept DEF IInv, ApartInv, BatchInv, TakeTick
  <1>5. RequestInv' /\ CopyInv'
    BY <1>1 DEF IInv, RequestInv, CopyInv, TakeTick, Sending, network
  <1> QED BY <1>1, <1>3, <1>4, <1>5 DEF IInv

LEMMA EndKeeps == ASSUME IInv, End PROVE IInv'
  <1>1. UNCHANGED <<Known, Logged, Sent, Counted>> /\ CountedOnceInOrder'
    BY NetworkKept DEF IInv, End
  <1>2. SubmitterOnly
    BY DEF End
  <1>3. TypeInv'
    BY <1>2, SubmitterKept DEF IInv, TypeInv, End, network
  <1>4. ApartInv' /\ BatchInv'
    BY <1>1, <1>2, SubmitterKept DEF IInv, ApartInv, BatchInv, End
  <1>5. RequestInv' /\ CopyInv'
    BY <1>1 DEF IInv, RequestInv, CopyInv, End, Sending, network
  <1> QED BY <1>1, <1>3, <1>4, <1>5 DEF IInv

(* A flush takes what is held, and only that.                                *)
LEMMA FlushTakes ==
    ASSUME NEW via, FlushConduit(via)
    PROVE  \E mine \in SUBSET held : held' = held \ mine /\ batch' = batch \cup mine
  <1> DEFINE mine == {s \in held : ViaOf(s) = via}
  <1>1. held' = held \ mine /\ batch' = batch \cup mine
    BY DEF FlushConduit
  <1>2. mine \in SUBSET held
    OBVIOUS
  <1> HIDE DEF mine
  <1> QED BY <1>1, <1>2

LEMMA FlushKeeps == ASSUME IInv, NEW via, FlushConduit(via) PROVE IInv'
  <1>0. PICK mine \in SUBSET held : held' = held \ mine /\ batch' = batch \cup mine
    BY FlushTakes
  <1>1. UNCHANGED <<Known, Logged, Sent, Counted>> /\ CountedOnceInOrder'
    BY NetworkKept DEF IInv, FlushConduit
  <1>2. SubmitterOnly /\ at = "collect" /\ UNCHANGED <<at, lost, number, attempt, network>>
    BY DEF FlushConduit
  <1>3. TypeInv'
    BY <1>0, <1>2, SubmitterKept DEF IInv, TypeInv, network
  <1>4. ApartInv' /\ BatchInv'
    BY <1>0, <1>1, <1>2, SubmitterKept DEF IInv, ApartInv, BatchInv
  <1>5. RequestInv' /\ CopyInv'
    BY <1>1, <1>2 DEF IInv, RequestInv, CopyInv, Sending, network
  <1> QED BY <1>1, <1>3, <1>4, <1>5 DEF IInv

LEMMA SubmitKeeps == ASSUME IInv, Submit PROVE IInv'
  <1>1. UNCHANGED <<Known, Logged, Sent, Counted>> /\ CountedOnceInOrder'
    BY NetworkKept DEF IInv, Submit
  <1>2. SubmitterOnly /\ at = "collect" /\ UNCHANGED <<held, batch, network>>
    BY DEF Submit
  <1>3. CASE at' = "send" /\ number' = number + 1 /\ attempt' = 0 /\ UNCHANGED lost
    <2>1. TypeInv'
      BY <1>2, <1>3, SubmitterKept DEF IInv, TypeInv, network
    <2>2. ApartInv' /\ BatchInv'
      BY <1>1, <1>2, <1>3, SubmitterKept DEF IInv, ApartInv, BatchInv
    <2>3. \A c \in Known :
              c.number <= number' /\ c.number # number' /\ c.samples \cap batch = {}
      <3>1. \A c \in Known : c.number \in Nat
        BY LoggedCopies DEF Known, Copies, IInv, TypeInv
      <3>2. \A c \in Known : c.samples \subseteq Sent
        BY SentSamples
      <3> QED BY <1>2, <1>3, <3>1, <3>2 DEF IInv, TypeInv, BatchInv, RequestInv
    <2>4. RequestInv'
      BY <1>1, <1>2, <1>3, <2>3 DEF IInv, RequestInv, Sending
    <2>5. CopyInv'
      BY <1>1, <1>2, <1>3, <2>3 DEF IInv, CopyInv, Sending, network, Known
    <2> QED BY <1>1, <2>1, <2>2, <2>4, <2>5 DEF IInv
  <1>4. CASE at' = "idle" /\ lost' = lost \cup batch /\ UNCHANGED <<number, attempt>>
    <2>1. TypeInv'
      BY <1>2, <1>4, SubmitterKept DEF IInv, TypeInv, network
    <2>2. ApartInv' /\ BatchInv'
      BY <1>1, <1>2, <1>4, SubmitterKept DEF IInv, ApartInv, BatchInv
    <2>3. RequestInv' /\ CopyInv'
      BY <1>1, <1>2, <1>4 DEF IInv, RequestInv, CopyInv, Sending, network
    <2> QED BY <1>1, <2>1, <2>2, <2>3 DEF IInv
  <1> QED BY <1>3, <1>4 DEF Submit

LEMMA SendKeeps == ASSUME IInv, Send PROVE IInv'
  <1>0. Current \in Copies /\ Current.number = number /\ Current.samples = batch
    BY CurrentType DEF IInv, Current
  <1>1. /\ SubmitterOnly /\ at = "send" /\ at' = "await" /\ copies' = copies \cup {Current}
        /\ UNCHANGED <<held, lost, batch, number, attempt, broken, log>>
    BY DEF Send
  <1>2. UNCHANGED <<Logged, Counted, Current>> /\ CountedOnceInOrder'
    BY <1>1 DEF Logged, Counted, Current, CountedOnceInOrder, IInv
  <1>3. Known' = Known \cup {Current}
    BY <1>1, <1>2 DEF Known
  <1>4. \A s : s \in Sent' => s \in Sent \cup batch
    BY <1>0, <1>3, SentSamples DEF Sent
  <1>5. TypeInv'
    BY <1>0, <1>1, SubmitterKept DEF IInv, TypeInv
  <1>6. ApartInv' /\ BatchInv'
    BY <1>1, <1>2, <1>4, SubmitterKept DEF IInv, ApartInv, BatchInv
  <1>7. Current \notin Known /\ Current.attempt = attempt
    BY <1>0, <1>1 DEF IInv, CopyInv, TypeInv, Current
  <1>8. RequestInv'
    BY <1>0, <1>1, <1>2, <1>3 DEF IInv, RequestInv, Sending, TypeInv
  <1>9. CopyInv'
    <2>1. \A c \in Known : c.attempt \in Nat
      BY LoggedCopies DEF Known, Copies, IInv, TypeInv
    <2> QED
      BY <1>0, <1>1, <1>2, <1>3, <1>7, <2>1 DEF IInv, CopyInv, Sending, TypeInv, Known
  <1> QED BY <1>2, <1>5, <1>6, <1>8, <1>9 DEF IInv

-----------------------------------------------------------------------------
(* Answers, failures and retries.  They end a request of the submission in   *)
(* work, and what they leave of copies and broken depends on how.            *)

(* A submission is given up, or tried again.                                 *)
LEMMA TryAgainCases ==
    ASSUME TryAgain
    PROVE  \/ at' = "idle" /\ lost' = lost \cup batch /\ attempt' = attempt
           \/ at' = "send" /\ attempt' = attempt + 1 /\ lost' = lost
  BY DEF TryAgain, GiveUp

(* The network may lose the current request or learn that its connection     *)
(* broke.                                                                    *)
Loses ==
    /\ log' = log
    /\ copies' \in {copies, copies \ {Current}}
    /\ broken' \in {broken, broken \cup {Current}}
    /\ broken' # broken => at = "await"

EndsWithReason ==
    \/ Current \in broken'
    \/ Current \in copies /\ copies' = copies \ {Current}
    \/ at = "send"

LEMMA LosesKnown ==
    ASSUME IInv, Loses, EndsWithReason
    PROVE  /\ UNCHANGED <<Logged, Counted>> /\ CountedOnceInOrder'
           /\ \A c \in Known' : c \in Known \/ c = Current
           /\ copies' \subseteq Copies /\ broken' \subseteq Copies
           /\ copies' \ broken' = {}
  <1>1. UNCHANGED <<Logged, Counted>>
    BY DEF Loses, Logged, Counted
  <1>2. broken \subseteq broken'
    BY DEF Loses
  <1>3. CountedOnceInOrder'
    BY <1>2 DEF Loses, CountedOnceInOrder, IInv
  <1>4. Current \in Copies
    BY CurrentType DEF IInv
  <1> QED BY <1>1, <1>2, <1>3, <1>4 DEF Loses, EndsWithReason, Known, IInv, TypeInv, CopyInv

LEMMA FailKeeps ==
    ASSUME IInv, Sending, Fails, Loses,
           EndsWithReason,
           \/ at' = "idle" /\ lost' = lost \cup batch /\ attempt' = attempt
           \/ at' = "send" /\ attempt' = attempt + 1 /\ lost' = lost
    PROVE  IInv'
  <1>1. /\ UNCHANGED <<Logged, Counted>> /\ CountedOnceInOrder'
        /\ \A c \in Known' : c \in Known \/ c = Current
        /\ copies' \subseteq Copies /\ broken' \subseteq Copies
        /\ copies' \ broken' = {}
    BY LosesKnown
  <1>2. SubmitterOnly /\ UNCHANGED <<held, batch, number>>
    BY DEF Fails
  <1>3. Current.number = number /\ Current.samples = batch /\ Current.attempt = attempt
    BY DEF Current
  <1>4. \A s : s \in Sent' => s \in Sent \cup batch
    BY <1>1, <1>3, SentSamples DEF Sent
  <1>5. TypeInv'
    BY <1>1, <1>2, SubmitterKept DEF IInv, TypeInv, Loses
  <1>6. ApartInv'
    BY <1>1, <1>2, <1>4, SubmitterKept DEF IInv, ApartInv
  <1>7. BatchInv'
    BY <1>1, <1>2, SubmitterKept DEF IInv, BatchInv, Sending
  <1>8. RequestInv'
    BY <1>1, <1>2, <1>3 DEF IInv, RequestInv, Sending, TypeInv
  <1>9. CopyInv'
    <2>1. CASE at' = "idle"
      BY <1>1, <2>1 DEF IInv, CopyInv, Sending, Loses
    <2>2. CASE at' = "send" /\ attempt' = attempt + 1
      <3>1. \A c \in Known : c.number = number => c.attempt \in Nat /\ c.attempt <= attempt
        <4>1. \A c \in Known : c.attempt \in Nat
          BY LoggedCopies DEF Known, Copies, IInv, TypeInv
        <4> QED BY <4>1 DEF IInv, CopyInv, Sending, TypeInv
      <3>2. \A c \in Known' : c.number = number => c.attempt < attempt'
        BY <1>1, <1>3, <2>2, <3>1 DEF IInv, TypeInv
      <3>3. \A c \in Logged \ broken' : c.number # number
        BY <1>1 DEF IInv, CopyInv, Sending, Loses, EndsWithReason
      <3>4. copies' \cap Logged = {}
        BY DEF IInv, CopyInv, Loses
      <3> QED BY <1>1, <1>2, <2>2, <3>2, <3>3, <3>4 DEF CopyInv, Sending
    <2> QED BY <2>1, <2>2
  <1> QED BY <1>1, <1>5, <1>6, <1>7, <1>8, <1>9 DEF IInv

LEMMA DialFailsKeeps == ASSUME IInv, DialFails PROVE IInv'
  <1>1. Sending /\ Fails /\ Loses /\ EndsWithReason
    BY DEF DialFails, Sending, network, Loses, EndsWithReason
  <1> QED BY <1>1, FailKeeps, TryAgainCases DEF DialFails

LEMMA ConnectionBreaksKeeps == ASSUME IInv, ConnectionBreaks PROVE IInv'
  <1>1. Sending /\ Fails /\ Loses /\ EndsWithReason
    BY DEF ConnectionBreaks, Sending, Loses, EndsWithReason
  <1> QED BY <1>1, FailKeeps, TryAgainCases DEF ConnectionBreaks

LEMMA AnswerUnavailableKeeps == ASSUME IInv, AnswerUnavailable PROVE IInv'
  <1>1. Sending /\ Fails /\ Loses /\ EndsWithReason
    BY DEF AnswerUnavailable, Sending, Loses, EndsWithReason
  <1> QED BY <1>1, FailKeeps, TryAgainCases DEF AnswerUnavailable

LEMMA AnswerRefusedKeeps == ASSUME IInv, AnswerRefused PROVE IInv'
  <1>1. Sending /\ Fails /\ Loses /\ EndsWithReason
    BY DEF AnswerRefused, Sending, Loses, EndsWithReason
  <1> QED BY <1>1, FailKeeps DEF AnswerRefused, GiveUp

LEMMA AbortedKeeps == ASSUME IInv, Aborted PROVE IInv'
  <1>1. Sending /\ Fails /\ Loses /\ EndsWithReason
    BY DEF Aborted, Sending, Loses, EndsWithReason
  <1> QED BY <1>1, FailKeeps DEF Aborted, GiveUp

LEMMA AnsweredKeeps == ASSUME IInv, Answered PROVE IInv'
  <1>1. UNCHANGED <<Known, Logged, Sent, Counted>> /\ CountedOnceInOrder'
    BY NetworkKept DEF IInv, Answered
  <1>2. /\ SubmitterOnly /\ at = "await" /\ at' = "idle" /\ Current \in Logged
        /\ UNCHANGED <<held, batch, lost, number, attempt, network>>
    BY DEF Answered, Fails, Logged
  <1>3. batch \subseteq Counted
    BY <1>2, CountedSamples DEF Current
  <1>4. TypeInv'
    BY <1>2, SubmitterKept DEF IInv, TypeInv, network
  <1>5. ApartInv' /\ BatchInv'
    BY <1>1, <1>2, <1>3, SubmitterKept DEF IInv, ApartInv, BatchInv
  <1>6. RequestInv'
    BY <1>1, <1>2, <1>3 DEF IInv, RequestInv, Sending
  <1>7. CopyInv'
    <2>1. copies \ broken = {}
      BY <1>2 DEF IInv, CopyInv
    <2> QED BY <1>1, <1>2, <2>1 DEF IInv, CopyInv, Sending, network
  <1> QED BY <1>1, <1>4, <1>5, <1>6, <1>7 DEF IInv

-----------------------------------------------------------------------------
(* The broker counts a request: a newer one than it counted before, unless   *)
(* the connection of one of them broke.                                      *)

LEMMA CountsInOrder ==
    ASSUME IInv, NEW copy \in copies, Counts(copy)
    PROVE  CountedOnceInOrder'
  <1>1. log' = Append(log, copy) /\ UNCHANGED broken
    BY DEF Counts
  <1>2. /\ Len(log') = Len(log) + 1 /\ Len(log) \in Nat
        /\ DOMAIN log = 1 .. Len(log) /\ DOMAIN log' = 1 .. Len(log')
        /\ \A i \in DOMAIN log : log'[i] = log[i]
        /\ log'[Len(log) + 1] = copy
    BY <1>1, LogGrows DEF IInv
  <1> SUFFICES ASSUME NEW i \in DOMAIN log', NEW j \in DOMAIN log',
                      i < j, {log'[i], log'[j]} \cap broken = {}
               PROVE  /\ log'[i].number < log'[j].number
                      /\ log'[i].samples \cap log'[j].samples = {}
    BY <1>1 DEF CountedOnceInOrder
  <1>3. i \in DOMAIN log /\ log'[i] = log[i]
    BY <1>2
  <1>4. CASE j \in DOMAIN log
    <2>1. log'[j] = log[j]
      BY <1>2, <1>4
    <2> QED BY <1>3, <1>4, <2>1 DEF IInv, CountedOnceInOrder
  <1>5. CASE j \notin DOMAIN log
    <2>1. log'[j] = copy
      BY <1>2, <1>5
    <2>2. at = "await" /\ copy = Current
      BY <2>1 DEF IInv, CopyInv
    <2>3. log[i] \in Logged /\ log[i] \in Known /\ log[i] \notin broken
      BY <1>3 DEF Logged, Known
    <2>4. log[i].number # number
      BY <2>2, <2>3 DEF IInv, CopyInv, Sending
    <2>5. log[i].number \in Nat /\ log[i].number <= number
      BY <2>3, LoggedCopies DEF IInv, RequestInv, Copies
    <2>6. log[i].samples \cap batch = {}
      BY <2>2, <2>3, <2>4 DEF IInv, RequestInv, Sending
    <2> QED BY <1>3, <2>1, <2>2, <2>4, <2>5, <2>6 DEF Current, IInv, TypeInv
  <1> QED BY <1>4, <1>5

LEMMA CountsKeeps == ASSUME IInv, NEW copy \in copies, Counts(copy) PROVE IInv'
  <1>1. /\ log' = Append(log, copy) /\ copies' = copies \ {copy} /\ UNCHANGED broken
        /\ UNCHANGED <<scene, intake, lost, sending, run>>
    BY DEF Counts
  <1>2. Logged' = Logged \cup {copy} /\ log' \in Seq(Copies)
    BY <1>1, LoggedGrows, LogGrows DEF IInv
  <1>3. Known' = Known /\ Sent' = Sent
    BY <1>1, <1>2 DEF Known, Sent
  <1>4. \A s : s \in Counted' <=> s \in Counted \cup copy.samples
    <2>1. \A s : s \in Counted' <=> \E c \in Logged' : s \in c.samples
      BY DEF Counted, Logged
    <2> QED BY <1>2, <2>1, CountedSamples
  <1>5. UNCHANGED <<Offered, Current, at, batch, number, attempt, held, replaced, passed>>
    BY <1>1 DEF Offered, Current, intake, sending
  <1>6. TypeInv'
    BY <1>1, <1>2, <1>5 DEF IInv, TypeInv, intake
  <1>7. ApartInv'
    BY <1>1, <1>3, <1>5 DEF IInv, ApartInv
  <1>8. BatchInv'
    BY <1>1, <1>3, <1>4, <1>5 DEF IInv, BatchInv
  <1>9. RequestInv'
    BY <1>1, <1>3, <1>4, <1>5 DEF IInv, RequestInv, Sending
  <1>10. CopyInv'
    <2>1. copies' \subseteq copies /\ copies' \cap Logged' = {}
      BY <1>1, <1>2 DEF IInv, CopyInv
    <2>2. ASSUME NEW c \in Logged' \ broken, Sending, c.number = number
          PROVE  at = "await" /\ c = Current
      BY <1>2, <2>2 DEF IInv, CopyInv, Sending
    <2> QED BY <1>1, <1>3, <1>5, <2>1, <2>2 DEF IInv, CopyInv, Sending
  <1> QED BY CountsInOrder, <1>6, <1>7, <1>8, <1>9, <1>10 DEF IInv

LEMMA OthersKeep ==
    ASSUME IInv, Mended \/ Cancel \/ Exit \/ UNCHANGED vars
    PROVE  IInv'
  <1>1. UNCHANGED <<scene, intake, sending, network>>
    BY DEF Mended, Cancel, Exit, vars
  <1>2. UNCHANGED <<Known, Logged, Sent, Counted>> /\ CountedOnceInOrder'
    BY <1>1, NetworkKept DEF IInv
  <1>3. UNCHANGED <<Offered, Current, Sending>>
    BY <1>1 DEF Offered, Current, Sending, intake, sending
  <1>4. \/ UNCHANGED <<lost, run>>
        \/ run' = "exited" /\ run = "up" /\ at = "ended" /\ lost' = lost \cup held
    BY DEF Mended, Cancel, Exit, vars
  <1>5. TypeInv'
    BY <1>1, <1>4 DEF IInv, TypeInv, intake, sending, network
  <1>6. ApartInv' /\ BatchInv'
    BY <1>1, <1>2, <1>3, <1>4 DEF IInv, ApartInv, BatchInv, intake, sending
  <1>7. RequestInv' /\ CopyInv'
    BY <1>1, <1>2, <1>3, <1>4 DEF IInv, RequestInv, CopyInv, sending, network
  <1> QED BY <1>2, <1>5, <1>6, <1>7 DEF IInv

LEMMA NextIInv == ASSUME IInv, [Next]_vars PROVE IInv'
  <1>1. ASSUME NEW p \in Posts, Open(p) \/ \E m \in todo[p] : Record(p, m) PROVE IInv'
    BY <1>1, OpenKeeps, RecordKeeps
  <1>2. CASE Submitting
    BY <1>2, TakeTickKeeps, FlushKeeps, SubmitKeeps, SendKeeps, AbortedKeeps DEF Submitting
  <1>3. CASE Answering
    BY <1>3, AnsweredKeeps, DialFailsKeeps, ConnectionBreaksKeeps, AnswerUnavailableKeeps,
       AnswerRefusedKeeps DEF Answering
  <1>4. CASE \E copy \in copies : Counts(copy)
    BY <1>4, CountsKeeps
  <1> QED BY <1>1, <1>2, <1>3, <1>4, EndKeeps, OthersKeep DEF Next

LEMMA IInvHolds == Spec => []IInv
  BY InitIInv, NextIInv, PTL DEF Spec

(* A submission is counted once, and submissions in the order they were      *)
(* collected, but for requests whose connection broke (multiagent.go:        *)
(* 246-327).                                                                 *)
THEOREM CountedInOrder == Spec => []CountedOnceInOrder
  <1>1. IInv => CountedOnceInOrder
    BY DEF IInv
  <1> QED BY <1>1, IInvHolds, PTL

-----------------------------------------------------------------------------
(* The books: each step of Submission is a step of SampleLedger, or leaves   *)
(* the fates alone.                                                          *)

LedgerStep == AbstractLedger!LedgerNext \/ UNCHANGED Fates

LEMMA FatesKept ==
    ASSUME UNCHANGED <<scene, Counted, lost, batch, held, replaced, passed, Offered>>
    PROVE  UNCHANGED Fates
  BY DEF Fates

LEMMA FateOfOffered ==
    ASSUME IInv, NEW s \in Samples, s \in Offered
    PROVE  /\ s \notin Counted \cup lost \cup batch \cup held \cup replaced \cup passed
           /\ Fates[s] = "offered"
  <1>1. s \notin Counted
    BY CountedSamples, SentSamples DEF IInv, ApartInv, Known
  <1>2. s \notin lost \cup batch \cup held \cup replaced \cup passed
    BY DEF IInv, ApartInv
  <1> QED BY <1>1, <1>2 DEF Fates

LEMMA FateOfHeld ==
    ASSUME IInv, NEW s \in Samples, s \in held, run = "up"
    PROVE  /\ s \notin Counted \cup lost \cup batch
           /\ Fates[s] = "held"
  <1>1. s \notin Counted
    BY CountedSamples, SentSamples DEF IInv, ApartInv, Known
  <1>2. s \notin lost \cup batch
    BY DEF IInv, ApartInv
  <1> QED BY <1>1, <1>2 DEF Fates

LEMMA InitLedger == ASSUME Init PROVE AbstractLedger!LedgerInit
  BY DEF Fates, Init, AbstractLedger!LedgerInit, Offered, Counted

LEMMA OpenLedger == ASSUME IInv, NEW p \in Posts, Open(p) PROVE LedgerStep
  <1>1. UNCHANGED <<scene, Counted, lost, batch, held, replaced, passed>>
    BY NetworkKept DEF Open, sending
  <1>2. Offered' \subseteq Offered /\ \A s \in Offered \ Offered' : s \in SamplesOf(scene)
    BY OpenOffers DEF IInv
  <1>3. ASSUME NEW s \in Samples
        PROVE  \/ Fates'[s] = Fates[s]
               \/ Fates[s] = "offered" /\ Fates'[s] \in {"refused", "passed"}
    <2>1. CASE s \in Offered \ Offered'
      <3>1. Fates[s] = "offered"
        BY <2>1, FateOfOffered
      <3>2. s \notin Counted \cup lost \cup batch \cup held \cup replaced \cup passed
        BY <2>1, FateOfOffered
      <3>3. Fates'[s] = "refused"
        BY <1>1, <1>2, <2>1, <3>2 DEF Fates
      <3> QED BY <3>1, <3>3
    <2>2. CASE s \in Offered <=> s \in Offered'
      BY <1>1, <2>2 DEF Fates
    <2> QED BY <1>2, <2>1, <2>2
  <1>4. AbstractLedger!Turn(Fates, Fates')
    BY <1>3 DEF AbstractLedger!Turn, AbstractLedger!Moves
  <1> QED BY <1>4 DEF LedgerStep, AbstractLedger!LedgerNext

LEMMA PanicLedger ==
    ASSUME IInv, Panics, UNCHANGED <<scene, sending, network, calm, ctxDone>>, run = "up"
    PROVE  LedgerStep
  <1>1. UNCHANGED <<scene, Counted, batch, held, replaced, passed, Offered>>
    BY NetworkKept DEF Panics, sending, intake, Offered
  <1>2. lost' = lost \cup held \cup batch
    BY DEF Panics
  <1>3. \A s \in Samples :
            Fates'[s] = IF Fates[s] \in {"held", "taken"} THEN "lost" ELSE Fates[s]
    BY <1>1, <1>2 DEF Fates
  <1>4. Fates' = [s \in Samples |-> IF Fates[s] \in {"held", "taken"} THEN "lost" ELSE Fates[s]]
    BY <1>3 DEF Fates
  <1>5. AbstractLedger!Drop(Fates, Fates')
    BY <1>4 DEF AbstractLedger!Drop
  <1> QED BY <1>5 DEF LedgerStep, AbstractLedger!LedgerNext

LEMMA RecordLedger == ASSUME IInv, NEW p \in Posts, NEW m \in todo[p], Record(p, m) PROVE LedgerStep
  <1>0. run = "up" /\ UNCHANGED <<scene, sending, network, calm, ctxDone>>
    BY DEF Record
  <1>1. CASE Panics
    BY <1>0, <1>1, PanicLedger
  <1>2. CASE /\ UNCHANGED <<opened, lost, run>> /\ todo' = [todo EXCEPT ![p] = @ \ {m}]
             /\ RecordedAs(<<p, m>>)
    <2> DEFINE s == <<p, m>>
    <2>1. s \in Offered /\ Offered' = Offered \ {s}
      BY <1>0, <1>2, RecordOffers DEF IInv
    <2>2. m \in scene.posts[p].metrics
      BY DEF IInv, TypeInv
    <2>3. s \in Samples /\ s \in SamplesOf(scene)
      BY <2>2, ScenePairs DEF IInv
    <2>4. UNCHANGED <<scene, Counted, lost, batch>>
      BY <1>0, <1>2, NetworkKept DEF sending
    <2>5. RecordedAs(s)
      BY <1>2
    <2> HIDE DEF s
    <2>6. /\ s \notin Counted \cup lost \cup batch \cup held \cup replaced \cup passed
          /\ Fates[s] = "offered"
      BY <2>1, <2>3, FateOfOffered
    <2>7. CASE passed' \in {passed, passed \cup {s}} /\ UNCHANGED <<held, replaced>>
      <3>1. Fates'[s] \in {"refused", "passed"}
        BY <2>1, <2>3, <2>4, <2>6, <2>7 DEF Fates
      <3>2. \A t \in Samples \ {s} : Fates'[t] = Fates[t]
        BY <2>1, <2>4, <2>7 DEF Fates
      <3>3. AbstractLedger!Turn(Fates, Fates')
        BY <2>6, <3>1, <3>2 DEF AbstractLedger!Turn, AbstractLedger!Moves
      <3> QED BY <3>3 DEF LedgerStep, AbstractLedger!LedgerNext
    <2>8. ASSUME NEW old \in SUBSET held, \A t \in old : Name(t) = Name(s),
                 held' = (held \ old) \cup {s}, replaced' = replaced \cup old, UNCHANGED passed
          PROVE  LedgerStep
      <3>1. Fates'[s] = "held"
        BY <2>4, <2>6, <2>3, <2>8 DEF Fates
      <3>2. ASSUME NEW t \in Samples \ {s}
            PROVE  \/ Fates'[t] = Fates[t]
                   \/ Fates[t] = "held" /\ Name(t) = Name(s) /\ Fates'[t] = "replaced"
        <4>1. CASE t \in old
          <5>1. t \notin Counted \cup lost \cup batch /\ Fates[t] = "held"
            BY <1>0, <4>1, FateOfHeld
          <5>2. Fates'[t] = "replaced"
            BY <2>4, <2>8, <4>1, <5>1 DEF Fates
          <5> QED BY <2>8, <4>1, <5>1, <5>2
        <4>2. CASE t \notin old
          BY <2>1, <2>4, <2>8, <4>2 DEF Fates
        <4> QED BY <4>1, <4>2
      <3>3. AbstractLedger!Hold(Fates, Fates')
        BY <2>3, <2>6, <3>1, <3>2 DEF AbstractLedger!Hold
      <3> QED BY <3>3 DEF LedgerStep, AbstractLedger!LedgerNext
    <2> QED BY <2>5, <2>7, <2>8 DEF RecordedAs
  <1> QED BY <1>1, <1>2, RecordCases

LEMMA TakeTickLedger == ASSUME IInv, TakeTick PROVE LedgerStep
  <1>1. UNCHANGED <<scene, Counted, lost, held, replaced, passed, Offered>>
    BY NetworkKept, SubmitterKept DEF TakeTick
  <1>2. batch \subseteq Counted \cup lost /\ batch' = {}
    BY DEF TakeTick, IInv, BatchInv
  <1>3. Fates' = Fates
    BY <1>1, <1>2 DEF Fates
  <1> QED BY <1>3 DEF LedgerStep

LEMMA FlushLedger == ASSUME IInv, NEW via, FlushConduit(via) PROVE LedgerStep
  <1>0. PICK mine \in SUBSET held : held' = held \ mine /\ batch' = batch \cup mine
    BY FlushTakes
  <1>1. /\ UNCHANGED <<scene, Counted, lost, replaced, passed, Offered>>
        /\ run = "up"
    BY NetworkKept, SubmitterKept DEF FlushConduit
  <1>2. ASSUME NEW s \in Samples
        PROVE  Fates'[s] = Fates[s] \/ (Fates[s] = "held" /\ Fates'[s] = "taken")
    <2>1. CASE s \in mine
      <3>1. s \notin Counted \cup lost \cup batch /\ Fates[s] = "held"
        BY <1>1, <2>1, FateOfHeld
      <3>2. Fates'[s] = "taken"
        BY <1>0, <1>1, <2>1, <3>1 DEF Fates
      <3> QED BY <3>1, <3>2
    <2>2. CASE s \notin mine
      BY <1>0, <1>1, <2>2 DEF Fates
    <2> QED BY <2>1, <2>2
  <1>3. AbstractLedger!Take(Fates, Fates')
    BY <1>2 DEF AbstractLedger!Take, AbstractLedger!Moves
  <1> QED BY <1>3 DEF LedgerStep, AbstractLedger!LedgerNext

(* What a submission gives up is lost as a whole.                            *)
LEMMA GivenUp ==
    ASSUME UNCHANGED <<scene, Counted, batch, held, replaced, passed, Offered>>,
           lost' \in {lost, lost \cup batch}
    PROVE  LedgerStep
  <1>1. CASE lost' = lost
    BY <1>1, FatesKept DEF LedgerStep
  <1>2. CASE lost' = lost \cup batch
    <2>1. \A s \in Samples : Fates'[s] = IF Fates[s] = "taken" THEN "lost" ELSE Fates[s]
      BY <1>2 DEF Fates
    <2>2. Fates' = [s \in Samples |-> IF Fates[s] = "taken" THEN "lost" ELSE Fates[s]]
      BY <2>1 DEF Fates
    <2>3. AbstractLedger!Settle(Fates, Fates', "lost")
      BY <2>2 DEF AbstractLedger!Settle
    <2> QED BY <2>3 DEF LedgerStep, AbstractLedger!LedgerNext
  <1> QED BY <1>1, <1>2

LEMMA SubmitLedger == ASSUME Submit PROVE LedgerStep
  <1>1. UNCHANGED <<scene, Counted, batch, held, replaced, passed, Offered>>
    BY NetworkKept, SubmitterKept DEF Submit
  <1>2. lost' \in {lost, lost \cup batch}
    BY DEF Submit
  <1> QED BY <1>1, <1>2, GivenUp

LEMMA AnsweringLedger == ASSUME Answering \/ Aborted PROVE LedgerStep
  <1>1. Fails /\ UNCHANGED log
    BY DEF Answering, Aborted, Answered, DialFails, ConnectionBreaks, AnswerUnavailable,
           AnswerRefused, network
  <1>2. lost' \in {lost, lost \cup batch}
    BY DEF Answering, Aborted, Answered, DialFails, ConnectionBreaks, AnswerUnavailable,
           AnswerRefused, TryAgain, GiveUp
  <1>3. UNCHANGED <<scene, Counted, batch, held, replaced, passed, Offered>>
    BY <1>1, SubmitterKept DEF Fails, Counted
  <1> QED BY <1>2, <1>3, GivenUp

(* The request of the submission in work settles it; any other is of samples *)
(* that are settled, and may count what was lost.                            *)
LEMMA CountsLedger == ASSUME IInv, NEW copy \in copies, Counts(copy) PROVE LedgerStep
  <1>1. /\ log' = Append(log, copy)
        /\ UNCHANGED <<scene, lost, batch, held, replaced, passed, Offered>>
    BY DEF Counts, intake, sending, Offered
  <1>2. \A s : s \in Counted' <=> s \in Counted \cup copy.samples
    <2>1. \A s : s \in Counted' <=> \E c \in Logged' : s \in c.samples
      BY DEF Counted, Logged
    <2> QED BY <1>1, <2>1, LoggedGrows, CountedSamples DEF IInv
  <1>3. CASE copy.samples \subseteq Counted \cup lost
    <2>1. \A s \in Samples :
              Fates'[s] = Fates[s] \/ (Fates[s] = "lost" /\ Fates'[s] = "counted")
      BY <1>1, <1>2, <1>3 DEF Fates
    <2>2. AbstractLedger!CountLate(Fates, Fates')
      BY <2>1 DEF AbstractLedger!CountLate, AbstractLedger!Moves
    <2> QED BY <2>2 DEF LedgerStep, AbstractLedger!LedgerNext
  <1>4. CASE copy.samples = batch /\ batch \cap lost = {}
    <2>1. \A s \in Samples : Fates'[s] = IF Fates[s] = "taken" THEN "counted" ELSE Fates[s]
      BY <1>1, <1>2, <1>4 DEF Fates
    <2>2. Fates' = [s \in Samples |-> IF Fates[s] = "taken" THEN "counted" ELSE Fates[s]]
      BY <2>1 DEF Fates
    <2>3. AbstractLedger!Settle(Fates, Fates', "counted")
      BY <2>2 DEF AbstractLedger!Settle
    <2> QED BY <2>3 DEF LedgerStep, AbstractLedger!LedgerNext
  <1>5. \/ copy.samples \subseteq Counted \cup lost
        \/ copy.samples = batch /\ Sending
    BY DEF IInv, RequestInv, Known
  <1>6. Sending => batch \cap lost = {} \/ batch \subseteq lost
    BY DEF IInv, BatchInv, TypeInv, Sending
  <1> QED BY <1>3, <1>4, <1>5, <1>6

LEMMA ExitLedger == ASSUME IInv, Exit PROVE LedgerStep
  <1>1. UNCHANGED <<scene, Counted, batch, held, replaced, passed, Offered>>
    BY NetworkKept DEF Exit, intake, sending, Offered
  <1>2. lost' = lost \cup held /\ run = "up" /\ batch \subseteq Counted \cup lost
    BY DEF Exit, IInv, BatchInv
  <1>3. ASSUME NEW s \in Samples
        PROVE  Fates'[s] = IF Fates[s] \in {"held", "taken"} THEN "lost" ELSE Fates[s]
    <2>1. CASE s \in held
      <3>1. s \notin Counted /\ Fates[s] = "held"
        BY <1>2, <2>1, FateOfHeld
      <3> QED BY <1>1, <1>2, <2>1, <3>1 DEF Fates
    <2>2. CASE s \notin held
      BY <1>1, <1>2, <2>2 DEF Fates
    <2> QED BY <2>1, <2>2
  <1>4. Fates' = [s \in Samples |-> IF Fates[s] \in {"held", "taken"} THEN "lost" ELSE Fates[s]]
    BY <1>3 DEF Fates
  <1>5. AbstractLedger!Drop(Fates, Fates')
    BY <1>4 DEF AbstractLedger!Drop
  <1> QED BY <1>5 DEF LedgerStep, AbstractLedger!LedgerNext

LEMMA OthersLedger ==
    ASSUME Send \/ End \/ Mended \/ Cancel \/ UNCHANGED vars
    PROVE  LedgerStep
  <1>1. UNCHANGED <<scene, lost, batch, held, replaced, passed, Offered, log>>
    BY SubmitterKept DEF Send, End, Mended, Cancel, vars, intake, sending, network, Offered
  <1>2. UNCHANGED Counted
    BY <1>1 DEF Counted
  <1> QED BY <1>1, <1>2, FatesKept DEF LedgerStep

LEMMA NextLedger == ASSUME IInv, [Next]_vars PROVE LedgerStep
  <1>1. ASSUME NEW p \in Posts, Open(p) \/ \E m \in todo[p] : Record(p, m) PROVE LedgerStep
    BY <1>1, OpenLedger, RecordLedger
  <1>2. CASE Submitting
    BY <1>2, TakeTickLedger, FlushLedger, SubmitLedger, OthersLedger, AnsweringLedger
       DEF Submitting
  <1>3. CASE \E copy \in copies : Counts(copy)
    BY <1>3, CountsLedger
  <1> QED BY <1>1, <1>2, <1>3, AnsweringLedger, ExitLedger, OthersLedger DEF Next

(* The receivers, the flushes and the retries keep the books: Submission     *)
(* implements SampleLedger (receiver.go:92-169, handlers.go:166-212,         *)
(* multiagent.go:181-327).                                                   *)
THEOREM LedgerKept == Spec => KeepsLedger
  <1>1. Init => AbstractLedger!LedgerInit
    BY InitLedger
  <1>2. IInv /\ [Next]_vars => [AbstractLedger!LedgerNext]_Fates
    BY NextLedger DEF LedgerStep
  <1> QED BY <1>1, <1>2, IInvHolds, PTL DEF Spec, KeepsLedger, AbstractLedger!Ledger
=============================================================================
