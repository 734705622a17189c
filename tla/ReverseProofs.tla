--------------------------- MODULE ReverseProofs ----------------------------
(* Theorems about Reverse, for any cluster, retry limits, changes and        *)
(* failures.                                                                 *)
EXTENDS Reverse, TLAPS

Phases   == {"retry", "dial", "live", "returned"}
Outcomes == {"none", "nil", "refresh"}
Reasons  == {"none", "stopped", "api", "url", "query", "owner"}

LifeOK ==
    /\ ctxDone \in BOOLEAN /\ attempts \in Nat
    /\ phase \in Phases /\ outcome \in Outcomes

ClusterOK ==
    /\ members \in SUBSET Brokers /\ owner \in members /\ changes \in Nat
    /\ owners \in SUBSET Brokers /\ owner \in owners

(* What Start knows of the cluster, which is all there is to know as long as *)
(* the cluster has not changed.                                              *)
ConfigOK ==
    /\ urls \in (SUBSET Brokers) \ {{}}
    /\ configs \in (SUBSET Brokers) \ {{}} /\ untried \in SUBSET configs
    /\ refreshCheck \in BOOLEAN
    /\ changes = 0 => urls = members /\ configs = members

StartOK ==
    /\ at \in {"top", "broker", "look", "serve", "returned"}
    /\ primary \in Brokers /\ reason \in Reasons /\ faults \in Nat
    /\ ConnectsToAnOwner /\ ConnectionErrorsSurvived

IInv == LifeOK /\ ClusterOK /\ ConfigOK /\ StartOK

(* Parts of the invariant that a step leaves alone.                          *)
LEMMA LifeKept == ASSUME LifeOK, UNCHANGED lifeVars PROVE LifeOK'
  BY DEF LifeOK, lifeVars

LEMMA ClusterKept == ASSUME ClusterOK, UNCHANGED <<clusterVars, owners>> PROVE ClusterOK'
  BY DEF ClusterOK, clusterVars

LEMMA ConfigKept ==
    ASSUME ConfigOK, UNCHANGED <<clusterVars, configVars, untried>> PROVE ConfigOK'
  BY DEF ConfigOK, clusterVars, configVars

LEMMA FaultsCount == ASSUME faults \in Nat, Fault \/ UNCHANGED faults PROVE faults' \in Nat
  BY DEF Fault

LEMMA UnreachableCounts ==
    ASSUME faults \in Nat, NEW b, Unreachable(b) PROVE faults' \in Nat
  BY FaultsCount DEF Unreachable

LEMMA InitIInv == ASSUME Init PROVE IInv
  <1>1. LifeOK
    BY DEF Init, LifeInit, LifeOK, Phases, Outcomes
  <1>2. ClusterOK
    BY DEF Init, ClusterOK
  <1>3. ConfigOK
    <2>1. members # {}
      BY DEF Init
    <2> QED BY <2>1 DEF Init, ConfigOK
  <1>4. StartOK
    BY DEF Init, StartOK, Reasons, ConnectsToAnOwner, ConnectionErrorsSurvived
  <1> QED BY <1>1, <1>2, <1>3, <1>4 DEF IInv

-----------------------------------------------------------------------------
(* The loop and its fetches.  A walk begins with the owner of that moment.   *)

LEMMA LoopIInv == ASSUME IInv, Loop PROVE IInv'
  <1>1. LifeOK'
    BY LifeKept DEF IInv, Loop
  <1>2. ClusterOK'
    BY DEF IInv, ClusterOK, Loop, LookAmong, clusterVars
  <1>3. ConfigOK'
    BY DEF IInv, ConfigOK, Loop, LookAmong, clusterVars, configVars
  <1>4. StartOK'
    BY DEF IInv, StartOK, Reasons, Loop, LookAmong, Quit, lifeVars,
           ConnectsToAnOwner, ConnectionErrorsSurvived
  <1> QED BY <1>1, <1>2, <1>3, <1>4 DEF IInv

LEMMA FetchCheckIInv == ASSUME IInv, FetchCheckConfig PROVE IInv'
  <1>1. LifeOK'
    BY LifeKept DEF IInv, FetchCheckConfig
  <1>2. ClusterOK'
    BY ClusterKept DEF IInv, FetchCheckConfig
  <1>3. ConfigOK'
    <2>1. members \in (SUBSET Brokers) \ {{}} /\ UNCHANGED <<members, changes>>
      BY DEF IInv, ClusterOK, FetchCheckConfig, clusterVars
    <2>2. urls' \in {urls, members} /\ UNCHANGED <<configs, untried, refreshCheck>>
      BY DEF FetchCheckConfig
    <2> QED BY <2>1, <2>2 DEF IInv, ConfigOK
  <1>4. faults' \in Nat
    BY FaultsCount DEF IInv, StartOK, FetchCheckConfig
  <1>5. StartOK'
    BY <1>4
    DEF IInv, StartOK, Reasons, FetchCheckConfig, Quit,
        ConnectsToAnOwner, ConnectionErrorsSurvived
  <1> QED BY <1>1, <1>2, <1>3, <1>5 DEF IInv

LEMMA FetchBrokerIInv == ASSUME IInv, FetchBrokerConfig PROVE IInv'
  <1>1. LifeOK'
    BY LifeKept DEF IInv, FetchBrokerConfig
  <1>2. ClusterOK'
    BY DEF IInv, ClusterOK, FetchBrokerConfig, LookAmong, clusterVars
  <1>3. ConfigOK'
    BY DEF IInv, ConfigOK, FetchBrokerConfig, LookAmong, clusterVars
  <1>4. faults' \in Nat
    BY FaultsCount DEF IInv, StartOK, FetchBrokerConfig
  <1>5. StartOK'
    <2>1. ~(urls \subseteq members) => changes > 0
      BY DEF IInv, ConfigOK, ClusterOK
    <2> QED
      BY <1>4, <2>1
      DEF IInv, StartOK, Reasons, FetchBrokerConfig, Quit, LookAmong, clusterVars, lifeVars,
          ConnectsToAnOwner, ConnectionErrorsSurvived
  <1> QED BY <1>1, <1>2, <1>3, <1>5 DEF IInv

-----------------------------------------------------------------------------
(* The search.                                                               *)

LEMMA NewConnectionLife == ASSUME LifeOK, NewConnection, UNCHANGED ctxDone PROVE LifeOK'
  BY DEF LifeOK, NewConnection, Phases, Outcomes

LEMMA OnlyBrokerIInv == ASSUME IInv, OnlyBroker PROVE IInv'
  <1>1. LifeOK'
    BY NewConnectionLife DEF IInv, OnlyBroker, ConnectTo
  <1>2. ClusterOK' /\ ConfigOK'
    BY ClusterKept, ConfigKept DEF IInv, OnlyBroker
  <1>3. StartOK'
    BY DEF IInv, StartOK, ConfigOK, OnlyBroker, ConnectTo, configVars,
           ConnectsToAnOwner, ConnectionErrorsSurvived
  <1> QED BY <1>1, <1>2, <1>3 DEF IInv

LEMMA AskedMemberIInv == ASSUME IInv, NEW b \in Brokers, AskedMember(b) PROVE IInv'
  <1>1. UNCHANGED <<ctxDone, clusterVars, configVars, owners, faults>>
    BY DEF AskedMember
  <1>2. LifeOK'
    BY NewConnectionLife DEF IInv, AskedMember, ConnectTo, LifeOK
  <1>3. ClusterOK'
    BY <1>1, ClusterKept DEF IInv
  <1>4. ConfigOK'
    BY <1>1 DEF IInv, ConfigOK, AskedMember, clusterVars, configVars
  <1>5. CASE owner \in configs
    <2>1. ConnectTo(owner) /\ UNCHANGED reason
      BY <1>5 DEF AskedMember
    <2>2. StartOK'
      BY <1>1, <1>5, <2>1
      DEF IInv, ClusterOK, StartOK, ConnectTo, configVars, ConnectsToAnOwner,
          ConnectionErrorsSurvived
    <2> QED BY <1>2, <1>3, <1>4, <2>2 DEF IInv
  <1>6. CASE owner \notin configs
    <2>1. changes > 0
      BY <1>6 DEF IInv, ConfigOK, ClusterOK
    <2>2. Quit("owner") /\ UNCHANGED primary
      BY <1>6 DEF AskedMember
    <2>3. StartOK'
      BY <1>1, <2>1, <2>2
      DEF IInv, StartOK, Reasons, Quit, clusterVars, ConnectsToAnOwner, ConnectionErrorsSurvived
    <2> QED BY <1>2, <1>3, <1>4, <2>3 DEF IInv
  <1> QED BY <1>5, <1>6

LEMMA NotAnsweredIInv ==
    ASSUME IInv, NEW b \in Brokers, NoAnswer(b) \/ RequestFails(b) PROVE IInv'
  <1>1. LifeOK' /\ ClusterOK'
    BY LifeKept, ClusterKept DEF IInv, NoAnswer, RequestFails
  <1>2. ConfigOK'
    BY DEF IInv, ConfigOK, NoAnswer, RequestFails, clusterVars, configVars
  <1>3. faults' \in Nat
    BY UnreachableCounts DEF IInv, StartOK, NoAnswer, RequestFails
  <1>4. StartOK'
    BY <1>3
    DEF IInv, StartOK, Reasons, NoAnswer, RequestFails, Quit,
        ConnectsToAnOwner, ConnectionErrorsSurvived
  <1> QED BY <1>1, <1>2, <1>4 DEF IInv

LEMMA NoOwnerFoundIInv == ASSUME IInv, NoOwnerFound PROVE IInv'
  <1>1. LifeOK' /\ ClusterOK'
    BY LifeKept, ClusterKept DEF IInv, NoOwnerFound
  <1>2. ConfigOK'
    BY DEF IInv, ConfigOK, NoOwnerFound, clusterVars
  <1>3. StartOK'
    BY DEF IInv, StartOK, NoOwnerFound, ConnectsToAnOwner, ConnectionErrorsSurvived
  <1> QED BY <1>1, <1>2, <1>3 DEF IInv

-----------------------------------------------------------------------------
(* A connection lives its life without a say in where Start is.              *)

LEMMA LifeStepType == ASSUME LifeOK, LifeNext, ctxDone' \in BOOLEAN PROVE LifeOK'
  BY DEF LifeOK, Phases, Outcomes, LifeNext, GiveUp, TryAgain, FailToReach, Reach,
         AnswerBroker, LoseSession, FailToAnswer, StopConnection, Leave

LEMMA ServingIInv ==
    ASSUME IInv, LifeNext, Elsewhere, faults' \in Nat,
           at = "serve" \/ ctxDone' = TRUE, ctxDone => ctxDone', ctxDone' \in BOOLEAN
    PROVE  IInv'
  <1>1. LifeOK'
    BY LifeStepType DEF IInv
  <1>2. ClusterOK' /\ ConfigOK'
    BY ClusterKept, ConfigKept DEF IInv, Elsewhere
  <1>3. StartOK'
    BY DEF IInv, StartOK, Elsewhere, clusterVars, configVars,
           ConnectsToAnOwner, ConnectionErrorsSurvived
  <1> QED BY <1>1, <1>2, <1>3 DEF IInv

LEMMA ServeStepsIInv ==
    ASSUME IInv,
           RetryConnection \/ MissBroker \/ ReachBroker \/ ServeOwner \/ SilenceEnds
               \/ SessionFails \/ StopServing
    PROVE  IInv'
  <1>1. faults' \in Nat
    BY UnreachableCounts
    DEF IInv, StartOK, RetryConnection, MissBroker, ReachBroker, ServeOwner, SilenceEnds,
        SessionFails, StopServing
  <1>2. LifeNext /\ Elsewhere /\ at = "serve"
    BY DEF RetryConnection, MissBroker, ReachBroker, ServeOwner, SilenceEnds,
           SessionFails, StopServing, LifeNext
  <1>3. ctxDone' = ctxDone
    BY DEF RetryConnection, MissBroker, ReachBroker, ServeOwner, SilenceEnds, SessionFails,
           StopServing, GiveUp, TryAgain, FailToReach, Reach, AnswerBroker, LoseSession,
           FailToAnswer, StopConnection
  <1> QED BY <1>1, <1>2, <1>3, ServingIInv DEF IInv, LifeOK

LEMMA StopAgentIInv == ASSUME IInv, StopAgent PROVE IInv'
  BY ServingIInv DEF StopAgent, LifeNext, IInv, StartOK

LEMMA ConnectionReturnedIInv == ASSUME IInv, ConnectionReturned PROVE IInv'
  <1>1. LifeOK' /\ ClusterOK'
    BY LifeKept, ClusterKept DEF IInv, ConnectionReturned
  <1>2. ConfigOK'
    BY DEF IInv, ConfigOK, ConnectionReturned, clusterVars
  <1>3. StartOK'
    BY DEF IInv, StartOK, ConnectionReturned, ConnectsToAnOwner, ConnectionErrorsSurvived
  <1> QED BY <1>1, <1>2, <1>3 DEF IInv

(* The cluster changes: owners are remembered, and nothing is known any more *)
(* of the members.                                                           *)
LEMMA ClusterIInv == ASSUME IInv, Cluster PROVE IInv'
  <1>1. /\ changes' = changes + 1 /\ owners \subseteq owners'
        /\ UNCHANGED <<lifeVars, configVars, at, untried, primary, reason, faults>>
    BY DEF Cluster, OwnerMoves, MemberJoins, MemberLeaves, Change, Outside
  <1>2. LifeOK'
    BY <1>1, LifeKept DEF IInv
  <1>3. ClusterOK'
    BY DEF IInv, ClusterOK, Cluster, OwnerMoves, MemberJoins, MemberLeaves, Change
  <1>4. changes' > 0
    BY <1>1 DEF IInv, ClusterOK
  <1>5. ConfigOK'
    BY <1>1, <1>4 DEF IInv, ConfigOK, configVars
  <1>6. StartOK'
    BY <1>1, <1>4
    DEF IInv, StartOK, configVars, lifeVars, ConnectsToAnOwner, ConnectionErrorsSurvived
  <1> QED BY <1>2, <1>3, <1>5, <1>6 DEF IInv

LEMMA StutterIInv == ASSUME IInv, UNCHANGED vars PROVE IInv'
  <1>1. LifeOK' /\ ClusterOK' /\ ConfigOK'
    BY LifeKept, ClusterKept, ConfigKept DEF IInv, vars
  <1>2. StartOK'
    BY DEF IInv, StartOK, vars, lifeVars, clusterVars, configVars,
           ConnectsToAnOwner, ConnectionErrorsSurvived
  <1> QED BY <1>1, <1>2 DEF IInv

-----------------------------------------------------------------------------
LEMMA NextIInv == ASSUME IInv, [Next]_vars PROVE IInv'
  <1>1. CASE StartStep
    <2>1. CASE Loop \/ FetchCheckConfig \/ FetchBrokerConfig
      BY <2>1, LoopIInv, FetchCheckIInv, FetchBrokerIInv
    <2>2. CASE Search
      BY <2>2, OnlyBrokerIInv, NoOwnerFoundIInv, AskedMemberIInv, NotAnsweredIInv DEF Search
    <2>3. CASE Serving
      BY <2>3, ServeStepsIInv, ConnectionReturnedIInv DEF Serving
    <2> QED BY <1>1, <2>1, <2>2, <2>3 DEF StartStep
  <1>2. CASE ServeOwner \/ SessionFails
    BY <1>2, ServeStepsIInv
  <1>3. CASE Cluster \/ StopAgent
    BY <1>3, ClusterIInv, StopAgentIInv
  <1>4. CASE Finished \/ UNCHANGED vars
    BY <1>4, StutterIInv DEF Finished
  <1> QED BY <1>1, <1>2, <1>3, <1>4 DEF Next

LEMMA IInvHolds == Spec => []IInv
  BY InitIInv, NextIInv, PTL DEF Spec

(* Every variable of reverse mode stays in its range (reverse.go).           *)
THEOREM TypeCorrect == Spec => []TypeOK
  <1>1. IInv => TypeOK
    BY DEF IInv, LifeOK, ClusterOK, ConfigOK, StartOK, Phases, Outcomes, Reasons, TypeOK
  <1> QED BY <1>1, IInvHolds, PTL

(* With a clustered broker the agent connects to a broker it has a           *)
(* configuration for and that owned the check since the search began,        *)
(* however often the cluster changes (check/reverse.go:73-178).              *)
THEOREM OwnersOnly == Spec => []ConnectsToAnOwner
  <1>1. IInv => ConnectsToAnOwner
    BY DEF IInv, StartOK
  <1> QED BY <1>1, IInvHolds, PTL

(* Reverse mode ends by itself only for an error of the API, of an owner     *)
(* request, or for a cluster that changed (reverse.go:139-158).              *)
THEOREM SurvivesConnections == Spec => []ConnectionErrorsSurvived
  <1>1. IInv => ConnectionErrorsSurvived
    BY DEF IInv, StartOK
  <1> QED BY <1>1, IInvHolds, PTL
=============================================================================
