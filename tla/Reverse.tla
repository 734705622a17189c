------------------------------ MODULE Reverse ------------------------------
(* Reverse.Start (internal/reverse): it keeps one reverse connection to the  *)
(* member of the broker cluster that owns the agent's check, looks for that  *)
(* member again whenever the connection returns, and fetches the check and   *)
(* its broker from the API again when the connection asks for it or nobody   *)
(* could name the owner (internal/check/reverse.go, check.go, broker.go).    *)
(* The connection itself is its abstract life cycle, which Connection        *)
(* implements.  The cluster changes under the agent's feet: members come and *)
(* go, the check moves from one member to another.                           *)
EXTENDS ConnectionLife, FiniteSets

CONSTANTS
    Brokers,      \* CNs of the brokers there can be
    MaxChanges,   \* bound: changes of the cluster
    MaxFaults     \* bound: failures of the network, the API and the brokers

ASSUME ReverseAssumption ==
    /\ IsFiniteSet(Brokers) /\ Brokers # {}
    /\ MaxChanges \in Nat /\ MaxFaults \in Nat
    /\ ConfigRetryLimit \in Nat \ {0}
    /\ MaxConnRetry \in Nat \cup {-1}

VARIABLES
    members,      \* brokers in the cluster
    owner,        \* the member the check is assigned to
    urls,         \* brokers in the check's reverse URLs, as last fetched
    configs,      \* the CNs Start has a configuration for
    at,           \* where Start is: "top", "broker", "look", "serve", "returned"
    refreshCheck,
    untried,      \* configurations not yet asked in the current walk
    primary,      \* the broker found last
    reason,       \* why Start returned
    owners,       \* brokers that owned the check since the walk began
    changes, faults

clusterVars == <<members, owner, changes>>
configVars  == <<urls, configs, refreshCheck>>
vars == <<lifeVars, clusterVars, configVars, at, untried, primary, reason,
          owners, faults>>

-----------------------------------------------------------------------------
(* New has fetched the configurations of the cluster as it is.               *)
Init ==
    /\ LifeInit
    /\ members \in SUBSET Brokers /\ owner \in members
    /\ urls = members /\ configs = members
    /\ at = "top" /\ refreshCheck = FALSE
    /\ untried = {} /\ primary = owner /\ reason = "none"
    /\ owners = {owner}
    /\ changes = 0 /\ faults = 0

Fault == faults < MaxFaults /\ faults' = faults + 1

(* Talking to a broker goes wrong by a fault, or because it left.            *)
Unreachable(b) == (b \notin members /\ UNCHANGED faults) \/ Fault

Quit(why) == at' = "returned" /\ reason' = why

LookAmong(cs) ==
    /\ at' = "look"
    /\ untried' = cs
    /\ owners' = {owner}

(* The top of the loop: the context, then the refresh or the search.  The    *)
(* slip does not look at the context.                                        *)
LoopOn ==
    /\ at = "top" /\ ~refreshCheck
    /\ LookAmong(configs)
    /\ UNCHANGED <<lifeVars, clusterVars, configVars, primary, reason, faults>>
Loop ==
    /\ at = "top"
    /\ \/ ctxDone /\ Quit("stopped") /\ UNCHANGED <<untried, owners>>
       \/ ~ctxDone /\ ~refreshCheck /\ LookAmong(configs) /\ UNCHANGED reason
    /\ UNCHANGED <<lifeVars, clusterVars, configVars, primary, faults>>

(* RefreshReverseConfig fetches the check ...                                *)
FetchCheckConfig ==
    /\ at = "top" /\ ~ctxDone /\ refreshCheck
    /\ \/ urls' = members /\ at' = "broker" /\ UNCHANGED <<reason, faults>>
       \/ Fault /\ Quit("api") /\ UNCHANGED urls
    /\ UNCHANGED <<lifeVars, clusterVars, configs, refreshCheck, untried, primary,
                   owners>>

(* ... and then its broker, whose members may by now be others: every URL    *)
(* has to match a member.  The slip empties the configurations and trusts    *)
(* the loop to fill them.                                                    *)
EmptyConfigs ==
    /\ at = "broker"
    /\ configs' = {} /\ refreshCheck' = FALSE
    /\ LookAmong(urls)
    /\ UNCHANGED <<lifeVars, clusterVars, urls, primary, reason, faults>>
FetchBrokerConfig ==
    /\ at = "broker"
    /\ \/ /\ urls \subseteq members
          /\ configs' = urls /\ refreshCheck' = FALSE
          /\ LookAmong(urls)
          /\ UNCHANGED <<reason, faults>>
       \/ /\ \/ urls \subseteq members /\ Fault /\ Quit("api")
             \/ ~(urls \subseteq members) /\ Quit("url") /\ UNCHANGED faults
          /\ UNCHANGED <<configs, refreshCheck, untried, owners>>
    /\ UNCHANGED <<lifeVars, clusterVars, urls, primary>>

-----------------------------------------------------------------------------
(* FindPrimaryBrokerInstance.                                                *)

NewConnection == phase' = "retry" /\ attempts' = 0 /\ outcome' = "none"

ConnectTo(b) ==
    /\ primary' = b
    /\ at' = "serve"
    /\ NewConnection

(* A single configuration is not asked.                                      *)
OnlyBroker ==
    /\ at = "look" /\ Cardinality(configs) = 1
    /\ \E b \in configs : ConnectTo(b)
    /\ UNCHANGED <<ctxDone, clusterVars, configVars, untried, reason, owners, faults>>

(* A member answers 204 when it owns the check, and otherwise 302 with the   *)
(* owner in the Location.  The slip connects to whoever answered.            *)
AskedAndTaken(b) ==
    /\ at = "look" /\ Cardinality(configs) > 1 /\ b \in untried \cap members
    /\ untried' = untried \ {b}
    /\ ConnectTo(b)
    /\ UNCHANGED <<ctxDone, clusterVars, configVars, reason, owners, faults>>
AskedMember(b) ==
    /\ at = "look" /\ Cardinality(configs) > 1 /\ b \in untried \cap members
    /\ untried' = untried \ {b}
    /\ \/ owner \in configs /\ ConnectTo(owner) /\ UNCHANGED reason
       \/ /\ owner \notin configs /\ Quit("owner")
          /\ UNCHANGED <<primary, phase, attempts, outcome>>
    /\ UNCHANGED <<ctxDone, clusterVars, configVars, owners, faults>>

(* Timeouts, other answers and 302s without a usable Location: the next one. *)
NoAnswer(b) ==
    /\ at = "look" /\ Cardinality(configs) > 1 /\ b \in untried
    /\ Unreachable(b)
    /\ untried' = untried \ {b}
    /\ UNCHANGED <<lifeVars, clusterVars, configVars, at, primary, reason, owners>>

(* Any other error of the request, a cancelled context too, ends Start.      *)
RequestFails(b) ==
    /\ at = "look" /\ Cardinality(configs) > 1 /\ b \in untried
    /\ Unreachable(b) \/ (ctxDone /\ UNCHANGED faults)
    /\ Quit("query")
    /\ UNCHANGED <<lifeVars, clusterVars, configVars, untried, primary, owners>>

(* ErrNoOwnerFound: refresh, at once.                                        *)
NoOwnerFound ==
    /\ at = "look" /\ Cardinality(configs) > 1 /\ untried = {}
    /\ refreshCheck' = TRUE /\ at' = "top"
    /\ UNCHANGED <<lifeVars, clusterVars, urls, configs, untried, primary, reason,
                   owners, faults>>

-----------------------------------------------------------------------------
(* The connection to the broker found, and what Start makes of its return.   *)

Elsewhere == UNCHANGED <<clusterVars, configVars, at, untried, primary, reason, owners>>

RetryConnection ==
    /\ at = "serve"
    /\ GiveUp \/ TryAgain
    /\ UNCHANGED faults
    /\ Elsewhere

MissBroker ==
    /\ at = "serve"
    /\ FailToReach /\ Unreachable(primary)
    /\ Elsewhere

ReachBroker ==
    /\ at = "serve" /\ primary \in members
    /\ Reach
    /\ UNCHANGED faults
    /\ Elsewhere

(* Only the owner of a check polls it.                                       *)
ServeOwner ==
    /\ at = "serve" /\ primary = owner
    /\ AnswerBroker
    /\ UNCHANGED faults
    /\ Elsewhere

(* A member that does not own the check is silent, so its session ends after *)
(* MaxCommTimeouts timeouts.                                                 *)
SilenceEnds ==
    /\ at = "serve" /\ primary # owner
    /\ LoseSession
    /\ UNCHANGED faults
    /\ Elsewhere

SessionFails ==
    /\ at = "serve"
    /\ LoseSession \/ FailToAnswer
    /\ Unreachable(primary)
    /\ Elsewhere

StopServing ==
    /\ at = "serve" /\ StopConnection
    /\ UNCHANGED faults
    /\ Elsewhere

(* The slips: an error of the connection ends Start; nothing is refreshed.   *)
ErrorsAreFatal ==
    /\ at = "serve" /\ phase = "returned"
    /\ Quit(outcome)
    /\ UNCHANGED <<lifeVars, clusterVars, configVars, untried, primary, owners, faults>>
ReturnWithoutRefresh ==
    /\ at = "serve" /\ phase = "returned"
    /\ at' = "top"
    /\ UNCHANGED <<lifeVars, clusterVars, configVars, untried, primary, reason,
                   owners, faults>>
ConnectionReturned ==
    /\ at = "serve" /\ phase = "returned"
    /\ at' = "top"
    /\ refreshCheck' = (outcome = "refresh")
    /\ UNCHANGED <<lifeVars, clusterVars, urls, configs, untried, primary, reason,
                   owners, faults>>

-----------------------------------------------------------------------------
(* The cluster, and the agent's caller.                                      *)

Outside == UNCHANGED <<lifeVars, configVars, at, untried, primary, reason, faults>>
Change == changes < MaxChanges /\ changes' = changes + 1

OwnerMoves ==
    /\ Change
    /\ owner' \in members \ {owner}
    /\ owners' = owners \cup {owner'}
    /\ UNCHANGED members
    /\ Outside

MemberJoins ==
    /\ Change
    /\ \E b \in Brokers \ members : members' = members \cup {b}
    /\ UNCHANGED <<owner, owners>>
    /\ Outside

MemberLeaves ==
    /\ Change
    /\ \E b \in members \ {owner} : members' = members \ {b}
    /\ UNCHANGED <<owner, owners>>
    /\ Outside

StopAgent ==
    /\ ~ctxDone
    /\ ctxDone' = TRUE
    /\ UNCHANGED <<phase, attempts, outcome, clusterVars, faults>>
    /\ Elsewhere

-----------------------------------------------------------------------------
Search ==
    \/ OnlyBroker \/ NoOwnerFound
    \/ \E b \in Brokers : AskedMember(b) \/ NoAnswer(b) \/ RequestFails(b)

Serving ==
    \/ RetryConnection \/ MissBroker \/ ReachBroker
    \/ SilenceEnds \/ StopServing \/ ConnectionReturned

StartStep == Loop \/ FetchCheckConfig \/ FetchBrokerConfig \/ Search \/ Serving

Cluster == OwnerMoves \/ MemberJoins \/ MemberLeaves

Finished == at = "returned" /\ UNCHANGED vars

Next == StartStep \/ ServeOwner \/ SessionFails \/ Cluster \/ StopAgent \/ Finished

Spec == Init /\ [][Next]_vars

(* Start runs: its requests, dials and sleeps end, and a session that is not *)
(* polled ends (SilenceEndsSession of Connection).  The owner, the rest of   *)
(* the cluster and the caller owe nothing.                                   *)
FairSpec == Spec /\ WF_vars(StartStep)
-----------------------------------------------------------------------------
(* What reverse mode guarantees.                                             *)

(* Every variable stays in its range.                                        *)
TypeOK ==
    /\ ctxDone \in BOOLEAN /\ refreshCheck \in BOOLEAN
    /\ phase \in {"retry", "dial", "live", "returned"}
    /\ outcome \in {"none", "nil", "refresh"}
    /\ attempts \in Nat /\ changes \in Nat /\ faults \in Nat
    /\ members \in SUBSET Brokers /\ owner \in members
    /\ urls \in SUBSET Brokers
    /\ configs \in (SUBSET Brokers) \ {{}}
    /\ at \in {"top", "broker", "look", "serve", "returned"}
    /\ untried \in SUBSET configs
    /\ primary \in Brokers
    /\ reason \in {"none", "stopped", "api", "url", "query", "owner"}
    /\ owners \in SUBSET Brokers

(* With a clustered broker the agent connects to a member it has a           *)
(* configuration for and that owned the check at some moment since the       *)
(* search began, however members and ownership change meanwhile              *)
(* (check/reverse.go:73-178).                                                *)
ConnectsToAnOwner ==
    at = "serve" /\ Cardinality(configs) > 1 => primary \in configs \cap owners

(* Reverse mode, and with it the agent, ends by itself only for an error of  *)
(* the API, of an owner request, or for a cluster that changed: never        *)
(* because of what happens to a connection (reverse.go:139-158).             *)
ConnectionErrorsSurvived ==
    at = "returned" /\ ~ctxDone => reason \in {"api", "query"} \/ changes > 0

(* Once the cluster and the network are quiet, the agent ends up connected   *)
(* to the owner of its check and stays so, or has ended: a member that lost  *)
(* the check, or left, does not keep it.                                     *)
FollowsOwner ==
    \/ <>[](at = "serve" /\ phase = "live" /\ primary = owner)
    \/ <>(at = "returned")

(* A cancelled agent leaves reverse mode (reverse.go:83-87).                 *)
CancelEndsStart == ctxDone ~> at = "returned"

(* reverse.go:122, "primary broker cn not found, refreshing check": an owner *)
(* Start has no configuration for makes it refresh, not end.                 *)
UnknownOwnerRefreshes == reason # "owner"
=============================================================================
