----------------------------- MODULE Collection -----------------------------
(* A request for metrics (server/handlers.go, GetMetrics): the conduits run  *)
(* concurrently, each running its sources and then flushing them, and the    *)
(* request is answered when all are done.  The conduits with a run are the   *)
(* plugins (plugins/plugins.go, PluginExec) and the builtins                 *)
(* (builtins/builtins.go) with their procfs collectors.  Requests come from  *)
(* HTTP clients, the reverse connection and the submitter, at any time.      *)
EXTENDS PluginExec

CONSTANTS
    Collectors,   \* b.collectors
    All           \* the request for everything

ASSUME CollectionAssumption ==
    /\ Collectors \cap Plugins = {} /\ All \notin Collectors \cup Plugins
    /\ scan \notin {All} \cup Collectors \cup Plugins

Requests == Callers \ {scan}
Sources  == Plugins \cup Collectors
Collects == Requests \X Collectors
Conduits == {"plugins", "builtins"}

VARIABLES
    asked,      \* what each request is for: All, a plugin or a collector,
                \* or scan while it is not made
    stage,      \* each conduit of a request: "none", "run", "wait", "flush" (or skipped)
    left,       \* the sources a request has still to flush
    got,        \* the metrics a request got of each source
    answered,   \* the requests GetMetrics returned for
    inProgress, \* Builtins.running
    collecting, \* each collector's running
    lastMetrics,\* each collector's, as the numbers of the samples
    sampled,    \* samples each collector took
    collect,    \* where Collect is: "none", "enter", "read", "done"
    sample      \* ghost: the sample a request's Collect took, 0 for none

requestVars == <<asked, stage, left, got, answered>>
builtinVars == <<inProgress, collecting, lastMetrics, sampled, collect, sample>>
vars == <<ctxDone, pluginVars, execVars, requestVars, builtinVars>>

Init ==
    /\ PluginInit
    /\ asked = [r \in Requests |-> scan]
    /\ stage = [q \in Requests \X Conduits |-> "none"]
    /\ left = [r \in Requests |-> {}] /\ got = [r \in Requests |-> [s \in Sources |-> {}]]
    /\ answered = {}
    /\ inProgress = FALSE
    /\ collecting = [k \in Collectors |-> FALSE]
    /\ lastMetrics = [k \in Collectors |-> {}] /\ sampled = [k \in Collectors |-> 0]
    /\ collect = [q \in Collects |-> "none"] /\ sample = [q \in Collects |-> 0]

Move(r, conduit, place) == stage' = [stage EXCEPT ![<<r, conduit>>] = place]

(* What a conduit runs for a request; Flush of the plugins takes the same,   *)
(* Flush of the builtins takes every collector whatever was asked for.       *)
Wanted(r, sources) == IF asked[r] = All THEN sources ELSE sources \cap {asked[r]}

-----------------------------------------------------------------------------
(* GetMetrics.                                                               *)

(* The conduits start.  Plugins.Run starts an exec of each plugin and waits  *)
(* for all of them.                                                          *)
Ask(r) ==
    /\ asked[r] = scan
    /\ \E what \in {All} \cup Sources : asked' = [asked EXCEPT ![r] = what]
    /\ stage' = [stage EXCEPT
         ![<<r, "plugins">>] = IF asked'[r] \in Collectors THEN "flush" ELSE "wait",
         ![<<r, "builtins">>] = IF asked'[r] \in Plugins THEN "flush" ELSE "run"]
    /\ at' = [e \in Execs |-> IF e[1] = r /\ asked'[r] \in {All, e[2]} THEN "enter" ELSE at[e]]
    /\ UNCHANGED <<ctxDone, pluginVars, lines, child, first, emitted, left, got, answered, builtinVars>>

PluginsDone(r) ==
    /\ stage[<<r, "plugins">>] = "wait"
    /\ \A p \in Wanted(r, Plugins) : at[<<r, p>>] = "done"
    /\ Move(r, "plugins", "flush")
    /\ left' = [left EXCEPT ![r] = @ \cup Wanted(r, Plugins)]
    /\ UNCHANGED <<ctxDone, pluginVars, execVars, asked, got, answered, builtinVars>>

(* Plugins.Flush drains one plugin after the other.                          *)
FlushPlugin(r, p) ==
    /\ stage[<<r, "plugins">>] = "flush" /\ p \in left[r]
    /\ got' = [got EXCEPT ![r][p] = Drained(p)]
    /\ left' = [left EXCEPT ![r] = @ \ {p}]
    /\ Drain(p)
    /\ UNCHANGED <<ctxDone, execVars, asked, stage, answered, builtinVars>>

(* Builtins.Run: a second caller does not wait, it goes on to Flush.         *)
SkipBuiltins(r) ==
    /\ stage[<<r, "builtins">>] = "run" /\ inProgress
    /\ Move(r, "builtins", "flush")
    /\ left' = [left EXCEPT ![r] = @ \cup Collectors]
    /\ UNCHANGED <<ctxDone, pluginVars, execVars, asked, got, answered, builtinVars>>

RunBuiltins(r) ==
    /\ stage[<<r, "builtins">>] = "run" /\ ~inProgress
    /\ inProgress' = TRUE
    /\ Move(r, "builtins", "wait")
    /\ collect' = [q \in Collects |->
         IF q[1] = r /\ q[2] \in Wanted(r, Collectors) THEN "enter" ELSE collect[q]]
    /\ UNCHANGED <<ctxDone, pluginVars, execVars, asked, left, got, answered, collecting,
                   lastMetrics, sampled, sample>>

(* A slip: running stays set.                                                *)
BuiltinsStayRunning(r) ==
    /\ stage[<<r, "builtins">>] = "wait"
    /\ \A k \in Wanted(r, Collectors) : collect[<<r, k>>] = "done"
    /\ Move(r, "builtins", "flush")
    /\ left' = [left EXCEPT ![r] = @ \cup Collectors]
    /\ UNCHANGED <<ctxDone, pluginVars, execVars, asked, got, answered, inProgress, collecting,
                   lastMetrics, sampled, collect, sample>>

BuiltinsDone(r) ==
    /\ stage[<<r, "builtins">>] = "wait"
    /\ \A k \in Wanted(r, Collectors) : collect[<<r, k>>] = "done"
    /\ inProgress' = FALSE
    /\ Move(r, "builtins", "flush")
    /\ left' = [left EXCEPT ![r] = @ \cup Collectors]
    /\ UNCHANGED <<ctxDone, pluginVars, execVars, asked, got, answered, collecting,
                   lastMetrics, sampled, collect, sample>>

FlushCollector(r, k) ==
    /\ stage[<<r, "builtins">>] = "flush" /\ k \in left[r]
    /\ got' = [got EXCEPT ![r][k] = lastMetrics[k]]
    /\ left' = [left EXCEPT ![r] = @ \ {k}]
    /\ UNCHANGED <<ctxDone, pluginVars, execVars, asked, stage, answered, builtinVars>>

(* The last conduit's goroutine ends, and with it the wait for them.         *)
Answer(r) ==
    /\ r \notin answered
    /\ \A conduit \in Conduits : stage[<<r, conduit>>] = "flush"
    /\ left[r] = {}
    /\ answered' = answered \cup {r}
    /\ UNCHANGED <<ctxDone, pluginVars, execVars, asked, stage, left, got, builtinVars>>

-----------------------------------------------------------------------------
(* Collect of a procfs collector.                                            *)

CollectOnly == UNCHANGED <<ctxDone, pluginVars, execVars, requestVars, inProgress>>
Place(r, k, place) == collect' = [collect EXCEPT ![<<r, k>>] = place]

(* ErrAlreadyRunning.                                                        *)
CollectRefused(r, k) ==
    /\ collect[<<r, k>>] = "enter" /\ collecting[k]
    /\ Place(r, k, "done")
    /\ UNCHANGED <<collecting, lastMetrics, sampled, sample>> /\ CollectOnly

CollectEnter(r, k) ==
    /\ collect[<<r, k>>] = "enter" /\ ~collecting[k]
    /\ collecting' = [collecting EXCEPT ![k] = TRUE]
    /\ Place(r, k, "read")
    /\ UNCHANGED <<lastMetrics, sampled, sample>> /\ CollectOnly

(* setStatus: on an error the metrics are emptied.                           *)
SetStatus(r, k, result) ==
    /\ collect[<<r, k>>] = "read"
    /\ lastMetrics' = [lastMetrics EXCEPT ![k] = result]
    /\ sampled' = [sampled EXCEPT ![k] = @ + 1]
    /\ sample' = [sample EXCEPT ![<<r, k>>] = sampled[k] + 1]
    /\ collecting' = [collecting EXCEPT ![k] = FALSE]
    /\ Place(r, k, "done") /\ CollectOnly

Collected(r, k) == SetStatus(r, k, {sampled[k] + 1})
CollectFails(r, k) == SetStatus(r, k, {})

(* A context that is done ends Collect before setStatus.                     *)
CollectAbandoned(r, k) ==
    /\ collect[<<r, k>>] = "read" /\ ctxDone
    /\ Place(r, k, "done")
    /\ UNCHANGED <<collecting, lastMetrics, sampled, sample>> /\ CollectOnly

CollectStep(r, k) ==
    \/ CollectRefused(r, k) \/ CollectEnter(r, k) \/ Collected(r, k)
    \/ CollectFails(r, k) \/ CollectAbandoned(r, k)

-----------------------------------------------------------------------------
Cancel ==
    /\ ~ctxDone /\ ctxDone' = TRUE
    /\ UNCHANGED <<pluginVars, execVars, requestVars, builtinVars>>

RequestStep(r) ==
    \/ PluginsDone(r) \/ SkipBuiltins(r) \/ RunBuiltins(r) \/ BuiltinsDone(r)
    \/ \E p \in Plugins : FlushPlugin(r, p)
    \/ \E k \in Collectors : FlushCollector(r, k)
    \/ Answer(r)

PluginStep(c, p) == ExecStep(c, p) /\ UNCHANGED <<requestVars, builtinVars>>
Killed(c, p) == Kill(c, p) /\ UNCHANGED <<requestVars, builtinVars>>

Next ==
    \/ \E r \in Requests : Ask(r) \/ RequestStep(r)
    \/ \E c \in Callers, p \in Plugins : PluginStep(c, p) \/ Killed(c, p)
    \/ \E c \in Callers, p \in Plugins : ProcessStep(c, p) /\ UNCHANGED <<requestVars, builtinVars>>
    \/ \E p \in Plugins : TTLExpires(p) /\ UNCHANGED <<requestVars, builtinVars>>
    \/ \E r \in Requests, k \in Collectors : CollectStep(r, k)
    \/ Cancel

Spec == Init /\ [][Next]_vars

(* Goroutines are scheduled, and the system kills the processes it is asked  *)
(* to kill.  Nothing is assumed of what plugins print or when they exit.     *)
FairSpec ==
    /\ Spec
    /\ \A r \in Requests : WF_vars(RequestStep(r))
    /\ \A c \in Callers, p \in Plugins : WF_vars(PluginStep(c, p)) /\ WF_vars(Killed(c, p))
    /\ \A r \in Requests, k \in Collectors : WF_vars(CollectStep(r, k))

-----------------------------------------------------------------------------
(* What a collection guarantees.                                             *)

(* Every variable stays in its range, and Builtins.running is set exactly    *)
(* while one request waits for the collectors (builtins.go:71-86, 139-141).  *)
TypeOK ==
    /\ PluginTypeOK
    /\ inProgress <=> \E r \in Requests : stage[<<r, "builtins">>] = "wait"
    /\ asked \in [Requests -> {All, scan} \cup Sources]
    /\ stage \in [Requests \X Conduits -> {"none", "run", "wait", "flush"}]
    /\ left \in [Requests -> SUBSET Sources]
    /\ got \in [Requests -> [Sources -> SUBSET Nat]]
    /\ answered \in SUBSET Requests /\ inProgress \in BOOLEAN
    /\ collecting \in [Collectors -> BOOLEAN]
    /\ lastMetrics \in [Collectors -> SUBSET Nat] /\ sampled \in [Collectors -> Nat]
    /\ collect \in [Collects -> {"none", "enter", "read", "done"}]
    /\ sample \in [Collects -> Nat]

(* Whatever other requests run and flush meanwhile, a request that itself    *)
(* ran a plugin or a collector gets nothing of it that is older than that    *)
(* run: not the batch before it, and not the stale metrics of a run that     *)
(* failed (handlers.go:130-163, plugin.go:361-365, procfs collector.go:160,  *)
(* "do not keep returning a stale set of metrics").                          *)
OwnRunNotStale ==
    \A r \in answered :
        /\ \A p \in Plugins : at[<<r, p>>] = "done" => \A n \in got[r][p] : n >= first[<<r, p>>]
        /\ \A k \in Collectors : \A n \in got[r][k] : n >= sample[<<r, k>>]

(* No request waits for ever, unless for a process it started itself: one    *)
(* that finds a plugin or the builtins running goes on without them          *)
(* (plugin.go:273-278, builtins.go:79-83, plugins.go:236).                   *)
WaitsOnlyForItsOwn ==
    \A r \in Requests :
        []<>(asked[r] = scan \/ r \in answered \/ \E p \in Plugins : child[<<r, p>>] = "alive")

(* Cancelling the agent ends every plugin process, and frees the requests    *)
(* that waited for one (plugin.go:292, handlers.go:215).                     *)
CancelEndsRuns ==
    /\ ctxDone ~> [](\A e \in Execs : child[e] # "alive")
    /\ \A r \in Requests : (ctxDone /\ asked[r] # scan) ~> r \in answered
=============================================================================
