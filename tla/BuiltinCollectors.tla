------------------------- MODULE BuiltinCollectors --------------------------
(* The builtin collectors of an agent: which of the enabled ones serve an id *)
(* (builtins/configure_*.go and the New of each package), and the life of    *)
(* one of them under requests that collect and flush it, conditions that     *)
(* come and go, a run TTL and the end of the agent's context.                *)
EXTENDS ProcfsCollectors, GenericCollectors, WmiCollectors

CONSTANTS
    Requests,    \* callers of Builtins.Run and Flush
    Enabled      \* for each platform, the lists of collectors that may be enabled

Elements(list) == {list[i] : i \in DOMAIN list}

Nobody == <<"none", "none">>
Gpu    == <<"nvidia", "gpu">>
Prom   == <<"prometheus", "prom">>

(* The names a platform has a collector for, a deprecated one standing for   *)
(* its collector; any other is logged and left out.                          *)
Known(os) ==
    {<<"generic", n>> : n \in GenericNames} \cup {Prom} \cup
        CASE os = "linux"   -> {<<"procfs", n>> : n \in ProcfsNames}
          [] os = "windows" -> {<<"wmi", n>> : n \in WmiNames} \cup {Gpu}
          [] OTHER          -> {}

ASSUME BuiltinsAssumption ==
    /\ DOMAIN Enabled \subseteq {"linux", "windows", "other"}
    /\ \A os \in DOMAIN Enabled : Enabled[os] \subseteq Seq(Known(os))

-----------------------------------------------------------------------------
(* The packages.                                                             *)

(* The text of a url, which is metrics as a whole or not at all.  A gauge or *)
(* a counter may be no number; quantiles that are none are left out.         *)
PromParse(url, holding) ==
    LET failed == {url \o " fails", url \o " times out", url \o " unparsable"} IN
    IF failed \cap holding # {} THEN << Step(failed, "skip", {url}) >>
    ELSE << Step(failed, "skip", {url}), NaN({"gauge of " \o url \o " not a number"}, {"gauge of " \o url}) >>

(* Every url is asked in turn, and what one fails to give is only missing.   *)
PromCollect(holding) == PromParse("a", holding) \o PromParse("b", holding)

(* No configuration is no collector, as is one without urls.                 *)
NewProm == {"no config file", "bad config file", "no urls", "bad run_ttl"}

(* The constructor runs the tool once, for the tags of the card.             *)
NewGpu == {"bad config file", "bad interval", "metadata fails"}

(* A line of the tool, with a value for every metric of the list.            *)
GpuParse ==
    << Ends({"csv unparsable", "count of values wrong"}, "stop"),
       Unless({"not available"}, {"utilization"}),
       Gives({"pstate"}) >>

Collect(c, holding) ==
    CASE c[1] = "procfs"     -> ProcfsCollect(c[2], holding)
      [] c[1] = "generic"    -> GenericCollect(c[2])
      [] c[1] = "wmi"        -> WmiCollect(c[2], holding)
      [] c[1] = "prometheus" -> PromCollect(holding)
      [] OTHER               -> GpuParse

Refusals(c) ==
    CASE c[1] = "procfs"     -> NewProcfs(c[2])
      [] c[1] = "generic"    -> NewGeneric(c[2])
      [] c[1] = "wmi"        -> NewWmi(c[2])
      [] c[1] = "prometheus" -> NewProm
      [] OTHER               -> NewGpu

(* Options that change what Collect does, the expressions that leave items   *)
(* out among them.                                                           *)
Excluding(c) ==
    CASE c = <<"procfs", "disk">>   -> {"sda excluded", "md0 excluded"}
      [] c = <<"procfs", "if">>     -> {"interface excluded"}
      [] c = <<"procfs", "proto">>  ->
             {"ip excluded", "ip6 excluded", "icmp excluded", "icmp6 excluded", "icmpmsg excluded",
              "tcp excluded", "udp excluded", "udp6 excluded", "udplite excluded", "udplite6 excluded"}
      [] c = <<"generic", "if">>    -> {"interface excluded"}
      [] c = <<"generic", "fs">>    -> {"fs excluded", "fs type excluded"}
      [] c[1] = "wmi" /\ c[2] \in {"disk", "interface", "paging_file", "processes"} ->
             {"total excluded", "item excluded"}
      [] c = <<"wmi", "processor">> -> {"all cpus off"}
      [] OTHER                      -> {}
Settings(c) ==
    Excluding(c) \cup (IF c = Gpu THEN {} ELSE {"run ttl"})
        \cup CASE c = <<"procfs", "cpu">>  -> {"renamed"}
               [] c = <<"procfs", "disk">> -> {"id is diskstats"}
               [] c = <<"wmi", "disk">>    -> {"logical off", "physical off"}
               [] c[1] = "wmi" /\ c[2] \in {"ip", "tcp", "udp"} -> {"ipv4 off", "ipv6 off"}
               [] OTHER                    -> {}

(* What may disturb a run of it.                                             *)
Conditions(c, set) == ConditionsOf(Collect(c, set)) \ (Settings(c) \cup {"context done"})

(* The ids the collectors answer to, unless configured.                      *)
Id(c, options) ==
    CASE "renamed" \in options         -> "renamed"
      [] "id is diskstats" \in options -> "diskstats"
      [] c = <<"wmi", "interface">>    -> "network_interface"
      [] c = <<"wmi", "ip">>           -> "net_ip"
      [] c = <<"wmi", "tcp">>          -> "net_tcp"
      [] c = <<"wmi", "udp">>          -> "net_udp"
      [] OTHER                         -> c[2]

-----------------------------------------------------------------------------
(* The configuration: enabled is the sequence of names of --collectors, and  *)
(* options the options that are set, of each collector.                      *)

OptionsOf(c, options) == {o[2] : o \in {x \in options : x[1] = c}}

(* procfs.New, generic.New, wmi.New: a constructor that returns an error is  *)
(* logged, and the next collector is tried.  What comes up of a package      *)
(* keeps its place in the list.                                              *)
ComingUp(package, enabled, options) ==
    {i \in DOMAIN enabled :
        enabled[i][1] = package /\ OptionsOf(enabled[i], options) \cap Refusals(enabled[i]) = {}}
ProcfsNew(enabled, options)  == [i \in ComingUp("procfs", enabled, options) |-> enabled[i]]
GenericNew(enabled, options) == [i \in ComingUp("generic", enabled, options) |-> enabled[i]]
WmiNew(enabled, options)     == [i \in ComingUp("wmi", enabled, options) |-> enabled[i]]
GpuNew(enabled, options)     == [i \in ComingUp("nvidia", enabled, options) |-> enabled[i]]

Ids(built, options) == {Id(built[i], OptionsOf(built[i], options)) : i \in DOMAIN built}

(* The last of a package with an id has it, ...                              *)
Placed(built, options) ==
    {built[i] : i \in {j \in DOMAIN built : \A k \in DOMAIN built :
        k > j => Id(built[k], OptionsOf(built[k], options)) # Id(built[j], OptionsOf(built[j], options))}}

(* A generic collector that takes its id whoever has it.                     *)
FillingAlways(built, taken, set) == Elements(built)

(* ... except that a generic collector only takes an id that is free.        *)
Filling(built, taken, options) ==
    {built[i] : i \in {j \in DOMAIN built :
        LET id(k) == Id(built[k], OptionsOf(built[k], options)) IN
        id(j) \notin taken /\ \A k \in DOMAIN built : k < j => id(k) # id(j)}}

ConfigureLinux(enabled, options) ==
    LET procfs == ProcfsNew(enabled, options) IN
    Placed(procfs, options)
        \cup Filling(GenericNew(enabled, options), Ids(procfs, options), options)

ConfigureWindows(enabled, options) ==
    LET wmi == WmiNew(enabled, options)
        gpu == GpuNew(enabled, options)
    IN  Placed(wmi, options) \cup Placed(gpu, options)
            \cup Filling(GenericNew(enabled, options), Ids(wmi, options) \cup Ids(gpu, options), options)

Configure(enabled, options) == Placed(GenericNew(enabled, options), options)

(* builtins.New: the prometheus collector comes on top, on every platform.   *)
New(platform, enabled, options) ==
    (CASE platform = "linux"   -> ConfigureLinux(enabled, options)
       [] platform = "windows" -> ConfigureWindows(enabled, options)
       [] OTHER                -> Configure(enabled, options))
    \cup {c \in {Prom} : c \in Elements(enabled)
                           /\ OptionsOf(c, options) \cap NewProm = {}}

-----------------------------------------------------------------------------
VARIABLES
    platform, enabled, options,
    watched,   \* the collector the requests are followed for, or Nobody
    calm,      \* nothing disturbs the runs
    ctxDone,
    running,   \* c.running
    last,      \* c.lastMetrics
    due,       \* the run TTL, if there is one, is over since c.lastEnd
    stale,     \* ghost: the last run left lastMetrics as it was
    spoilt,    \* whether a metric of last is not a number
    busy,      \* Builtins.running
    at         \* each request: "idle", "enter", "collect", "read", "wait", "flush"

config == <<platform, enabled, options, watched>>
state  == <<running, last, due, stale, spoilt>>
vars   == <<config, calm, ctxDone, state, busy, at>>

Mine == OptionsOf(watched, options)

(* At most one option is set (the other bound of the model).  The cpu        *)
(* collector is run once by procfs.New, the tool of the gpu is started by    *)
(* configure; the others have not run.                                       *)
Init ==
    /\ platform \in DOMAIN Enabled
    /\ enabled \in Enabled[platform]
    /\ LET settable == UNION {{c} \X (Refusals(c) \cup Settings(c)) : c \in Elements(enabled)} IN
       options \in {{}} \cup {{o} : o \in settable}
    /\ LET built == New(platform, enabled, options) IN
       watched \in IF built = {} THEN {Nobody} ELSE built
    /\ calm = TRUE /\ ctxDone = FALSE
    /\ running = (watched = Gpu)
    /\ last = IF watched = <<"procfs", "cpu">> THEN Outcome(Collect(watched, Mine), Mine).metrics ELSE {}
    /\ due = ~(watched = <<"procfs", "cpu">> /\ "run ttl" \in Mine)
    /\ stale = FALSE /\ spoilt = FALSE
    /\ busy = FALSE /\ at = [r \in Requests |-> "idle"]

Goes(r, place) == at' = [at EXCEPT ![r] = place]

Ask(r) ==
    /\ at[r] = "idle" /\ Goes(r, "enter")
    /\ UNCHANGED <<config, calm, ctxDone, state, busy>>

(* Builtins.Run: there is nothing to run, or another request is running the  *)
(* collectors; the request goes on to flush.                                 *)
Pass(r) ==
    /\ at[r] = "enter" /\ (watched = Nobody \/ busy)
    /\ Goes(r, "flush")
    /\ UNCHANGED <<config, calm, ctxDone, state, busy>>

Run(r) ==
    /\ at[r] = "enter" /\ watched # Nobody /\ ~busy
    /\ busy' = TRUE
    /\ Goes(r, "collect")
    /\ UNCHANGED <<config, calm, ctxDone, state>>

(* The other collectors have ended too.                                      *)
RunDone(r) ==
    /\ at[r] = "wait"
    /\ busy' = FALSE
    /\ Goes(r, "flush")
    /\ UNCHANGED <<config, calm, ctxDone, state>>

(* Collect: ErrTTLNotExpired, ErrAlreadyRunning.                             *)
Refused(r) ==
    /\ at[r] = "collect" /\ watched # Gpu /\ (~due \/ running)
    /\ Goes(r, "wait")
    /\ UNCHANGED <<config, calm, ctxDone, state, busy>>

(* The TTL is not tested.                                                    *)
EnterAnyTime(r) ==
    /\ at[r] = "collect" /\ watched # Gpu /\ ~running
    /\ running' = TRUE
    /\ Goes(r, "read")
    /\ UNCHANGED <<config, calm, ctxDone, last, due, stale, spoilt, busy>>

Enter(r) ==
    /\ at[r] = "collect" /\ watched # Gpu /\ due /\ ~running
    /\ running' = TRUE
    /\ Goes(r, "read")
    /\ UNCHANGED <<config, calm, ctxDone, last, due, stale, spoilt, busy>>

(* What a run may meet: a context that is done, or one of the other          *)
(* conditions (a bound of the model: one to a run).                          *)
Disturbances ==
    LET done   == IF ctxDone THEN {"context done"} ELSE {}
        met    == IF calm THEN {} ELSE Conditions(watched, Mine)
    IN  {{}, done} \cup {{x} : x \in met}

(* Of a run that failed only the error is noted.                             *)
SetStatusKeepsRunning(outcome) ==
    /\ last' = IF outcome.end = "fail" THEN {} ELSE outcome.metrics
    /\ spoilt' = (outcome.end # "fail" /\ outcome.spoilt)
    /\ due' = ("run ttl" \notin Mine)
    /\ running' = (outcome.end = "fail") /\ stale' = FALSE

(* setStatus.                                                                *)
SetStatus(outcome) ==
    /\ last' = IF outcome.end = "fail" THEN {} ELSE outcome.metrics
    /\ spoilt' = (outcome.end # "fail" /\ outcome.spoilt)
    /\ due' = ("run ttl" \notin Mine)
    /\ running' = FALSE /\ stale' = FALSE

End(r) ==
    /\ at[r] = "read"
    /\ \E faults \in Disturbances :
         LET now     == faults \cup Mine
             outcome == Outcome(Collect(watched, now), now) IN
         IF outcome.end = "left"
         THEN stale' = (last # {}) /\ UNCHANGED <<running, last, due, spoilt>>
         ELSE SetStatus(outcome)
    /\ Goes(r, "wait")
    /\ UNCHANGED <<config, calm, ctxDone, busy>>

(* The metrics of all collectors are gathered in the map of one.             *)
FlushGathers(r) ==
    /\ at[r] = "flush"
    /\ Goes(r, "idle")
    /\ last' = last \cup {"metrics of another"}
    /\ UNCHANGED <<config, calm, ctxDone, running, due, stale, spoilt, busy>>

(* Flush hands out lastMetrics and keeps them; the gpu's are drained.        *)
Flush(r) ==
    /\ at[r] = "flush"
    /\ Goes(r, "idle")
    /\ last' = IF watched = Gpu THEN {} ELSE last
    /\ UNCHANGED <<config, calm, ctxDone, running, due, stale, spoilt, busy>>

(* The answer that encodeResponse makes of the metrics: none of them, when   *)
(* one cannot be written as JSON.                                            *)
Answer == IF spoilt THEN {} ELSE last

(* Collect of the gpu: the tool runs in the background and is started again  *)
(* when it has ended.                                                        *)
GpuCollect(r) ==
    /\ at[r] = "collect" /\ watched = Gpu
    /\ running' = TRUE
    /\ Goes(r, "wait")
    /\ UNCHANGED <<config, calm, ctxDone, last, due, stale, spoilt, busy>>

(* parseOutput: the values are recorded as they come.                        *)
GpuLine ==
    /\ watched = Gpu /\ running
    /\ \E faults \in Disturbances : last' = last \cup Outcome(GpuParse, faults).metrics
    /\ UNCHANGED <<config, calm, ctxDone, running, due, stale, spoilt, busy, at>>

(* The tool ends, is killed at the end of the context, or cannot be started. *)
GpuExit ==
    /\ watched = Gpu /\ running
    /\ running' = FALSE
    /\ UNCHANGED <<config, calm, ctxDone, last, due, stale, spoilt, busy, at>>

TTLExpires ==
    /\ ~due /\ due' = TRUE
    /\ UNCHANGED <<config, calm, ctxDone, running, last, stale, spoilt, busy, at>>

WorldChanges ==
    /\ calm' = ~calm
    /\ UNCHANGED <<config, ctxDone, state, busy, at>>

Cancel ==
    /\ ~ctxDone /\ ctxDone' = TRUE
    /\ UNCHANGED <<config, calm, state, busy, at>>

Progress(r) ==
    \/ Pass(r) \/ Run(r) \/ Refused(r) \/ Enter(r) \/ End(r) \/ GpuCollect(r) \/ RunDone(r)
    \/ Flush(r)

Next ==
    \/ \E r \in Requests : Ask(r) \/ Progress(r)
    \/ GpuLine \/ GpuExit \/ TTLExpires \/ WorldChanges \/ Cancel

Spec == Init /\ [][Next]_vars

(* Requests run, a read of a file or a query ends, and time passes.          *)
FairSpec ==
    /\ Spec /\ WF_vars(TTLExpires)
    /\ \A r \in Requests : WF_vars(Progress(r))

-----------------------------------------------------------------------------
(* Properties.                                                               *)

NamesOf(c) == UNION {Collect(c, Mine)[i].gives : i \in DOMAIN Collect(c, Mine)}

(* What is kept are metrics of the collector, and every request is in one of *)
(* the places of Builtins.Run.                                               *)
TypeOK ==
    /\ platform \in DOMAIN Enabled /\ enabled \in Enabled[platform]
    /\ watched = Nobody \/ watched \in New(platform, enabled, options)
    /\ last \subseteq NamesOf(watched)
    /\ {calm, running, due, ctxDone, stale, spoilt, busy} \subseteq BOOLEAN
    /\ at \in [Requests -> {"idle", "enter", "collect", "read", "wait", "flush"}]

(* configure_linux.go, configure_windows.go: a collector that is enabled and *)
(* comes up has its id served, by itself or by one of the platform's own,    *)
(* which take precedence; what is refused leaves its id to a generic one;    *)
(* and one collector serves an id.                                           *)
Precedence ==
    LET built == New(platform, enabled, options)
        id(c) == Id(c, OptionsOf(c, options))
    IN  /\ \A c, d \in built : id(c) = id(d) => c = d
        /\ \A c \in Elements(enabled) :
             OptionsOf(c, options) \cap Refusals(c) = {} =>
                \E d \in built : id(d) = id(c) /\ (d[1] = "generic" => c[1] = "generic")

(* Metrics of an earlier run are not kept over one that failed, whatever way *)
(* Collect was left: "do not keep returning a stale set of metrics".  The    *)
(* protocol counters of gopsutil are the exception, and a context that is    *)
(* done, after which nobody asks.                                            *)
NeverStale == stale => ctxDone \/ watched = <<"generic", "proto">>

(* The flag that keeps a second run out says that a run is in progress; it   *)
(* is never left behind but in the same two cases.                           *)
RunningIsTrue ==
    running /\ watched # Gpu =>
        \/ \E r \in Requests : at[r] = "read"
        \/ ctxDone \/ watched = <<"generic", "proto">>

(* Within the TTL of its last run a collector answers with the metrics of    *)
(* that run, however many requests there are.                                *)
TTLKeepsMetrics == [][~due => UNCHANGED <<last, spoilt>>]_vars

(* When nothing disturbs the collector any more and requests go on, the      *)
(* answers are complete again: no failure, TTL, metric that was no number or *)
(* run flag outlasts its cause.                                              *)
Recovers ==
    LET entering == \E r \in Requests : at[r] = "enter"
    IN  /\ watched \notin {Nobody, Gpu, <<"generic", "proto">>}
        /\ <>[](calm /\ ~ctxDone)
        /\ []<>entering
        => <>[](Answer = Outcome(Collect(watched, Mine), Mine).metrics)
=============================================================================
