----------------------------- MODULE PluginExec -----------------------------
(* Plugin commands (internal/plugins/plugin.go): exec runs a plugin's child  *)
(* process for a caller and publishes what it prints, a batch per blank line *)
(* and one at the end; drain hands the latest batch out.  Callers are the    *)
(* HTTP and submission requests and the initial run that scan.go starts and  *)
(* does not wait for.                                                        *)
EXTENDS Naturals, FiniteSets

CONSTANTS
    Callers,     \* goroutines that exec plugins
    scan,        \* the one among them that is scan.go's initial run
    Plugins,     \* p.active
    WithTTL,     \* the plugins with a run TTL
    MaxLines     \* bound: lines each plugin prints over all its runs

ASSUME PluginAssumption ==
    /\ scan \in Callers /\ WithTTL \subseteq Plugins /\ MaxLines \in Nat

VARIABLES
    ctxDone,     \* the agent's group context is done
    running,     \* plugin.running
    published,   \* plugin.metrics is not nil
    metrics,     \* plugin.metrics: a batch is the set of its lines' numbers
    prevMetrics, \* plugin.prevMetrics, the batch drained last
    unexpired,   \* less than runTTL passed since the last run
    at,          \* where exec(c, p) is: "none", "enter", "start", "scan",
                 \* "wait", "done"
    lines,       \* the lines it holds, by number
    child,       \* its process: "none", "alive", "exited"
    first,       \* ghost: the number of its first line, 0 if it has no process
    emitted      \* how many lines the plugin printed so far

pluginVars == <<running, published, metrics, prevMetrics, unexpired>>
execVars   == <<at, lines, child, first, emitted>>

Execs == Callers \X Plugins

(* Scan has started the initial run of every plugin.                         *)
PluginInit ==
    /\ ctxDone = FALSE
    /\ running = [p \in Plugins |-> FALSE]
    /\ published = [p \in Plugins |-> FALSE]
    /\ metrics = [p \in Plugins |-> {}] /\ prevMetrics = [p \in Plugins |-> {}]
    /\ unexpired = [p \in Plugins |-> FALSE]
    /\ at = [e \in Execs |-> IF e[1] = scan THEN "enter" ELSE "none"]
    /\ lines = [e \in Execs |-> {}] /\ child = [e \in Execs |-> "none"]
    /\ first = [e \in Execs |-> 0] /\ emitted = [p \in Plugins |-> 0]

Goto(c, p, place) == at' = [at EXCEPT ![<<c, p>>] = place]

-----------------------------------------------------------------------------
(* exec, step by step: the lock is only held within a step.                  *)

TTLNotExpired(c, p) ==
    /\ at[<<c, p>>] = "enter" /\ unexpired[p]
    /\ Goto(c, p, "done")
    /\ UNCHANGED <<ctxDone, pluginVars, lines, child, first, emitted>>

(* A slip: a caller waits for the run in progress.                           *)
AwaitRun(c, p) ==
    /\ at[<<c, p>>] = "enter" /\ ~unexpired[p] /\ FALSE
    /\ UNCHANGED <<ctxDone, pluginVars, execVars>>

AlreadyRunning(c, p) ==
    /\ at[<<c, p>>] = "enter" /\ ~unexpired[p] /\ running[p]
    /\ Goto(c, p, "done")
    /\ UNCHANGED <<ctxDone, pluginVars, lines, child, first, emitted>>

(* A slip: no test of running.                                               *)
EnterAnyway(c, p) ==
    /\ at[<<c, p>>] = "enter" /\ ~unexpired[p]
    /\ running' = [running EXCEPT ![p] = TRUE]
    /\ Goto(c, p, "start")
    /\ UNCHANGED <<ctxDone, published, metrics, prevMetrics, unexpired, lines, child, first, emitted>>

Enter(c, p) ==
    /\ at[<<c, p>>] = "enter" /\ ~unexpired[p] /\ ~running[p]
    /\ running' = [running EXCEPT ![p] = TRUE]
    /\ Goto(c, p, "start")
    /\ UNCHANGED <<ctxDone, published, metrics, prevMetrics, unexpired, lines, child, first, emitted>>

(* resetStatus.                                                              *)
ResetStatus(p) ==
    /\ running' = [running EXCEPT ![p] = FALSE]
    /\ unexpired' = [unexpired EXCEPT ![p] = p \in WithTTL]

(* A slip: a command that does not start leaves the plugin running.          *)
StartFailsAndReturns(c, p) ==
    /\ at[<<c, p>>] = "start"
    /\ Goto(c, p, "done")
    /\ UNCHANGED <<ctxDone, pluginVars, lines, child, first, emitted>>

(* The pipe or the command fails to start.                                   *)
StartFails(c, p) ==
    /\ at[<<c, p>>] = "start"
    /\ ResetStatus(p)
    /\ Goto(c, p, "done")
    /\ UNCHANGED <<ctxDone, published, metrics, prevMetrics, lines, child, first, emitted>>

(* cmd.Start, which does not start a command whose context is done.          *)
Start(c, p) ==
    /\ at[<<c, p>>] = "start" /\ ~ctxDone
    /\ child' = [child EXCEPT ![<<c, p>>] = "alive"]
    /\ first' = [first EXCEPT ![<<c, p>>] = emitted[p] + 1]
    /\ Goto(c, p, "scan")
    /\ UNCHANGED <<ctxDone, pluginVars, lines, emitted>>

(* The process prints a line, and the scanner reads it.                      *)
Line(c, p) ==
    /\ at[<<c, p>>] = "scan" /\ child[<<c, p>>] = "alive" /\ emitted[p] < MaxLines
    /\ emitted' = [emitted EXCEPT ![p] = @ + 1]
    /\ lines' = [lines EXCEPT ![<<c, p>>] = @ \cup {emitted[p] + 1}]
    /\ UNCHANGED <<ctxDone, pluginVars, at, child, first>>

(* parsePluginOutput publishes an empty batch for no lines and for bad JSON. *)
Publish(p, batch) ==
    /\ published' = [published EXCEPT ![p] = TRUE]
    /\ metrics' = [metrics EXCEPT ![p] = batch]

(* A blank line: "signal to parse what has already been received".           *)
Blank(c, p) ==
    /\ at[<<c, p>>] = "scan" /\ child[<<c, p>>] = "alive"
    /\ \E parsed \in {lines[<<c, p>>], {}} : Publish(p, parsed)
    /\ lines' = [lines EXCEPT ![<<c, p>>] = {}]
    /\ UNCHANGED <<ctxDone, running, prevMetrics, unexpired, at, child, first, emitted>>

(* A slip: only what is in the buffer is parsed.                             *)
ParseIfAny(c, p) ==
    /\ at[<<c, p>>] = "scan"
    /\ \/ lines[<<c, p>>] # {} /\ \E parsed \in {lines[<<c, p>>], {}} : Publish(p, parsed)
       \/ lines[<<c, p>>] = {} /\ UNCHANGED <<published, metrics>>
    /\ lines' = [lines EXCEPT ![<<c, p>>] = {}]
    /\ Goto(c, p, "wait")
    /\ UNCHANGED <<ctxDone, running, prevMetrics, unexpired, child, first, emitted>>

(* The scanner is done, as the output ended or a line was too long for it:   *)
(* the last parse, of whatever lines are left, none included.                *)
ParseRest(c, p) ==
    /\ at[<<c, p>>] = "scan"
    /\ \E parsed \in {lines[<<c, p>>], {}} : Publish(p, parsed)
    /\ lines' = [lines EXCEPT ![<<c, p>>] = {}]
    /\ Goto(c, p, "wait")
    /\ UNCHANGED <<ctxDone, running, prevMetrics, unexpired, child, first, emitted>>

(* cmd.Wait and resetStatus.                                                 *)
Wait(c, p) ==
    /\ at[<<c, p>>] = "wait" /\ child[<<c, p>>] = "exited"
    /\ ResetStatus(p)
    /\ Goto(c, p, "done")
    /\ UNCHANGED <<ctxDone, published, metrics, prevMetrics, lines, child, first, emitted>>

ExecStep(c, p) ==
    \/ TTLNotExpired(c, p) \/ AlreadyRunning(c, p) \/ Enter(c, p)
    \/ StartFails(c, p) \/ Start(c, p)
    \/ child[<<c, p>>] = "exited" /\ ParseRest(c, p)
    \/ Wait(c, p)

(* drain: the batch published since the last drain, or that one again.       *)
Drained(p) == IF published[p] THEN metrics[p] ELSE prevMetrics[p]

Drain(p) ==
    /\ prevMetrics' = [prevMetrics EXCEPT ![p] = Drained(p)]
    /\ published' = [published EXCEPT ![p] = FALSE]
    /\ metrics' = [metrics EXCEPT ![p] = {}]
    /\ UNCHANGED <<running, unexpired>>

-----------------------------------------------------------------------------
(* The plugins' processes and time.                                          *)

Exit(c, p) ==
    /\ child[<<c, p>>] = "alive"
    /\ child' = [child EXCEPT ![<<c, p>>] = "exited"]
    /\ UNCHANGED <<ctxDone, pluginVars, at, lines, first, emitted>>

(* A slip: the command is not bound to the context.                          *)
KillNobody(c, p) == FALSE /\ UNCHANGED <<ctxDone, pluginVars, execVars>>

(* exec.CommandContext kills the process of a context that is done.          *)
Kill(c, p) == ctxDone /\ Exit(c, p)

TTLExpires(p) ==
    /\ unexpired[p]
    /\ unexpired' = [unexpired EXCEPT ![p] = FALSE]
    /\ UNCHANGED <<ctxDone, running, published, metrics, prevMetrics, execVars>>

ProcessStep(c, p) ==
    \/ Line(c, p) \/ Blank(c, p) \/ Exit(c, p)
    \/ child[<<c, p>>] = "alive" /\ ParseRest(c, p)

-----------------------------------------------------------------------------
(* What the plugins guarantee.                                               *)

PluginTypeOK ==
    /\ ctxDone \in BOOLEAN
    /\ running \in [Plugins -> BOOLEAN] /\ published \in [Plugins -> BOOLEAN]
    /\ metrics \in [Plugins -> SUBSET (1..MaxLines)]
    /\ prevMetrics \in [Plugins -> SUBSET (1..MaxLines)]
    /\ unexpired \in [Plugins -> BOOLEAN]
    /\ at \in [Execs -> {"none", "enter", "start", "scan", "wait", "done"}]
    /\ lines \in [Execs -> SUBSET (1..MaxLines)]
    /\ child \in [Execs -> {"none", "alive", "exited"}]
    /\ first \in [Execs -> 0..(MaxLines + 1)]
    /\ emitted \in [Plugins -> 0..MaxLines]

Busy(p) == {c \in Callers : at[<<c, p>>] \in {"start", "scan", "wait"}}

(* running is set exactly while one exec of the plugin is past its guards,   *)
(* on every path out of exec, so a plugin is neither locked out for good nor *)
(* run twice at a time (plugin.go:256-332, 398).                         *)
RunningIsAccurate ==
    \A p \in Plugins : /\ running[p] <=> Busy(p) # {}
                       /\ \A c, d \in Busy(p) : c = d

Before(older, newer) == \A m \in older, n \in newer : m < n

(* Requests and runs of a plugin in any order: what is held by an exec is    *)
(* newer than what is published, which is newer than what was drained last,  *)
(* so a drain never goes back to an older batch, and never mixes two runs    *)
(* (plugin.go:25-43, 61-67, 334-365).                                        *)
BatchesInOrder ==
    \A p \in Plugins :
        /\ Before(prevMetrics[p], metrics[p])
        /\ \A c \in Callers : /\ Before(prevMetrics[p] \cup metrics[p], lines[<<c, p>>])
                              /\ \A n \in lines[<<c, p>>] : n >= first[<<c, p>>]
=============================================================================
