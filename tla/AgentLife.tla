----------------------------- MODULE AgentLife ------------------------------
(* The life of the agent's process, over several runs: agent.New and Start,  *)
(* the tasks of its errgroup, the listening servers and their Stop, signals, *)
(* and the socket files that outlive a process (agent/agent.go,              *)
(* agent/sighndlr_linux.go, server/server.go).                               *)
EXTENDS Naturals

CONSTANTS
    Listeners,    \* how many servers listen, in the order Stop takes them
    Sockets,      \* those of them on unix sockets: the last ones
    Tasks,        \* of "statsd", "reverse" and "submitter", those configured
    MaxRequests,  \* bound: requests one listener serves at a time
    MaxRuns       \* bound: starts of the agent

Servers == 1 .. Listeners

ASSUME AgentAssumption ==
    /\ Listeners \in Nat \ {0} /\ {MaxRequests, MaxRuns} \subseteq Nat
    /\ \E first \in 2 .. Listeners + 1 : Sockets = first .. Listeners
    /\ Tasks \subseteq {"statsd", "reverse", "submitter"}
    /\ ~{"reverse", "submitter"} \subseteq Tasks      \* config.Validate

VARIABLES
    proc,        \* the process: "down", in "new" or in "start"
    runs,        \* how often it was started
    ended,       \* how the last run ended: "well", "failed", "hard"
    bound,       \* the last listener whose socket New has made or skipped
    file,        \* the socket files that exist
    armed,       \* signals are delivered to signalCh
    pending,     \* an interrupt waits in signalCh
    handler,     \* handleSignals: "off", "waits", "ended"
    task,        \* every task: "off", "runs", "stuck", "ended"
    failed,      \* a task returned an error
    ctxDone,     \* the context of the group
    serve,       \* every server: "off", "starts", "open", "closed", "returned"
    stopping,    \* what Server.Stop shuts down: 0 before it starts
    deadline,    \* its time is over
    active,      \* requests in work
    cut          \* servers whose requests the last run ended on, in its time

group   == <<armed, pending, handler, task, failed, ctxDone>>
servers == <<serve, stopping, deadline, active>>
history == <<runs, ended, cut>>
vars    == <<proc, bound, file, group, servers, history>>

Init ==
    /\ proc = "down" /\ file = {} /\ runs = 0 /\ ended = "well" /\ cut = {}
    /\ bound = 0 /\ armed = FALSE /\ pending = FALSE /\ handler = "off"
    /\ task = [t \in Tasks |-> "off"] /\ failed = FALSE /\ ctxDone = FALSE
    /\ serve = [l \in Servers |-> "off"] /\ stopping = 0 /\ deadline = FALSE
    /\ active = [l \in Servers |-> 0]

(* The process is gone, and all it held but the files.                       *)
Gone(how) ==
    /\ proc' = "down" /\ ended' = how
    /\ cut' = {l \in Servers : active[l] > 0 /\ ~deadline}
    /\ bound' = 0 /\ armed' = FALSE /\ pending' = FALSE /\ handler' = "off"
    /\ task' = [t \in Tasks |-> "off"] /\ failed' = FALSE /\ ctxDone' = FALSE
    /\ serve' = [l \in Servers |-> "off"] /\ stopping' = 0 /\ deadline' = FALSE
    /\ active' = [l \in Servers |-> 0]

EndsHard == Gone("hard") /\ UNCHANGED <<file, runs>>

-----------------------------------------------------------------------------
(* agent.New.                                                                *)

Launch ==
    /\ proc = "down" /\ runs < MaxRuns
    /\ proc' = "new" /\ runs' = runs + 1 /\ cut' = {}
    /\ UNCHANGED <<bound, file, group, servers, ended>>

(* For the configuration, the check, the collectors, the plugins, an         *)
(* address, a certificate, a socket whose file exists, or, with every socket *)
(* made, reverse.New or multiagent.New.                                      *)
NewFails == proc = "new" /\ EndsHard

(* Sockets are made one by one, and never over a file that exists.           *)
BindNext ==
    /\ proc = "new" /\ bound < Listeners
    /\ bound + 1 \notin file
    /\ bound' = bound + 1
    /\ file' = file \cup ({bound + 1} \cap Sockets)
    /\ UNCHANGED <<proc, group, servers, history>>

(* signalNotifySetup, and Start.                                             *)
Start ==
    /\ proc = "new" /\ bound = Listeners
    /\ proc' = "start" /\ armed' = TRUE /\ handler' = "waits"
    /\ task' = [t \in Tasks |-> "runs"] /\ serve' = [l \in Servers |-> "starts"]
    /\ UNCHANGED <<bound, file, pending, failed, ctxDone, stopping, deadline, active, history>>

-----------------------------------------------------------------------------
(* Signals.                                                                  *)

(* Before New's last step and after Stop an interrupt ends the process.      *)
Interrupt ==
    /\ proc # "down"
    /\ IF armed
       THEN pending' = TRUE
            /\ UNCHANGED <<proc, bound, file, armed, handler, task, failed, ctxDone, servers, history>>
       ELSE EndsHard

GroupOnly == proc = "start" /\ UNCHANGED <<proc, bound, file, servers, history>>

(* Agent.Stop: the next interrupt finds no handler.                          *)
HandleInterrupt ==
    /\ handler = "waits" /\ pending
    /\ pending' = FALSE /\ armed' = FALSE /\ ctxDone' = TRUE
    /\ UNCHANGED <<handler, task, failed>> /\ GroupOnly

(* Mutated: the handler is left by an interrupt only.                        *)
HandlerEndsAfterStop ==
    /\ handler = "waits" /\ ~armed
    /\ handler' = "ended"
    /\ UNCHANGED <<armed, pending, task, failed, ctxDone>> /\ GroupOnly

(* An interrupt that comes now stays in the channel.                         *)
HandlerEnds ==
    /\ handler = "waits" /\ ctxDone
    /\ handler' = "ended"
    /\ UNCHANGED <<armed, pending, task, failed, ctxDone>> /\ GroupOnly

-----------------------------------------------------------------------------
(* The tasks, as their own modules have them.                                *)

(* The submitter logs its errors; the others return them.                    *)
TaskFails(t) ==
    /\ task[t] = "runs" /\ t # "submitter"
    /\ task' = [task EXCEPT ![t] = "ended"]
    /\ failed' = TRUE /\ ctxDone' = TRUE
    /\ UNCHANGED <<armed, pending, handler>> /\ GroupOnly

(* A StatsD server that is disabled returns at once; another may be stuck on *)
(* its full queue at the end (ShutdownEnds of StatsdServer).                 *)
TaskEnds(t) ==
    /\ task[t] = "runs" /\ (ctxDone \/ t = "statsd")
    /\ task' = [task EXCEPT ![t] = "ended"]
    /\ UNCHANGED <<armed, pending, handler, failed, ctxDone>> /\ GroupOnly

StatsdSticks ==
    /\ ctxDone /\ "statsd" \in Tasks /\ task["statsd"] = "runs"
    /\ task' = [task EXCEPT !["statsd"] = "stuck"]
    /\ UNCHANGED <<armed, pending, handler, failed, ctxDone>> /\ GroupOnly

-----------------------------------------------------------------------------
(* The servers.                                                              *)

ServersOnly == proc = "start" /\ UNCHANGED <<proc, bound, group, history>>

Listen(l) ==
    /\ serve[l] = "starts"
    /\ serve' = [serve EXCEPT ![l] = "open"]
    /\ UNCHANGED <<file, stopping, deadline, active>> /\ ServersOnly

(* The address is in use, the certificate is no good, accepting fails: fatal *)
(* there and then.                                                           *)
ListenFails(l) == proc = "start" /\ serve[l] \in {"starts", "open"} /\ EndsHard

Request(l) ==
    /\ serve[l] = "open" /\ active[l] < MaxRequests
    /\ active' = [active EXCEPT ![l] = @ + 1]
    /\ UNCHANGED <<file, serve, stopping, deadline>> /\ ServersOnly

Answer(l) ==
    /\ active[l] > 0
    /\ active' = [active EXCEPT ![l] = @ - 1]
    /\ UNCHANGED <<file, serve, stopping, deadline>> /\ ServersOnly

(* Mutated: each server is shut in a goroutine of its own.                   *)
DrainsNone(l) == TRUE

(* Server.Stop.  Shutdown closes the listener, which removes the file of a   *)
(* socket, and waits for the requests, but Serve returns at once.            *)
Drained(l) == l \in Servers => (active[l] = 0 \/ deadline)

(* ShutThrough is mutated: one server too many.                              *)
ShutThrough ==
    /\ ctxDone /\ stopping <= Listeners /\ Drained(stopping)
    /\ stopping' = stopping + 1
    /\ serve' = [serve EXCEPT ![stopping + 1] = "closed"]
    /\ file' = file \ {stopping + 1}
    /\ UNCHANGED <<deadline, active>> /\ ServersOnly

ShutNext ==
    /\ ctxDone /\ stopping < Listeners /\ Drained(stopping)
    /\ stopping' = stopping + 1
    /\ serve' = [serve EXCEPT ![stopping + 1] = "closed"]
    /\ file' = file \ {stopping + 1}
    /\ UNCHANGED <<deadline, active>> /\ ServersOnly

DeadlinePasses ==
    /\ stopping > 0 /\ ~deadline
    /\ deadline' = TRUE
    /\ UNCHANGED <<file, serve, stopping, active>> /\ ServersOnly

ServeReturns(l) ==
    /\ serve[l] = "closed"
    /\ serve' = [serve EXCEPT ![l] = "returned"]
    /\ UNCHANGED <<file, stopping, deadline, active>> /\ ServersOnly

(* Mutated: the sockets are served in goroutines that nobody waits for.      *)
OthersReturned == \A l \in Servers \ Sockets : serve[l] = "returned"

(* Start waits for the group, and nobody for Server.Stop.                    *)
ServersReturned == \A l \in Servers : serve[l] = "returned"

Exit ==
    /\ proc = "start" /\ handler = "ended" /\ ServersReturned
    /\ \A t \in Tasks : task[t] = "ended"
    /\ Gone(IF failed THEN "failed" ELSE "well") /\ UNCHANGED <<file, runs>>

-----------------------------------------------------------------------------
(* A user deletes a file that a run left behind.                             *)
Tidy ==
    /\ proc = "down" /\ file # {} /\ file' = {}
    /\ UNCHANGED <<proc, bound, group, servers, history>>

Ending ==
    \/ HandleInterrupt \/ HandlerEnds \/ ShutNext \/ Exit
    \/ (\E l \in Servers : ServeReturns(l))
    \/ ctxDone /\ \E t \in Tasks : TaskEnds(t)

Next ==
    \/ Launch \/ NewFails \/ BindNext \/ Start \/ Interrupt
    \/ \E t \in Tasks : TaskFails(t) \/ TaskEnds(t)
    \/ \E l \in Servers : Listen(l) \/ ListenFails(l) \/ Request(l) \/ Answer(l)
    \/ Ending \/ StatsdSticks \/ DeadlinePasses \/ Tidy

Spec == Init /\ [][Next]_vars

(* Goroutines run, and time passes.  Requests owe nothing.                   *)
FairSpec == Spec /\ WF_vars(Ending) /\ WF_vars(DeadlinePasses)

-----------------------------------------------------------------------------
(* Properties.                                                               *)

(* Every variable stays in its range.                                        *)
TypeOK ==
    /\ proc \in {"down", "new", "start"} /\ runs \in 0 .. MaxRuns
    /\ ended \in {"well", "failed", "hard"} /\ cut \subseteq Servers
    /\ bound \in 0 .. Listeners /\ file \subseteq Sockets
    /\ {armed, pending, failed, ctxDone, deadline} \subseteq BOOLEAN
    /\ handler \in {"off", "waits", "ended"} /\ task \in [Tasks -> {"off", "runs", "stuck", "ended"}]
    /\ serve \in [Servers -> {"off", "starts", "open", "closed", "returned"}]
    /\ stopping \in 0 .. Listeners /\ active \in [Servers -> 0 .. MaxRequests]

(* A running agent has the file of each of its sockets until the socket is   *)
(* shut, and ends with it removed, so that it can be started again, unless   *)
(* it ended hard: then New refuses the file until a user deletes it          *)
(* (server.go:164-167, 231-257).                                             *)
SocketFiles ==
    /\ proc = "start" => file = {l \in Sockets : serve[l] \in {"starts", "open"}}
    /\ proc = "down" /\ ended # "hard" => file = {}

(* An agent that ends by itself, for an interrupt or a task that failed, has *)
(* given every request its time, but for those of the server that is shut    *)
(* last: its Serve returns at once, and nobody waits for Server.Stop         *)
(* (server.go:223-257).                                                      *)
DrainsAllButLast == proc = "down" /\ ended # "hard" => cut \subseteq {Listeners}

(* One task's failure, or an interrupt that was delivered, ends the whole    *)
(* agent, whoever else runs and whatever requests are in work, unless StatsD *)
(* is stuck; then only a signal that nobody handles helps, and an interrupt  *)
(* is one only if it was an interrupt that began the end (agent.go:118-165,  *)
(* sighndlr_linux.go:37-60).                                                 *)
EndsAsAWhole == (ctxDone \/ pending) ~> (proc = "down" \/ \E t \in Tasks : task[t] = "stuck")
=============================================================================
