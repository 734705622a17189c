-------------------------- MODULE AgentLifeProofs ---------------------------
(* Theorems about AgentLife, for any number of servers, sockets, requests    *)
(* and runs.                                                                 *)
EXTENDS AgentLife, TLAPS

LEMMA SocketsAreServers == Sockets \subseteq Servers
  BY AgentAssumption DEF AgentAssumption, Servers

-----------------------------------------------------------------------------
(* The types.                                                                *)

LEMMA Zero == 0 \in 0 .. MaxRuns /\ 0 \in 0 .. Listeners /\ 0 \in 0 .. MaxRequests
  BY AgentAssumption DEF AgentAssumption

LEMMA InitTypeOK == ASSUME Init PROVE TypeOK
  <1>1. task \in [Tasks -> {"off", "runs", "stuck", "ended"}]
    BY DEF Init
  <1>2. serve \in [Servers -> {"off", "starts", "open", "closed", "returned"}]
    BY DEF Init
  <1>3. active \in [Servers -> 0 .. MaxRequests]
    BY Zero DEF Init
  <1> QED BY <1>1, <1>2, <1>3, Zero DEF Init, TypeOK

(* The end of a process, whatever ended it.                                  *)
LEMMA GoneType ==
    ASSUME TypeOK, NEW how \in {"well", "failed", "hard"}, Gone(how), UNCHANGED <<file, runs>>
    PROVE  TypeOK'
  <1>1. task' \in [Tasks -> {"off", "runs", "stuck", "ended"}]
    BY DEF Gone
  <1>2. serve' \in [Servers -> {"off", "starts", "open", "closed", "returned"}]
    BY DEF Gone
  <1>3. active' \in [Servers -> 0 .. MaxRequests]
    BY Zero DEF Gone
  <1> QED BY <1>1, <1>2, <1>3, Zero DEF TypeOK, Gone

LEMMA EndsHardType == ASSUME TypeOK, EndsHard PROVE TypeOK'
  BY GoneType DEF EndsHard

(* What New does, and the user.                                              *)
LEMMA NewType == ASSUME TypeOK, Launch \/ NewFails \/ BindNext \/ Start \/ Tidy PROVE TypeOK'
  <1>1. CASE Launch
    BY <1>1, AgentAssumption
    DEF AgentAssumption, TypeOK, Launch, group, servers
  <1>2. CASE NewFails
    BY <1>2, EndsHardType DEF NewFails
  <1>3. CASE BindNext
    <2>1. bound' \in 0 .. Listeners
      BY <1>3, AgentAssumption DEF AgentAssumption, TypeOK, BindNext
    <2>2. file' \subseteq Sockets
      BY <1>3 DEF TypeOK, BindNext
    <2> QED
      BY <1>3, <2>1, <2>2 DEF TypeOK, BindNext, group, servers, history
  <1>4. CASE Start
    BY <1>4 DEF TypeOK, Start, history
  <1>5. CASE Tidy
    BY <1>5 DEF TypeOK, Tidy, group, servers, history
  <1> QED BY <1>1, <1>2, <1>3, <1>4, <1>5

(* Signals and tasks.                                                        *)
LEMMA InterruptType == ASSUME TypeOK, Interrupt PROVE TypeOK'
  <1>1. CASE armed
    BY <1>1 DEF TypeOK, Interrupt, servers, history
  <1>2. CASE ~armed
    BY <1>2, EndsHardType DEF Interrupt
  <1> QED BY <1>1, <1>2

LEMMA HandlerType == ASSUME TypeOK, HandleInterrupt \/ HandlerEnds PROVE TypeOK'
  <1>1. CASE HandleInterrupt
    BY <1>1 DEF TypeOK, HandleInterrupt, GroupOnly, servers, history
  <1>2. CASE HandlerEnds
    BY <1>2 DEF TypeOK, HandlerEnds, GroupOnly, servers, history
  <1> QED BY <1>1, <1>2

LEMMA TaskType ==
    ASSUME TypeOK, StatsdSticks \/ \E t \in Tasks : TaskFails(t) \/ TaskEnds(t)
    PROVE  TypeOK'
  <1>1. CASE StatsdSticks
    BY <1>1 DEF TypeOK, StatsdSticks, GroupOnly, servers, history
  <1>2. ASSUME NEW t \in Tasks, TaskFails(t) PROVE TypeOK'
    BY <1>2 DEF TypeOK, TaskFails, GroupOnly, servers, history
  <1>3. ASSUME NEW t \in Tasks, TaskEnds(t) PROVE TypeOK'
    BY <1>3 DEF TypeOK, TaskEnds, GroupOnly, servers, history
  <1> QED BY <1>1, <1>2, <1>3

(* The servers.                                                              *)
LEMMA ServerType ==
    ASSUME TypeOK, NEW l \in Servers,
           Listen(l) \/ ListenFails(l) \/ Request(l) \/ Answer(l) \/ ServeReturns(l)
    PROVE  TypeOK'
  <1>1. CASE Listen(l)
    BY <1>1 DEF TypeOK, Listen, ServersOnly, group, history
  <1>2. CASE ListenFails(l)
    BY <1>2, EndsHardType DEF ListenFails
  <1>3. CASE Request(l)
    <2>1. active[l] + 1 \in 0 .. MaxRequests
      BY <1>3, AgentAssumption DEF AgentAssumption, TypeOK, Request
    <2> QED
      BY <1>3, <2>1 DEF TypeOK, Request, ServersOnly, group, history
  <1>4. CASE Answer(l)
    <2>1. active[l] - 1 \in 0 .. MaxRequests
      BY <1>4, AgentAssumption DEF AgentAssumption, TypeOK, Answer
    <2> QED
      BY <1>4, <2>1 DEF TypeOK, Answer, ServersOnly, group, history
  <1>5. CASE ServeReturns(l)
    BY <1>5 DEF TypeOK, ServeReturns, ServersOnly, group, history
  <1> QED BY <1>1, <1>2, <1>3, <1>4, <1>5

LEMMA StopType == ASSUME TypeOK, ShutNext \/ DeadlinePasses PROVE TypeOK'
  <1>1. CASE ShutNext
    <2>1. stopping' \in 0 .. Listeners /\ file' \subseteq Sockets
      BY <1>1, AgentAssumption DEF AgentAssumption, TypeOK, ShutNext
    <2> QED
      BY <1>1, <2>1 DEF TypeOK, ShutNext, ServersOnly, group, history
  <1>2. CASE DeadlinePasses
    BY <1>2 DEF TypeOK, DeadlinePasses, ServersOnly, group, history
  <1> QED BY <1>1, <1>2

LEMMA ExitType == ASSUME TypeOK, Exit PROVE TypeOK'
  BY GoneType DEF Exit

LEMMA StutterType == ASSUME TypeOK, UNCHANGED vars PROVE TypeOK'
  BY DEF TypeOK, vars, group, servers, history

LEMMA NextTypeOK == ASSUME TypeOK, [Next]_vars PROVE TypeOK'
  <1>1. CASE Next
    BY <1>1, NewType, InterruptType, HandlerType, TaskType, ServerType, StopType, ExitType
    DEF Next, Ending
  <1> QED BY <1>1, StutterType

(* Every variable of the agent's life stays in its range, however often it   *)
(* is started and ended (agent.go, sighndlr_linux.go, server.go).            *)
THEOREM TypeCorrect == Spec => []TypeOK
  BY InitTypeOK, NextTypeOK, PTL DEF Spec

-----------------------------------------------------------------------------
(* The files of sockets, and the requests that are waited for.  Stop shuts   *)
(* the servers in order, so that at its end all but the last have had their  *)
(* time; the files follow the servers, and New leaves none out.              *)

FilesMade == proc = "new" => \A l \in Sockets : l <= bound => l \in file

ClosedInOrder ==
    proc = "start" =>
        \A l \in Servers :
            /\ l <= stopping <=> serve[l] \in {"closed", "returned"}
            /\ l < stopping => active[l] = 0 \/ deadline

Idle == (proc = "down" => bound = 0) /\ (proc # "start" => stopping = 0)

LifeInv == FilesMade /\ ClosedInOrder /\ Idle /\ SocketFiles /\ DrainsAllButLast

LEMMA InitLifeInv == ASSUME Init PROVE LifeInv
  BY DEF Init, LifeInv, FilesMade, ClosedInOrder, Idle, SocketFiles, DrainsAllButLast

(* A hard end promises nothing of files and requests.                        *)
LEMMA EndsHardLife == ASSUME EndsHard PROVE LifeInv'
  BY DEF EndsHard, Gone, LifeInv, FilesMade, ClosedInOrder, Idle, SocketFiles,
         DrainsAllButLast

(* The steps of the group change neither files nor servers.                  *)
LEMMA ServersKeptLife ==
    ASSUME LifeInv, UNCHANGED <<proc, bound, file, servers, history>>
    PROVE  LifeInv'
  BY DEF LifeInv, FilesMade, ClosedInOrder, Idle, SocketFiles, DrainsAllButLast,
         servers, history

LEMMA NewLife ==
    ASSUME TypeOK, LifeInv, Launch \/ NewFails \/ BindNext \/ Start \/ Tidy
    PROVE  LifeInv'
  <1>1. CASE Launch
    <2>1. FilesMade'
      BY <1>1, SocketsAreServers DEF LifeInv, Idle, FilesMade, Launch, Servers
    <2> QED
      BY <1>1, <2>1
      DEF LifeInv, Launch, Idle, ClosedInOrder, SocketFiles, DrainsAllButLast, servers
  <1>2. CASE NewFails
    BY <1>2, EndsHardLife DEF NewFails
  <1>3. CASE BindNext
    <2>1. ASSUME NEW l \in Sockets, l <= bound + 1 PROVE l \in file'
      <3>1. CASE l = bound + 1
        BY <1>3, <3>1 DEF BindNext
      <3>2. CASE l # bound + 1
        <4>1. l <= bound
          BY <2>1, <3>2, SocketsAreServers, AgentAssumption
          DEF AgentAssumption, Servers, TypeOK
        <4> QED BY <1>3, <4>1 DEF LifeInv, FilesMade, BindNext
      <3> QED BY <3>1, <3>2
    <2>2. FilesMade'
      BY <1>3, <2>1 DEF FilesMade, BindNext
    <2> QED
      BY <1>3, <2>2
      DEF LifeInv, BindNext, Idle, ClosedInOrder, SocketFiles, DrainsAllButLast,
          servers, history
  <1>4. CASE Start
    <2>1. \A l \in Servers : serve'[l] = "starts"
      BY <1>4 DEF Start
    <2>2. file' = {l \in Sockets : serve'[l] \in {"starts", "open"}}
      <3>1. file = Sockets
        <4>1. \A l \in Sockets : l <= bound
          BY <1>4, SocketsAreServers, AgentAssumption DEF AgentAssumption, Start, Servers
        <4> QED BY <1>4, <4>1 DEF Start, LifeInv, FilesMade, TypeOK
      <3> QED BY <1>4, <2>1, <3>1, SocketsAreServers DEF Start
    <2>3. ClosedInOrder'
      <3>1. stopping' = 0
        BY <1>4 DEF LifeInv, Idle, Start
      <3> QED BY <2>1, <3>1, AgentAssumption DEF AgentAssumption, ClosedInOrder, Servers
    <2> QED
      BY <1>4, <2>2, <2>3
      DEF LifeInv, Start, FilesMade, Idle, SocketFiles, DrainsAllButLast, history
  <1>5. CASE Tidy
    BY <1>5
    DEF LifeInv, Tidy, FilesMade, ClosedInOrder, Idle, SocketFiles, DrainsAllButLast,
        servers, history
  <1> QED BY <1>1, <1>2, <1>3, <1>4, <1>5

LEMMA SignalLife ==
    ASSUME LifeInv, Interrupt \/ HandleInterrupt \/ HandlerEnds
    PROVE  LifeInv'
  BY EndsHardLife, ServersKeptLife
  DEF Interrupt, HandleInterrupt, HandlerEnds, GroupOnly

LEMMA TaskLife ==
    ASSUME LifeInv, StatsdSticks \/ \E t \in Tasks : TaskFails(t) \/ TaskEnds(t)
    PROVE  LifeInv'
  BY ServersKeptLife DEF StatsdSticks, TaskFails, TaskEnds, GroupOnly

(* Requests come to open servers only, and a server that has none keeps none *)
(* once it is shut.                                                          *)
LEMMA RequestLife ==
    ASSUME TypeOK, LifeInv, NEW l \in Servers, Request(l) \/ Answer(l)
    PROVE  LifeInv'
  <1>1. ClosedInOrder'
    <2>1. ASSUME NEW k \in Servers, proc = "start", k < stopping
          PROVE  active'[k] = 0 \/ deadline
      <3>1. active[k] = 0 \/ deadline
        BY <2>1 DEF LifeInv, ClosedInOrder
      <3>2. serve[k] # "open"
        <4>1. k <= stopping
          BY <2>1, AgentAssumption DEF AgentAssumption, TypeOK, Servers
        <4> QED BY <2>1, <4>1 DEF LifeInv, ClosedInOrder
      <3>3. k = l => active[k] > 0
        BY <3>2 DEF Request, Answer
      <3> QED BY <3>1, <3>3 DEF TypeOK, Request, Answer
    <2> QED
      BY <2>1 DEF LifeInv, ClosedInOrder, Request, Answer, ServersOnly
  <1> QED
    BY <1>1
    DEF LifeInv, Request, Answer, ServersOnly, FilesMade, Idle, SocketFiles,
        DrainsAllButLast, history

(* A server that opens, or whose Serve returns, stays on its side of Stop.   *)
LEMMA ServeLife ==
    ASSUME TypeOK, LifeInv, NEW l \in Servers, Listen(l) \/ ServeReturns(l)
    PROVE  LifeInv'
  <1>1. /\ proc' = proc /\ bound' = bound /\ file' = file /\ proc = "start"
        /\ stopping' = stopping /\ deadline' = deadline /\ active' = active
        /\ ended' = ended /\ cut' = cut
    BY DEF Listen, ServeReturns, ServersOnly, history
  <1>2. \A k \in Servers :
            /\ serve'[k] \in {"closed", "returned"} <=> serve[k] \in {"closed", "returned"}
            /\ serve'[k] \in {"starts", "open"} <=> serve[k] \in {"starts", "open"}
    BY DEF TypeOK, Listen, ServeReturns
  <1>3. ClosedInOrder'
    BY <1>1, <1>2 DEF LifeInv, ClosedInOrder
  <1>4. SocketFiles'
    BY <1>1, <1>2, SocketsAreServers DEF LifeInv, SocketFiles
  <1> QED
    BY <1>1, <1>3, <1>4 DEF LifeInv, FilesMade, Idle, DrainsAllButLast

(* Stop goes on to the next server, and takes its file with it.              *)
LEMMA ShutLife == ASSUME TypeOK, LifeInv, ShutNext PROVE LifeInv'
  <1>1. /\ proc' = "start" /\ proc = "start" /\ bound' = bound
        /\ stopping' = stopping + 1 /\ deadline' = deadline /\ active' = active
        /\ ended' = ended /\ cut' = cut
    BY DEF ShutNext, ServersOnly, history
  <1>2. stopping + 1 \in Servers /\ stopping \in Nat
    BY AgentAssumption DEF AgentAssumption, TypeOK, ShutNext, Servers
  <1>3. \A k \in Servers : serve'[k] = IF k = stopping + 1 THEN "closed" ELSE serve[k]
    BY <1>2 DEF TypeOK, ShutNext
  <1>4. ClosedInOrder'
    <2>1. ASSUME NEW k \in Servers
          PROVE  k <= stopping' <=> serve'[k] \in {"closed", "returned"}
      <3>1. k <= stopping <=> serve[k] \in {"closed", "returned"}
        BY <1>1 DEF LifeInv, ClosedInOrder
      <3>2. k \in Nat
        BY DEF Servers
      <3>3. k <= stopping + 1 <=> k <= stopping \/ k = stopping + 1
        BY <1>2, <3>2
      <3> QED BY <1>1, <1>3, <3>1, <3>3
    <2>2. ASSUME NEW k \in Servers, k < stopping'
          PROVE  active'[k] = 0 \/ deadline'
      <3>1. CASE k = stopping
        BY <1>1, <3>1 DEF ShutNext, Drained
      <3>2. CASE k # stopping
        <4>1. k < stopping
          BY <1>1, <1>2, <2>2, <3>2 DEF Servers
        <4> QED BY <1>1, <4>1 DEF LifeInv, ClosedInOrder
      <3> QED BY <3>1, <3>2
    <2> QED BY <2>1, <2>2 DEF ClosedInOrder
  <1>5. SocketFiles'
    <2>1. file' = file \ {stopping + 1}
      BY DEF ShutNext
    <2>2. file = {k \in Sockets : serve[k] \in {"starts", "open"}}
      BY <1>1 DEF LifeInv, SocketFiles
    <2>3. file' = {k \in Sockets : serve'[k] \in {"starts", "open"}}
      BY <1>3, <2>1, <2>2, SocketsAreServers
    <2> QED BY <1>1, <2>3 DEF SocketFiles
  <1> QED
    BY <1>1, <1>4, <1>5 DEF LifeInv, FilesMade, Idle, DrainsAllButLast

LEMMA DeadlineLife == ASSUME LifeInv, DeadlinePasses PROVE LifeInv'
  BY DEF DeadlinePasses, ServersOnly, LifeInv, FilesMade, ClosedInOrder, Idle,
         SocketFiles, DrainsAllButLast, history

(* When every Serve has returned, Stop is at the last server: the others had *)
(* no request left, or no time, and no socket is open.                       *)
LEMMA ExitLife == ASSUME TypeOK, LifeInv, Exit PROVE LifeInv'
  <1>1. \A l \in Servers : l <= stopping /\ serve[l] = "returned"
    BY DEF Exit, ServersReturned, LifeInv, ClosedInOrder
  <1>2. stopping = Listeners
    BY <1>1, AgentAssumption DEF AgentAssumption, TypeOK, Servers
  <1>3. cut' \subseteq {Listeners}
    <2>1. ASSUME NEW l \in Servers, l # Listeners PROVE active[l] = 0 \/ deadline
      <3>1. l < stopping
        BY <1>2, <2>1, AgentAssumption DEF AgentAssumption, Servers
      <3> QED BY <3>1 DEF Exit, LifeInv, ClosedInOrder
    <2> QED
      BY <2>1, AgentAssumption DEF AgentAssumption, Exit, Gone, TypeOK, Servers
  <1>4. file' = {}
    BY <1>1, SocketsAreServers DEF Exit, LifeInv, SocketFiles
  <1> QED
    BY <1>3, <1>4
    DEF Exit, Gone, LifeInv, FilesMade, ClosedInOrder, Idle, SocketFiles,
        DrainsAllButLast

LEMMA NextLifeInv == ASSUME TypeOK, LifeInv, [Next]_vars PROVE LifeInv'
  <1>1. CASE Next
    <2>1. ASSUME NEW l \in Servers, ListenFails(l) PROVE LifeInv'
      BY <2>1, EndsHardLife DEF ListenFails
    <2> QED
      BY <1>1, <2>1, NewLife, SignalLife, TaskLife, RequestLife, ServeLife, ShutLife,
         DeadlineLife, ExitLife
      DEF Next, Ending
  <1>2. CASE UNCHANGED vars
    BY <1>2, ServersKeptLife DEF vars
  <1> QED BY <1>1, <1>2

LEMMA LifeInvHolds == Spec => []LifeInv
  BY TypeCorrect, InitLifeInv, NextLifeInv, PTL DEF Spec

(* A running agent has the file of each of its sockets until it is shut, and *)
(* leaves none behind unless it ends hard (server.go:164-167, 231-257).      *)
THEOREM SocketFilesKept == Spec => []SocketFiles
  <1>1. LifeInv => SocketFiles
    BY DEF LifeInv
  <1> QED BY <1>1, LifeInvHolds, PTL

(* An agent that ends by itself has given the requests of all servers but    *)
(* the one shut last their time (server.go:223-257).                         *)
THEOREM RequestsDrained == Spec => []DrainsAllButLast
  <1>1. LifeInv => DrainsAllButLast
    BY DEF LifeInv
  <1> QED BY <1>1, LifeInvHolds, PTL
=============================================================================
