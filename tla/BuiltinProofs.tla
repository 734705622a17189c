--------------------------- MODULE BuiltinProofs ----------------------------
(* Theorems about BuiltinCollectors, for any platforms, lists of collectors, *)
(* options and requests.                                                     *)
EXTENDS BuiltinCollectors, WellFoundedInduction, TLAPS

(* One request at a time is in the collector's run, and a run begins only    *)
(* when the TTL is over, which nothing but the end of a run changes.  The    *)
(* collector of the gpu, whose metrics change at any time, has no TTL.       *)
RunInv ==
    /\ at \in [Requests -> {"idle", "enter", "collect", "read", "wait", "flush"}]
    /\ \A r \in Requests : at[r] = "read" => running /\ due /\ watched # Gpu
    /\ \A q, r \in Requests : at[q] = "read" /\ at[r] = "read" => q = r
    /\ watched = Gpu => due

LEMMA GpuIsNotCpu == Gpu # <<"procfs", "cpu">>
  BY DEF Gpu

LEMMA InitRunInv == ASSUME Init PROVE RunInv
  <1>1. at \in [Requests -> {"idle", "enter", "collect", "read", "wait", "flush"}]
        /\ \A r \in Requests : at[r] = "idle"
    BY DEF Init
  <1>2. watched = Gpu => due
    BY GpuIsNotCpu DEF Init
  <1> QED BY <1>1, <1>2 DEF RunInv

(* A request goes anywhere but into the run.                                 *)
LEMMA GoesElsewhere ==
    ASSUME RunInv, UNCHANGED <<running, due, watched>>,
           NEW r \in Requests, NEW place \in {"idle", "enter", "collect", "wait", "flush"},
           at' = [at EXCEPT ![r] = place]
    PROVE  RunInv'
  BY DEF RunInv

LEMMA EnterRunInv == ASSUME RunInv, NEW r \in Requests, Enter(r) PROVE RunInv'
  <1>1. \A q \in Requests : at[q] # "read"
    BY DEF RunInv, Enter
  <1>2. /\ running' = TRUE /\ due /\ due' = due /\ watched # Gpu /\ watched' = watched
        /\ at' = [at EXCEPT ![r] = "read"]
    BY DEF Enter, Goes, config
  <1> QED BY <1>1, <1>2 DEF RunInv

(* The end of the run: nobody else is in it, so running and due may change.  *)
LEMMA EndRunInv == ASSUME RunInv, NEW r \in Requests, End(r) PROVE RunInv'
  <1>1. watched' = watched /\ watched # Gpu /\ at' = [at EXCEPT ![r] = "wait"]
    BY DEF RunInv, End, Goes, config
  <1>2. at' \in [Requests -> {"idle", "enter", "collect", "read", "wait", "flush"}]
    BY <1>1 DEF RunInv
  <1>3. \A q \in Requests : at'[q] # "read"
    BY <1>1 DEF RunInv, End
  <1> QED BY <1>1, <1>2, <1>3 DEF RunInv

LEMMA GpuRunInv == ASSUME RunInv, NEW r \in Requests, GpuCollect(r) PROVE RunInv'
  <1>1. /\ watched = Gpu /\ watched' = watched /\ due' = due
        /\ at' = [at EXCEPT ![r] = "wait"]
    BY DEF GpuCollect, Goes, config
  <1> QED BY <1>1 DEF RunInv

LEMMA OthersRunInv ==
    ASSUME RunInv, UNCHANGED <<at, watched>>, due' = due \/ due' = TRUE,
           running' = running \/ watched = Gpu
    PROVE  RunInv'
  BY DEF RunInv

LEMMA NextRunInv == ASSUME RunInv, [Next]_vars PROVE RunInv'
  <1>1. ASSUME NEW r \in Requests, Ask(r) \/ Progress(r) PROVE RunInv'
    <2>1. CASE Enter(r) \/ End(r) \/ GpuCollect(r)
      BY <2>1, EnterRunInv, EndRunInv, GpuRunInv
    <2>2. CASE ~(Enter(r) \/ End(r) \/ GpuCollect(r))
      <3>1. /\ UNCHANGED <<running, due, watched>>
            /\ \E place \in {"idle", "enter", "collect", "wait", "flush"} :
                 at' = [at EXCEPT ![r] = place]
        BY <1>1, <2>2 DEF Progress, Ask, Pass, Run, RunDone, Refused, Flush, Goes, config, state
      <3> QED BY <3>1, GoesElsewhere
    <2> QED BY <2>1, <2>2
  <1>2. CASE GpuLine \/ GpuExit \/ TTLExpires \/ WorldChanges \/ Cancel \/ UNCHANGED vars
    BY <1>2, OthersRunInv
    DEF GpuLine, GpuExit, TTLExpires, WorldChanges, Cancel, config, state, vars
  <1> QED BY <1>1, <1>2 DEF Next

(* Within the TTL of its last run a collector keeps the metrics of that run, *)
(* however many requests run and flush the collectors.                       *)
THEOREM TTLRespected == Spec => TTLKeepsMetrics
  <1>1. RunInv /\ [Next]_vars => (~due => UNCHANGED <<last, spoilt>>)
    <2> SUFFICES ASSUME RunInv, [Next]_vars, ~due PROVE UNCHANGED <<last, spoilt>>
      OBVIOUS
    <2>1. ASSUME NEW r \in Requests, Ask(r) \/ Progress(r) PROVE UNCHANGED <<last, spoilt>>
      <3>1. ~End(r) /\ watched # Gpu
        BY DEF RunInv, End
      <3> QED
        BY <2>1, <3>1
        DEF Progress, Ask, Pass, Run, RunDone, Refused, Enter, GpuCollect, Flush, state
    <2>2. CASE GpuLine \/ GpuExit \/ TTLExpires \/ WorldChanges \/ Cancel \/ UNCHANGED vars
      BY <2>2 DEF GpuLine, GpuExit, TTLExpires, WorldChanges, Cancel, state, vars, RunInv
    <2> QED BY <2>1, <2>2 DEF Next
  <1> QED BY <1>1, InitRunInv, NextRunInv, PTL DEF Spec, TTLKeepsMetrics

-----------------------------------------------------------------------------
(* What a run of a collector leaves behind.                                  *)

(* A step leaves Collect without setStatus only at the end of the context.   *)
Clean(step) == step.then = "left" => step.on = {"context done"}
CleanRun(steps) == \E S : steps \in Seq(S) /\ \A step \in S : Clean(step)

LEMMA CleanSteps ==
    /\ \A metrics : Clean(Gives(metrics))
    /\ \A conditions, metrics : Clean(Unless(conditions, metrics)) /\ Clean(NaN(conditions, metrics))
                                /\ Clean(Step(conditions, "skip", metrics))
    /\ \A conditions, how : how # "left" => Clean(Ends(conditions, how))
    /\ \A how : Clean(Cancelled(how))
  BY DEF Clean, Gives, Unless, NaN, Ends, Cancelled, Step

LEMMA CleanTuples ==
    ASSUME NEW a, Clean(a), NEW b, Clean(b), NEW c, Clean(c), NEW d, Clean(d),
           NEW e, Clean(e), NEW f, Clean(f), NEW g, Clean(g), NEW h, Clean(h)
    PROVE  /\ CleanRun(<< >>) /\ CleanRun(<<a>>) /\ CleanRun(<<a, b>>) /\ CleanRun(<<a, b, c>>)
           /\ CleanRun(<<a, b, c, d>>) /\ CleanRun(<<a, b, c, d, e>>)
           /\ CleanRun(<<a, b, c, d, e, f>>) /\ CleanRun(<<a, b, c, d, e, f, g, h>>)
  <1> DEFINE S == {a, b, c, d, e, f, g, h}
  <1>1. \A step \in S : Clean(step)
    OBVIOUS
  <1>2. /\ << >> \in Seq(S) /\ <<a>> \in Seq(S) /\ <<a, b>> \in Seq(S) /\ <<a, b, c>> \in Seq(S)
        /\ <<a, b, c, d>> \in Seq(S) /\ <<a, b, c, d, e>> \in Seq(S)
        /\ <<a, b, c, d, e, f>> \in Seq(S) /\ <<a, b, c, d, e, f, g, h>> \in Seq(S)
    OBVIOUS
  <1> HIDE DEF S
  <1> QED BY <1>1, <1>2 DEF CleanRun

LEMMA CleanThen ==
    ASSUME NEW p, CleanRun(p), NEW q, CleanRun(q)
    PROVE  CleanRun(p \o q)
  <1>1. PICK S : p \in Seq(S) /\ \A step \in S : Clean(step)
    BY DEF CleanRun
  <1>2. PICK T : q \in Seq(T) /\ \A step \in T : Clean(step)
    BY DEF CleanRun
  <1>3. p \in Seq(S \cup T) /\ q \in Seq(S \cup T)
    BY <1>1, <1>2
  <1>4. p \o q \in Seq(S \cup T)
    BY <1>3
  <1> QED BY <1>1, <1>2, <1>4 DEF CleanRun

LEMMA CleanLists ==
    /\ CleanRun(<< >>)
    /\ \A a : Clean(a) => CleanRun(<<a>>)
    /\ \A a, b : Clean(a) /\ Clean(b) => CleanRun(<<a, b>>)
    /\ \A a, b, c : Clean(a) /\ Clean(b) /\ Clean(c) => CleanRun(<<a, b, c>>)
    /\ \A a, b, c, d : Clean(a) /\ Clean(b) /\ Clean(c) /\ Clean(d) => CleanRun(<<a, b, c, d>>)
    /\ \A a, b, c, d, e :
         Clean(a) /\ Clean(b) /\ Clean(c) /\ Clean(d) /\ Clean(e) => CleanRun(<<a, b, c, d, e>>)
    /\ \A a, b, c, d, e, f :
         Clean(a) /\ Clean(b) /\ Clean(c) /\ Clean(d) /\ Clean(e) /\ Clean(f)
         => CleanRun(<<a, b, c, d, e, f>>)
    /\ \A a, b, c, d, e, f, g, h :
         Clean(a) /\ Clean(b) /\ Clean(c) /\ Clean(d) /\ Clean(e) /\ Clean(f) /\ Clean(g) /\ Clean(h)
         => CleanRun(<<a, b, c, d, e, f, g, h>>)
  <1> DEFINE none == Gives({})
  <1>1. Clean(none)
    BY CleanSteps
  <1> HIDE DEF none
  <1>2. CleanRun(<< >>)
    BY <1>1, CleanTuples
  <1>3. ASSUME NEW a, Clean(a)
        PROVE  CleanRun(<<a>>)
    BY <1>1, <1>3, CleanTuples
  <1>4. ASSUME NEW a, Clean(a), NEW b, Clean(b)
        PROVE  CleanRun(<<a, b>>)
    BY <1>1, <1>4, CleanTuples
  <1>5. ASSUME NEW a, Clean(a), NEW b, Clean(b), NEW c, Clean(c)
        PROVE  CleanRun(<<a, b, c>>)
    BY <1>1, <1>5, CleanTuples
  <1>6. ASSUME NEW a, Clean(a), NEW b, Clean(b), NEW c, Clean(c), NEW d, Clean(d)
        PROVE  CleanRun(<<a, b, c, d>>)
    BY <1>1, <1>6, CleanTuples
  <1>7. ASSUME NEW a, Clean(a), NEW b, Clean(b), NEW c, Clean(c), NEW d, Clean(d),
                NEW e, Clean(e)
        PROVE  CleanRun(<<a, b, c, d, e>>)
    BY <1>1, <1>7, CleanTuples
  <1>8. ASSUME NEW a, Clean(a), NEW b, Clean(b), NEW c, Clean(c), NEW d, Clean(d),
                NEW e, Clean(e), NEW f, Clean(f)
        PROVE  CleanRun(<<a, b, c, d, e, f>>)
    BY <1>1, <1>8, CleanTuples
  <1>9. ASSUME NEW a, Clean(a), NEW b, Clean(b), NEW c, Clean(c), NEW d, Clean(d),
                NEW e, Clean(e), NEW f, Clean(f), NEW g, Clean(g), NEW h, Clean(h)
        PROVE  CleanRun(<<a, b, c, d, e, f, g, h>>)
    BY <1>1, <1>9, CleanTuples
  <1> QED BY <1>2, <1>3, <1>4, <1>5, <1>6, <1>7, <1>8, <1>9, Zenon

LEMMA CleanProcfs ==
    ASSUME NEW name \in ProcfsNames, NEW holding
    PROVE  CleanRun(ProcfsCollect(name, holding))
  <1>1. CleanRun(ProcfsCPU(holding))
    <2>1. CleanRun(ParseCPU)
      BY CleanSteps, CleanLists DEF ParseCPU
    <2>2. CleanRun(<< Ends({"stat unreadable"}, "fail"), Gives({"num_cpu"}), Cancelled("left"),
                      Unless({"count unparsable"}, {"processes"}) >>)
      BY CleanSteps, CleanLists
    <2> QED BY <2>1, <2>2, CleanThen, CleanLists DEF ProcfsCPU
  <1>2. CleanRun(ProcfsDisk(holding))
    <2>1. CleanRun(MdMembers(holding))
      BY CleanSteps, CleanLists DEF MdMembers
    <2>2. CleanRun(<< Ends({"diskstats unreadable"}, "fail"), Cancelled("left"),
                      ParseDisk("sda", {"reads of sda"}), ParseDisk("md0", {"timings of md0"}) >>)
      BY CleanSteps, CleanLists DEF ParseDisk
    <2> QED BY <2>1, <2>2, CleanThen DEF ProcfsDisk
  <1>3. CleanRun(ProcfsLoad)
    BY CleanSteps, CleanLists DEF ProcfsLoad
  <1>4. CleanRun(NetDev)
    BY CleanSteps, CleanLists DEF NetDev
  <1>5. CleanRun(Snmp)
    <2>1. /\ CleanRun(EmitIP) /\ CleanRun(EmitICMP) /\ CleanRun(EmitICMPMsg) /\ CleanRun(EmitTCP)
          /\ CleanRun(EmitUDP) /\ CleanRun(EmitUDPLite)
      BY CleanSteps, CleanLists
      DEF EmitIP, EmitICMP, EmitICMPMsg, EmitTCP, EmitUDP, EmitUDPLite, Emit
    <2>2. CleanRun(<< Ends({"snmp unreadable"}, "fail"), Cancelled("fail"),
                      Ends({"snmp6 unreadable"}, "fail") >>)
      BY CleanSteps, CleanLists
    <2> QED BY <2>1, <2>2, CleanThen DEF Snmp
  <1>6. CleanRun(Sockstat \o Sockstat6)
    <2>1. CleanRun(SocketsLine) /\ CleanRun(UDPLine) /\ CleanRun(UDPLiteLine) /\ CleanRun(RawLine)
          /\ CleanRun(FragLine)
      BY CleanSteps, CleanLists DEF SocketsLine, UDPLine, UDPLiteLine, RawLine, FragLine, SockLine
    <2>2. CleanRun(TCPLine)
      <3>1. \A j, k, l, m : CleanRun(<< Unless(j, {"tcp inuse"}), Unless(k, {"tcp orphan"}),
                                       Unless(l, {"tcp time_wait"}), Unless(m, {"tcp allocated"}) >>)
        BY CleanSteps, CleanLists
      <3> QED BY <3>1, Zenon DEF TCPLine
    <2>3. CleanRun(<< Ends({"sockstat unreadable"}, "stop"), Cancelled("stop") >>)
      BY CleanSteps, CleanLists
    <2>4. CleanRun(Sockstat6)
      BY CleanSteps, CleanLists DEF Sockstat6, SockLine
    <2> QED BY <2>1, <2>2, <2>3, <2>4, CleanThen DEF Sockstat
  <1>7. CleanRun(Meminfo \o VMstat)
    <2>1. CleanRun(Meminfo) /\ CleanRun(VMstat)
      BY CleanSteps, CleanLists DEF Meminfo, VMstat
    <2> QED BY <2>1, CleanThen
  <1> QED BY <1>1, <1>2, <1>3, <1>4, <1>5, <1>6, <1>7 DEF ProcfsCollect, ProcfsNames

(* No counters is an error that the generic protocol collector returns       *)
(* without setStatus: it is left out.                                        *)
LEMMA CleanGeneric ==
    ASSUME NEW name \in GenericNames \ {"proto"}
    PROVE  CleanRun(GenericCollect(name))
  <1>1. CleanRun(GenericCPU) /\ CleanRun(GenericDisk) /\ CleanRun(GenericFS)
    BY CleanSteps, CleanLists DEF GenericCPU, GenericDisk, GenericFS
  <1>2. CleanRun(GenericLoad) /\ CleanRun(GenericIF) /\ CleanRun(GenericVM)
    BY CleanSteps, CleanLists DEF GenericLoad, GenericIF, GenericVM
  <1> QED BY <1>1, <1>2 DEF GenericCollect, GenericNames

LEMMA CleanWmi ==
    ASSUME NEW name \in WmiNames, NEW holding
    PROVE  CleanRun(WmiCollect(name, holding))
  <1>1. \A class, metrics : CleanRun(Query(class, metrics)) /\ CleanRun(NamedItems(class, metrics))
    BY CleanSteps, CleanLists DEF Query, NamedItems
  <1>2. \A off, steps : CleanRun(steps) => CleanRun(Switched(off, steps, holding))
    BY CleanLists DEF Switched
  <1>3. CleanRun(WmiDisk(holding))
    BY <1>1, <1>2, CleanThen DEF WmiDisk
  <1>4. CleanRun(WmiIP(holding)) /\ CleanRun(WmiTCP(holding)) /\ CleanRun(WmiUDP(holding))
    BY <1>1, <1>2, CleanThen DEF WmiIP, WmiTCP, WmiUDP
  <1>5. /\ CleanRun(WmiCache) /\ CleanRun(WmiMemory) /\ CleanRun(WmiInterface)
        /\ CleanRun(WmiObjects) /\ CleanRun(WmiPagingFile) /\ CleanRun(WmiProcesses)
        /\ CleanRun(WmiSystem)
    BY <1>1 DEF WmiCache, WmiMemory, WmiInterface, WmiObjects, WmiPagingFile, WmiProcesses, WmiSystem
  <1>6. CleanRun(WmiProcessor)
    BY CleanSteps, CleanLists DEF WmiProcessor
  <1> QED BY <1>3, <1>4, <1>5, <1>6 DEF WmiCollect, WmiNames

LEMMA CleanOthers == ASSUME NEW holding PROVE CleanRun(PromCollect(holding)) /\ CleanRun(GpuParse)
  <1>1. \A url : CleanRun(PromParse(url, holding))
    BY CleanSteps, CleanLists DEF PromParse
  <1>2. CleanRun(GpuParse)
    BY CleanSteps, CleanLists DEF GpuParse
  <1> QED BY <1>1, <1>2, CleanThen DEF PromCollect

(* Every collector but one returns without setStatus only at the end of the  *)
(* context.                                                                  *)
LEMMA CleanCollect ==
    ASSUME NEW os \in {"linux", "windows", "other"}, NEW c \in Known(os) \cup {Nobody},
           c # <<"generic", "proto">>, NEW holding
    PROVE  CleanRun(Collect(c, holding))
  <1>1. CASE c \in {Prom, Gpu, Nobody}
    BY <1>1, CleanOthers DEF Prom, Gpu, Nobody, Collect
  <1>2. CASE \E n \in ProcfsNames : c = <<"procfs", n>>
    BY <1>2, CleanProcfs DEF Collect
  <1>3. CASE \E n \in WmiNames : c = <<"wmi", n>>
    BY <1>3, CleanWmi DEF Collect
  <1>4. CASE \E n \in GenericNames : c = <<"generic", n>>
    BY <1>4, CleanGeneric DEF Collect
  <1> QED BY <1>1, <1>2, <1>3, <1>4 DEF Known

(* What Outcome computes.                                                    *)

LEMMA LeastExists ==
    ASSUME NEW S \in SUBSET Nat, S # {}
    PROVE  \E n \in S : \A m \in S : n <= m
  <1> DEFINE R == {p \in Nat \X Nat : p[1] < p[2]}
  <1>1. IsWellFoundedOn(R, Nat)
    <2>1. OpToRel(<, Nat) = R
      BY DEF OpToRel
    <2> QED BY <2>1, NatLessThanWellFounded
  <1>2. PICK n \in S : \A m \in S : ~(<<m, n>> \in R)
    <2> HIDE DEF R
    <2> QED BY <1>1, WFMin
  <1>3. \A m \in S : n <= m
    <2> SUFFICES ASSUME NEW m \in S PROVE n <= m
      OBVIOUS
    <2>1. m \in Nat /\ n \in Nat /\ ~(<<m, n>> \in R)
      BY <1>2
    <2>2. ~(m < n)
      BY <2>1
    <2> QED BY <2>1, <2>2
  <1> QED BY <1>3

LEMMA MinIsLeast ==
    ASSUME NEW S \in SUBSET Nat, S # {}
    PROVE  Min(S) \in S /\ \A m \in S : Min(S) <= m
  BY LeastExists DEF Min

NamesIn(steps) == UNION {steps[i].gives : i \in DOMAIN steps}
IsRun(steps)   == \E S : steps \in Seq(S)

LEMMA CleanIsRun == ASSUME NEW steps, CleanRun(steps) PROVE IsRun(steps)
  BY DEF CleanRun, IsRun

(* A run that ends without setStatus met a step that does so.                *)
LEMMA OutcomeLeft ==
    ASSUME NEW steps, CleanRun(steps), NEW holding, Outcome(steps, holding).end = "left"
    PROVE  "context done" \in holding
  <1> DEFINE stops == {i \in DOMAIN steps : steps[i].on \cap holding # {}
                                              /\ steps[i].then \notin {"skip", "nan"}}
  <1>1. PICK S : steps \in Seq(S) /\ \A step \in S : Clean(step)
    BY DEF CleanRun
  <1>2. stops \in SUBSET Nat
    BY <1>1
  <1>3. Outcome(steps, holding).end = IF stops = {} THEN "ok" ELSE steps[Min(stops)].then
    BY DEF Outcome
  <1>4. stops # {} /\ steps[Min(stops)].then = "left"
    BY <1>3
  <1>5. PICK i \in stops : steps[i].then = "left"
    <2> HIDE DEF stops
    <2> QED BY <1>2, <1>4, MinIsLeast
  <1>6. steps[i].on = {"context done"}
    <2>1. i \in DOMAIN steps
      OBVIOUS
    <2>2. steps[i] \in S
      BY <1>1, <2>1
    <2>3. Clean(steps[i])
      BY <1>1, <2>2
    <2> QED BY <1>5, <2>3 DEF Clean
  <1> QED BY <1>5, <1>6

(* The metrics of a run are metrics of its steps.                            *)
LEMMA OutcomeMetrics ==
    ASSUME NEW steps, IsRun(steps), NEW holding
    PROVE  Outcome(steps, holding).metrics \subseteq NamesIn(steps)
  <1> DEFINE hit(i)   == steps[i].on \cap holding # {}
             stops    == {i \in DOMAIN steps : hit(i) /\ steps[i].then \notin {"skip", "nan"}}
             reached  == IF stops = {} THEN DOMAIN steps ELSE 1 .. Min(stops) - 1
             spoiling == {i \in reached : hit(i) /\ steps[i].then = "nan"}
             adding   == {j \in reached : ~hit(j) \/ j \in spoiling}
  <1>1. PICK S : steps \in Seq(S)
    BY DEF IsRun
  <1>2. PICK n \in Nat : DOMAIN steps = 1 .. n
    BY <1>1
  <1>3. reached \subseteq DOMAIN steps
    <2>1. CASE stops # {}
      <3>1. stops \in SUBSET Nat /\ stops \subseteq 1 .. n
        BY <1>2
      <3>2. Min(stops) \in 1 .. n
        <4> HIDE DEF stops
        <4> QED BY <2>1, <3>1, MinIsLeast
      <3>3. reached = 1 .. Min(stops) - 1
        BY <2>1
      <3> HIDE DEF stops, reached
      <3> QED BY <1>2, <3>2, <3>3
    <2> QED BY <2>1
  <1>4. adding \subseteq DOMAIN steps
    BY <1>3
  <1>5. Outcome(steps, holding).metrics = UNION {steps[i].gives : i \in adding}
    BY DEF Outcome
  <1> HIDE DEF adding
  <1> QED BY <1>4, <1>5 DEF NamesIn

(* No option is the end of the context.                                      *)
LEMMA OptionsAreNoEnd ==
    ASSUME NEW os \in {"linux", "windows", "other"}, NEW c \in Known(os) \cup {Nobody}
    PROVE  "context done" \notin Refusals(c) \cup Settings(c)
  <1>1. "context done" \notin Settings(c)
    BY DEF Settings, Excluding
  <1>2. "context done" \notin Refusals(c)
    <2>1. CASE c \in {Prom, Gpu, Nobody}
      <3>1. Refusals(c) = NewProm \/ Refusals(c) = NewGpu
        BY <2>1 DEF Prom, Gpu, Nobody, Refusals
      <3>2. "context done" \notin NewProm /\ "context done" \notin NewGpu
        BY DEF NewProm, NewGpu
      <3> QED BY <3>1, <3>2
    <2>2. CASE \E n \in ProcfsNames : c = <<"procfs", n>>
      <3>1. PICK n \in ProcfsNames : c = <<"procfs", n>>
        BY <2>2
      <3>2. "context done" \notin NewProcfs(n)
        BY DEF ProcfsNames, NewProcfs, NewProcfsCPU, NewProcfsDisk, NewProcfsLoad, NewProcfsIF,
               NewProcfsProto, NewProcfsSocket, NewProcfsVM, ProcfsRefusals
      <3> QED BY <3>1, <3>2 DEF Refusals
    <2>3. CASE \E n \in WmiNames : c = <<"wmi", n>>
      <3>1. PICK n \in WmiNames : c = <<"wmi", n>>
        BY <2>3
      <3>2. "context done" \notin NewWmi(n)
        BY DEF WmiNames, NewWmi, NewWmiCache, NewWmiDisk, NewWmiMemory, NewWmiInterface, NewWmiIP,
               NewWmiTCP, NewWmiUDP, NewWmiObjects, NewWmiPagingFile, NewWmiProcesses,
               NewWmiProcessor, NewWmiSystem, WmiRefusals
      <3> QED BY <3>1, <3>2 DEF Refusals
    <2>4. CASE \E n \in GenericNames : c = <<"generic", n>>
      <3>1. PICK n \in GenericNames : c = <<"generic", n>>
        BY <2>4
      <3>2. "context done" \notin NewGeneric(n)
        BY DEF GenericNames, NewGeneric, NewGenericCPU, NewGenericDisk, NewGenericFS,
               NewGenericLoad, NewGenericIF, NewGenericProto, NewGenericVM, GenericRefusals
      <3> QED BY <3>1, <3>2 DEF Refusals
    <2> QED BY <2>1, <2>2, <2>3, <2>4 DEF Known
  <1> QED BY <1>1, <1>2

(* The configuration, which no step changes: what is watched is one of the   *)
(* collectors that came up, and the options are options of collectors.       *)
Configured(os, list, set) ==
    /\ os \in {"linux", "windows", "other"} /\ list \in Seq(Known(os))
    /\ \A o \in set : o[2] \in Refusals(o[1]) \cup Settings(o[1])

ConfigInv ==
    /\ platform \in DOMAIN Enabled /\ enabled \in Enabled[platform]
    /\ Configured(platform, enabled, options)
    /\ watched = Nobody \/ watched \in New(platform, enabled, options)

LEMMA InitConfigInv == ASSUME Init PROVE ConfigInv
  <1>1. platform \in DOMAIN Enabled /\ enabled \in Enabled[platform]
    BY DEF Init
  <1>2. platform \in {"linux", "windows", "other"} /\ enabled \in Seq(Known(platform))
    BY <1>1, BuiltinsAssumption
  <1>3. \A o \in options : o[2] \in Refusals(o[1]) \cup Settings(o[1])
    <2> DEFINE settable == UNION {{c} \X (Refusals(c) \cup Settings(c)) : c \in Elements(enabled)}
    <2>1. options \in {{}} \cup {{o} : o \in settable}
      BY DEF Init
    <2>2. \A o \in settable : o[2] \in Refusals(o[1]) \cup Settings(o[1])
      OBVIOUS
    <2> HIDE DEF settable
    <2> QED BY <2>1, <2>2
  <1>4. watched = Nobody \/ watched \in New(platform, enabled, options)
    BY DEF Init
  <1> QED BY <1>1, <1>2, <1>3, <1>4 DEF ConfigInv, Configured

LEMMA ElementsKnown ==
    ASSUME NEW S, NEW list \in Seq(S), NEW c \in Elements(list)
    PROVE  c \in S
  BY DEF Elements

LEMMA NewIsEnabled ==
    ASSUME NEW os, NEW list, NEW set
    PROVE  New(os, list, set) \subseteq Elements(list)
  <1>1. \A package : ComingUp(package, list, set) \subseteq DOMAIN list
    BY DEF ComingUp
  <1>2. \A built, N : built = [i \in N |-> list[i]] /\ N \subseteq DOMAIN list
          => /\ Placed(built, set) \subseteq Elements(list)
             /\ \A taken : Filling(built, taken, set) \subseteq Elements(list)
    BY DEF Placed, Filling, Elements
  <1>3. \A built \in {ProcfsNew(list, set), GenericNew(list, set), WmiNew(list, set), GpuNew(list, set)} :
          /\ Placed(built, set) \subseteq Elements(list)
          /\ \A taken : Filling(built, taken, set) \subseteq Elements(list)
    BY <1>1, <1>2 DEF ProcfsNew, GenericNew, WmiNew, GpuNew
  <1>4. /\ ConfigureLinux(list, set) \subseteq Elements(list)
        /\ ConfigureWindows(list, set) \subseteq Elements(list)
        /\ Configure(list, set) \subseteq Elements(list)
    BY <1>3 DEF ConfigureLinux, ConfigureWindows, Configure
  <1> QED BY <1>4 DEF New

LEMMA WatchedKnown ==
    ASSUME ConfigInv
    PROVE  platform \in {"linux", "windows", "other"} /\ watched \in Known(platform) \cup {Nobody}
  BY NewIsEnabled, ElementsKnown DEF ConfigInv, Configured

LEMMA MineIsSettable ==
    ASSUME ConfigInv
    PROVE  Mine \subseteq Refusals(watched) \cup Settings(watched) /\ "context done" \notin Mine
  <1>1. Mine \subseteq Refusals(watched) \cup Settings(watched)
    BY DEF ConfigInv, Configured, Mine, OptionsOf
  <1> QED BY <1>1, WatchedKnown, OptionsAreNoEnd

LEMMA ConfigStays == ASSUME [Next]_vars PROVE UNCHANGED config
  BY DEF Next, Progress, Ask, Pass, Run, RunDone, Refused, Enter, End, GpuCollect, Flush,
         GpuLine, GpuExit, TTLExpires, WorldChanges, Cancel, vars

LEMMA NextConfigInv == ASSUME ConfigInv, [Next]_vars PROVE ConfigInv'
  BY ConfigStays DEF ConfigInv, config

(* Collect is left without setStatus only at the end of the context, but by  *)
(* the protocol counters of gopsutil.                                        *)
LEMMA LeftAtEnd ==
    ASSUME ConfigInv, NEW faults \in Disturbances,
           Outcome(Collect(watched, faults \cup Mine), faults \cup Mine).end = "left",
           watched # <<"generic", "proto">>
    PROVE  ctxDone
  <1>1. CleanRun(Collect(watched, faults \cup Mine))
    BY WatchedKnown, CleanCollect
  <1>2. "context done" \in faults
    BY <1>1, OutcomeLeft, MineIsSettable
  <1> QED BY <1>2 DEF Disturbances, Conditions

(* Nothing else ends a run without its status.                               *)
StatusInv == NeverStale /\ RunningIsTrue

LEMMA InitStatusInv == ASSUME Init PROVE StatusInv
  BY DEF Init, StatusInv, NeverStale, RunningIsTrue

LEMMA EndStatusInv ==
    ASSUME ConfigInv, StatusInv, NEW r \in Requests, End(r)
    PROVE  StatusInv'
  <1>1. UNCHANGED <<watched, ctxDone>>
    BY DEF End, config
  <1>2. PICK faults \in Disturbances :
          IF Outcome(Collect(watched, faults \cup Mine), faults \cup Mine).end = "left"
          THEN stale' = (last # {}) /\ UNCHANGED <<running, last, due, spoilt>>
          ELSE SetStatus(Outcome(Collect(watched, faults \cup Mine), faults \cup Mine))
    BY DEF End
  <1>3. CASE Outcome(Collect(watched, faults \cup Mine), faults \cup Mine).end = "left"
    BY <1>1, <1>3, LeftAtEnd DEF StatusInv, NeverStale, RunningIsTrue
  <1>4. CASE Outcome(Collect(watched, faults \cup Mine), faults \cup Mine).end # "left"
    <2>1. stale' = FALSE /\ running' = FALSE
      BY <1>2, <1>4 DEF SetStatus
    <2> QED BY <2>1 DEF StatusInv, NeverStale, RunningIsTrue
  <1> QED BY <1>3, <1>4

LEMMA EnterStatusInv ==
    ASSUME RunInv, StatusInv, NEW r \in Requests, Enter(r)
    PROVE  StatusInv'
  <1>1. UNCHANGED <<watched, ctxDone, stale>> /\ at' = [at EXCEPT ![r] = "read"]
    BY DEF Enter, config, Goes
  <1>2. at'[r] = "read"
    BY <1>1 DEF RunInv
  <1> QED BY <1>1, <1>2 DEF StatusInv, NeverStale, RunningIsTrue

(* A request that is not in the run does not end it by going elsewhere.      *)
LEMMA ElsewhereStatusInv ==
    ASSUME RunInv, StatusInv, NEW r \in Requests, at[r] # "read", NEW place,
           at' = [at EXCEPT ![r] = place],
           UNCHANGED <<watched, ctxDone, stale>>, UNCHANGED running \/ watched = Gpu
    PROVE  StatusInv'
  <1>1. \A q \in Requests : at[q] = "read" => at'[q] = "read"
    BY DEF RunInv
  <1> QED BY <1>1 DEF StatusInv, NeverStale, RunningIsTrue

LEMMA NextStatusInv == ASSUME RunInv, ConfigInv, StatusInv, [Next]_vars PROVE StatusInv'
  <1>1. ASSUME NEW r \in Requests, Ask(r) \/ Progress(r) PROVE StatusInv'
    <2>1. CASE End(r)
      BY <2>1, EndStatusInv
    <2>2. CASE Enter(r)
      BY <2>2, EnterStatusInv
    <2>3. CASE ~End(r) /\ ~Enter(r)
      <3>1. /\ at[r] # "read" /\ UNCHANGED <<watched, ctxDone, stale>>
            /\ UNCHANGED running \/ watched = Gpu
            /\ \E place : at' = [at EXCEPT ![r] = place]
        BY <1>1, <2>3
        DEF Progress, Ask, Pass, Run, RunDone, Refused, GpuCollect, Flush, Goes, config, state
      <3> QED BY <3>1, ElsewhereStatusInv
    <2> QED BY <2>1, <2>2, <2>3
  <1>2. CASE GpuLine \/ GpuExit \/ TTLExpires \/ WorldChanges \/ Cancel \/ UNCHANGED vars
    BY <1>2
    DEF GpuLine, GpuExit, TTLExpires, WorldChanges, Cancel, config, state, vars, StatusInv,
        NeverStale, RunningIsTrue
  <1> QED BY <1>1, <1>2 DEF Next

LEMMA StatusHolds == Spec => [](RunInv /\ ConfigInv /\ StatusInv)
  BY InitRunInv, NextRunInv, InitConfigInv, NextConfigInv, InitStatusInv, NextStatusInv, PTL DEF Spec

(* No collector but the one of gopsutil's protocol counters keeps metrics of *)
(* an earlier run over one that failed, before the context ends, whatever    *)
(* way its Collect is left.                                                  *)
THEOREM NeverStaleHolds == Spec => []NeverStale
  BY StatusHolds, PTL DEF StatusInv

(* Nor is a run flag left behind that would refuse every later run.          *)
THEOREM RunningHolds == Spec => []RunningIsTrue
  BY StatusHolds, PTL DEF StatusInv

-----------------------------------------------------------------------------
(* The metrics that are kept are metrics of the collector.                   *)

LEMMA RunThen ==
    ASSUME NEW p, IsRun(p), NEW q, IsRun(q)
    PROVE  IsRun(p \o q) /\ NamesIn(p \o q) = NamesIn(p) \cup NamesIn(q)
  <1>1. PICK S, T : p \in Seq(S) /\ q \in Seq(T)
    BY DEF IsRun
  <1>2. p \in Seq(S \cup T) /\ q \in Seq(S \cup T)
    BY <1>1
  <1>3. p \o q \in Seq(S \cup T)
    BY <1>2
  <1>4. PICK m \in Nat, n \in Nat : DOMAIN p = 1 .. m /\ DOMAIN q = 1 .. n /\ m = Len(p) /\ n = Len(q)
    BY <1>1
  <1>5. DOMAIN (p \o q) = 1 .. m + n
    BY <1>2, <1>4
  <1>6. /\ \A i \in 1 .. m : (p \o q)[i] = p[i]
        /\ \A i \in 1 .. n : (p \o q)[m + i] = q[i]
    BY <1>2, <1>4
  <1>7. NamesIn(p \o q) \subseteq NamesIn(p) \cup NamesIn(q)
    <2> SUFFICES ASSUME NEW i \in 1 .. m + n
                 PROVE  (p \o q)[i].gives \subseteq NamesIn(p) \cup NamesIn(q)
      BY <1>5 DEF NamesIn
    <2>1. CASE i \in 1 .. m
      BY <1>4, <1>6, <2>1 DEF NamesIn
    <2>2. CASE i \notin 1 .. m
      <3>1. i - m \in 1 .. n /\ m + (i - m) = i
        BY <2>2
      <3>2. (p \o q)[i] = q[i - m]
        BY <1>6, <3>1
      <3> QED BY <1>4, <3>1, <3>2 DEF NamesIn
    <2> QED BY <2>1, <2>2
  <1>8. NamesIn(p) \subseteq NamesIn(p \o q)
    <2> SUFFICES ASSUME NEW i \in 1 .. m PROVE p[i].gives \subseteq NamesIn(p \o q)
      BY <1>4 DEF NamesIn
    <2>1. i \in 1 .. m + n
      OBVIOUS
    <2>2. p[i] = (p \o q)[i]
      BY <1>6
    <2> QED BY <1>5, <2>1, <2>2 DEF NamesIn
  <1>9. NamesIn(q) \subseteq NamesIn(p \o q)
    <2> SUFFICES ASSUME NEW i \in 1 .. n PROVE q[i].gives \subseteq NamesIn(p \o q)
      BY <1>4 DEF NamesIn
    <2>1. m + i \in 1 .. m + n
      OBVIOUS
    <2>2. q[i] = (p \o q)[m + i]
      BY <1>6
    <2> QED BY <1>5, <2>1, <2>2 DEF NamesIn
  <1> QED BY <1>3, <1>7, <1>8, <1>9 DEF IsRun

LEMMA CollectIsRun ==
    ASSUME NEW os \in {"linux", "windows", "other"}, NEW c \in Known(os) \cup {Nobody}, NEW holding
    PROVE  IsRun(Collect(c, holding))
  <1>1. CASE c # <<"generic", "proto">>
    BY <1>1, CleanCollect, CleanIsRun
  <1>2. CASE c = <<"generic", "proto">>
    <2>1. \A a, b : IsRun(<<a>>) /\ IsRun(<<a, b>>)
      <3> SUFFICES ASSUME NEW a, NEW b PROVE IsRun(<<a>>) /\ IsRun(<<a, b>>)
        OBVIOUS
      <3>1. <<a>> \in Seq({a, b}) /\ <<a, b>> \in Seq({a, b})
        OBVIOUS
      <3> QED BY <3>1 DEF IsRun
    <2>2. /\ IsRun(GenericEmitIP) /\ IsRun(GenericEmitICMP) /\ IsRun(GenericEmitICMPMsg)
          /\ IsRun(GenericEmitTCP) /\ IsRun(GenericEmitUDP) /\ IsRun(GenericEmitUDPLite)
      BY <2>1 DEF GenericEmitIP, GenericEmitICMP, GenericEmitICMPMsg, GenericEmitTCP,
                  GenericEmitUDP, GenericEmitUDPLite
    <2>3. IsRun(GenericProto)
      BY <2>1, <2>2, RunThen DEF GenericProto
    <2> QED BY <1>2, <2>3 DEF Collect, GenericCollect
  <1> QED BY <1>1, <1>2

(* What disturbs a run adds no metric to it.                                 *)
LEMMA DisturbedRun ==
    ASSUME NEW os \in {"linux", "windows", "other"}, NEW c \in Known(os) \cup {Nobody},
           NEW set, NEW faults, faults \cap Settings(c) = {}
    PROVE  NamesIn(Collect(c, faults \cup set)) \subseteq NamesIn(Collect(c, set))
  <1>1. CASE c = Prom
    <2>1. ASSUME NEW url
          PROVE  /\ NamesIn(PromParse(url, faults \cup set)) \subseteq NamesIn(PromParse(url, set))
                 /\ IsRun(PromParse(url, set)) /\ IsRun(PromParse(url, faults \cup set))
      <3> DEFINE failed == {url \o " fails", url \o " times out", url \o " unparsable"}
                 body   == Step(failed, "skip", {url})
                 gauge  == NaN({"gauge of " \o url \o " not a number"}, {"gauge of " \o url})
      <3>1. \A holding : PromParse(url, holding) = IF failed \cap holding # {} THEN <<body>> ELSE <<body, gauge>>
        BY DEF PromParse
      <3> HIDE DEF failed, body, gauge
      <3>2. IsRun(<<body>>) /\ IsRun(<<body, gauge>>)
        <4>1. <<body>> \in Seq({body, gauge}) /\ <<body, gauge>> \in Seq({body, gauge})
          OBVIOUS
        <4> QED BY <4>1 DEF IsRun
      <3>3. NamesIn(<<body>>) \subseteq NamesIn(<<body, gauge>>)
        <4>1. \A i \in DOMAIN <<body>> : i \in DOMAIN <<body, gauge>> /\ <<body>>[i] = <<body, gauge>>[i]
          OBVIOUS
        <4> QED BY <4>1 DEF NamesIn
      <3>4. failed \cap set # {} => failed \cap (faults \cup set) # {}
        OBVIOUS
      <3> QED BY <3>1, <3>2, <3>3, <3>4
    <2>2. \A holding : Collect(c, holding) = PromParse("a", holding) \o PromParse("b", holding)
      BY <1>1 DEF Prom, Collect, PromCollect
    <2>3. \A holding \in {set, faults \cup set} :
            NamesIn(Collect(c, holding)) = NamesIn(PromParse("a", holding)) \cup NamesIn(PromParse("b", holding))
      BY <2>1, <2>2, RunThen
    <2> QED BY <2>1, <2>3
  <1>2. CASE c # Prom
    <2> SUFFICES Collect(c, faults \cup set) = Collect(c, set)
      OBVIOUS
    <2>1. CASE c \in {Gpu, Nobody}
      BY <2>1 DEF Gpu, Nobody, Collect
    <2>2. CASE \E n \in GenericNames : c = <<"generic", n>>
      BY <2>2 DEF Collect
    <2>3. CASE \E n \in ProcfsNames : c = <<"procfs", n>>
      <3>1. PICK n \in ProcfsNames : c = <<"procfs", n>>
        BY <2>3
      <3>2. ProcfsCollect(n, faults \cup set) = ProcfsCollect(n, set)
        <4>1. CASE n = "cpu"
          <5>1. "renamed" \notin faults
            BY <3>1, <4>1 DEF Settings
          <5> QED BY <4>1, <5>1 DEF ProcfsCollect, ProcfsCPU
        <4>2. CASE n = "disk"
          <5>1. "id is diskstats" \notin faults
            BY <3>1, <4>2 DEF Settings
          <5>2. MdMembers(faults \cup set) = MdMembers(set)
            BY <5>1 DEF MdMembers
          <5> QED BY <4>2, <5>2 DEF ProcfsCollect, ProcfsDisk
        <4>3. CASE n \notin {"cpu", "disk"}
          BY <4>3 DEF ProcfsCollect, ProcfsNames
        <4> QED BY <4>1, <4>2, <4>3
      <3> QED BY <3>1, <3>2 DEF Collect
    <2>4. CASE \E n \in WmiNames : c = <<"wmi", n>>
      <3>1. PICK n \in WmiNames : c = <<"wmi", n>>
        BY <2>4
      <3>2. WmiCollect(n, faults \cup set) = WmiCollect(n, set)
        <4>1. CASE n = "disk"
          <5>1. "logical off" \notin faults /\ "physical off" \notin faults
            BY <3>1, <4>1 DEF Settings
          <5>2. \A steps : Switched("logical off", steps, faults \cup set) = Switched("logical off", steps, set)
            BY <5>1 DEF Switched
          <5>3. \A steps : Switched("physical off", steps, faults \cup set) = Switched("physical off", steps, set)
            BY <5>1 DEF Switched
          <5> QED BY <4>1, <5>2, <5>3 DEF WmiCollect, WmiDisk
        <4>2. CASE n \in {"ip", "tcp", "udp"}
          <5>1. "ipv4 off" \notin faults /\ "ipv6 off" \notin faults
            BY <3>1, <4>2 DEF Settings
          <5>2. \A steps : Switched("ipv4 off", steps, faults \cup set) = Switched("ipv4 off", steps, set)
            BY <5>1 DEF Switched
          <5>3. \A steps : Switched("ipv6 off", steps, faults \cup set) = Switched("ipv6 off", steps, set)
            BY <5>1 DEF Switched
          <5> QED BY <4>2, <5>2, <5>3 DEF WmiCollect, WmiIP, WmiTCP, WmiUDP
        <4>3. CASE n \notin {"disk", "ip", "tcp", "udp"}
          BY <4>3 DEF WmiCollect, WmiNames
        <4> QED BY <4>1, <4>2, <4>3
      <3> QED BY <3>1, <3>2 DEF Collect
    <2> QED BY <1>2, <2>1, <2>2, <2>3, <2>4 DEF Known
  <1> QED BY <1>1, <1>2

LEMMA FaultsAreNoOptions ==
    ASSUME ConfigInv, NEW faults \in Disturbances
    PROVE  faults \cap Settings(watched) = {}
  <1>1. "context done" \notin Settings(watched)
    BY WatchedKnown, OptionsAreNoEnd
  <1>2. \A x \in Conditions(watched, Mine) : x \notin Settings(watched)
    BY DEF Conditions
  <1> QED BY <1>1, <1>2 DEF Disturbances

LEMMA OutcomeOfWatched ==
    ASSUME ConfigInv, NEW faults \in Disturbances
    PROVE  Outcome(Collect(watched, faults \cup Mine), faults \cup Mine).metrics \subseteq NamesOf(watched)
  <1>1. NamesIn(Collect(watched, faults \cup Mine)) \subseteq NamesIn(Collect(watched, Mine))
    BY WatchedKnown, FaultsAreNoOptions, DisturbedRun
  <1>2. IsRun(Collect(watched, faults \cup Mine))
    BY WatchedKnown, CollectIsRun
  <1>3. NamesOf(watched) = NamesIn(Collect(watched, Mine))
    BY DEF NamesOf, NamesIn
  <1> QED BY <1>1, <1>2, <1>3, OutcomeMetrics

KeptInv ==
    /\ last \subseteq NamesOf(watched)
    /\ calm \in BOOLEAN /\ running \in BOOLEAN /\ due \in BOOLEAN /\ ctxDone \in BOOLEAN
    /\ stale \in BOOLEAN /\ spoilt \in BOOLEAN /\ busy \in BOOLEAN

LEMMA InitKeptInv == ASSUME Init, ConfigInv PROVE KeptInv
  <1>1. Outcome(Collect(watched, Mine), Mine).metrics \subseteq NamesOf(watched)
    <2>1. IsRun(Collect(watched, Mine))
      BY WatchedKnown, CollectIsRun
    <2>2. NamesOf(watched) = NamesIn(Collect(watched, Mine))
      BY DEF NamesOf, NamesIn
    <2> QED BY <2>1, <2>2, OutcomeMetrics
  <1>2. last \subseteq NamesOf(watched)
    BY <1>1 DEF Init
  <1>3. /\ running = (watched = Gpu)
        /\ due = ~(watched = <<"procfs", "cpu">> /\ "run ttl" \in Mine)
        /\ calm = TRUE /\ ctxDone = FALSE /\ stale = FALSE /\ spoilt = FALSE /\ busy = FALSE
    BY DEF Init
  <1>4. running \in BOOLEAN /\ due \in BOOLEAN
    BY <1>3, Zenon
  <1> QED BY <1>2, <1>3, <1>4 DEF KeptInv

LEMMA NamesStay == ASSUME UNCHANGED config PROVE NamesOf(watched)' = NamesOf(watched)
  BY DEF NamesOf, Mine, config

LEMMA EndKeptInv ==
    ASSUME ConfigInv, KeptInv, NEW r \in Requests, End(r)
    PROVE  KeptInv'
  <1>1. PICK faults \in Disturbances :
          IF Outcome(Collect(watched, faults \cup Mine), faults \cup Mine).end = "left"
          THEN stale' = (last # {}) /\ UNCHANGED <<running, last, due, spoilt>>
          ELSE SetStatus(Outcome(Collect(watched, faults \cup Mine), faults \cup Mine))
    BY DEF End
  <1> DEFINE outcome == Outcome(Collect(watched, faults \cup Mine), faults \cup Mine)
  <1>2. outcome.metrics \subseteq NamesOf(watched)
    BY OutcomeOfWatched
  <1>3. outcome.spoilt \in BOOLEAN
    BY DEF Outcome
  <1>4. IF outcome.end = "left"
        THEN stale' = (last # {}) /\ UNCHANGED <<running, last, due, spoilt>>
        ELSE SetStatus(outcome)
    BY <1>1
  <1> HIDE DEF outcome
  <1>5. last' \subseteq NamesOf(watched)
    BY <1>2, <1>4 DEF SetStatus, KeptInv
  <1>6. running' \in BOOLEAN /\ stale' \in BOOLEAN
    BY <1>4 DEF SetStatus, KeptInv
  <1>7. due' \in BOOLEAN
    BY <1>4, Zenon DEF SetStatus, KeptInv
  <1>8. spoilt' \in BOOLEAN
    BY <1>3, <1>4, Zenon DEF SetStatus, KeptInv
  <1>9. UNCHANGED config /\ UNCHANGED <<calm, ctxDone, busy>>
    BY DEF End
  <1> QED BY <1>5, <1>6, <1>7, <1>8, <1>9, NamesStay DEF KeptInv

LEMMA GpuLineKeptInv == ASSUME ConfigInv, KeptInv, GpuLine PROVE KeptInv'
  <1>1. PICK faults \in Disturbances : last' = last \cup Outcome(GpuParse, faults).metrics
    BY DEF GpuLine
  <1>2. UNCHANGED config /\ UNCHANGED <<calm, ctxDone, running, due, stale, spoilt, busy>>
    BY DEF GpuLine
  <1>3. NamesOf(watched) = NamesIn(GpuParse)
    BY DEF GpuLine, NamesOf, NamesIn, Collect, Gpu
  <1>4. IsRun(GpuParse)
    BY CleanOthers, CleanIsRun
  <1>5. Outcome(GpuParse, faults).metrics \subseteq NamesOf(watched)
    BY <1>3, <1>4, OutcomeMetrics
  <1> QED BY <1>1, <1>2, <1>5, NamesStay DEF KeptInv

LEMMA NextKeptInv == ASSUME ConfigInv, KeptInv, [Next]_vars PROVE KeptInv'
  <1>0. NamesOf(watched)' = NamesOf(watched)
    BY ConfigStays, NamesStay
  <1>1. ASSUME NEW r \in Requests, Ask(r) \/ Progress(r) PROVE KeptInv'
    <2>1. CASE End(r)
      BY <2>1, EndKeptInv
    <2>2. CASE ~End(r)
      <3>1. last' = last \/ last' = {}
        BY <1>1, <2>2 DEF Progress, Ask, Pass, Run, RunDone, Refused, Enter, GpuCollect, Flush, state
      <3>2. UNCHANGED <<calm, ctxDone, due, stale, spoilt>>
        BY <1>1, <2>2 DEF Progress, Ask, Pass, Run, RunDone, Refused, Enter, GpuCollect, Flush, state
      <3>3. (running' = running \/ running' = TRUE) /\ (busy' = busy \/ busy' = TRUE \/ busy' = FALSE)
        BY <1>1, <2>2 DEF Progress, Ask, Pass, Run, RunDone, Refused, Enter, GpuCollect, Flush, state
      <3> QED BY <1>0, <3>1, <3>2, <3>3 DEF KeptInv
    <2> QED BY <2>1, <2>2
  <1>2. CASE GpuLine
    BY <1>2, GpuLineKeptInv
  <1>3. CASE GpuExit \/ TTLExpires \/ WorldChanges \/ Cancel \/ UNCHANGED vars
    BY <1>0, <1>3 DEF GpuExit, TTLExpires, WorldChanges, Cancel, state, vars, KeptInv
  <1> QED BY <1>1, <1>2, <1>3 DEF Next

(* The collector keeps metrics of its own, and a request is in one of the    *)
(* places of Builtins.Run, whatever disturbs the runs.                       *)
THEOREM TypeCorrect == Spec => []TypeOK
  <1>1. RunInv /\ ConfigInv /\ KeptInv => TypeOK
    BY DEF RunInv, ConfigInv, KeptInv, TypeOK
  <1>2. Init => KeptInv
    BY InitConfigInv, InitKeptInv
  <1> QED BY <1>1, <1>2, StatusHolds, NextKeptInv, PTL DEF Spec

-----------------------------------------------------------------------------
(* The precedence among the collectors of one id.                            *)

IdOf(c, set)        == Id(c, OptionsOf(c, set))
OneEach(built, set) == \A c, d \in built : IdOf(c, set) = IdOf(d, set) => c = d
ComesUp(c, set)     == OptionsOf(c, set) \cap Refusals(c) = {}

(* The id of c is served, by one of the platform's own if c is one.          *)
Serves(built, c, set) ==
    \E d \in built : IdOf(d, set) = IdOf(c, set) /\ (d[1] = "generic" => c[1] = "generic")

LEMMA GreatestExists ==
    ASSUME NEW n \in Nat, NEW N \in SUBSET (1 .. n), N # {}
    PROVE  \E i \in N : \A j \in N : j <= i
  <1> DEFINE M == {n - i : i \in N}
  <1>1. \A i \in N : i \in 1 .. n /\ n - i \in Nat
    OBVIOUS
  <1>2. M \in SUBSET Nat /\ M # {}
    BY <1>1
  <1>3. PICK m \in M : \A k \in M : m <= k
    BY <1>2, LeastExists
  <1>4. PICK i \in N : m = n - i
    OBVIOUS
  <1>5. \A j \in N : n - i <= n - j
    BY <1>3, <1>4
  <1> QED BY <1>1, <1>5

(* What came up of a list keeps its place there.                             *)
Listed(built) == \E n \in Nat : DOMAIN built \subseteq 1 .. n

(* Of the collectors of a package that came up the last of an id serves it.  *)
LEMMA PlacedServes ==
    ASSUME NEW built, Listed(built), NEW set
    PROVE  /\ \A c \in Placed(built, set) : \E i \in DOMAIN built : c = built[i]
           /\ OneEach(Placed(built, set), set)
           /\ \A i \in DOMAIN built : \E d \in Placed(built, set) : IdOf(d, set) = IdOf(built[i], set)
  <1> DEFINE latest(j) == \A k \in DOMAIN built : k > j => IdOf(built[k], set) # IdOf(built[j], set)
             P == {j \in DOMAIN built : latest(j)}
  <1>1. Placed(built, set) = {built[i] : i \in P}
    BY DEF Placed, IdOf
  <1>2. PICK n \in Nat : DOMAIN built \subseteq 1 .. n
    BY DEF Listed
  <1>3. \A i, j \in P : IdOf(built[i], set) = IdOf(built[j], set) => i = j
    <2> SUFFICES ASSUME NEW i \in P, NEW j \in P, IdOf(built[i], set) = IdOf(built[j], set)
                 PROVE  i = j
      OBVIOUS
    <2>1. i \in Nat /\ j \in Nat
      BY <1>2
    <2>2. ~(i > j) /\ ~(j > i)
      OBVIOUS
    <2> QED BY <2>1, <2>2
  <1>4. \A i \in DOMAIN built : \E j \in P : IdOf(built[j], set) = IdOf(built[i], set)
    <2> SUFFICES ASSUME NEW i \in DOMAIN built
                 PROVE  \E j \in P : IdOf(built[j], set) = IdOf(built[i], set)
      OBVIOUS
    <2> DEFINE E == {j \in DOMAIN built : IdOf(built[j], set) = IdOf(built[i], set)}
    <2>1. E \in SUBSET (1 .. n) /\ E # {}
      BY <1>2
    <2>2. PICK j \in E : \A k \in E : k <= j
      <3> HIDE DEF E
      <3> QED BY <2>1, GreatestExists
    <2>3. j \in Nat /\ \A k \in DOMAIN built : k \in Nat
      BY <1>2
    <2>4. latest(j)
      BY <2>2, <2>3
    <2> QED BY <2>4
  <1> QED BY <1>1, <1>3, <1>4 DEF OneEach

(* Of the generic ones the first of an id that is free serves it.            *)
LEMMA FillingServes ==
    ASSUME NEW built, Listed(built), NEW taken, NEW set
    PROVE  /\ \A c \in Filling(built, taken, set) :
                IdOf(c, set) \notin taken /\ \E i \in DOMAIN built : c = built[i]
           /\ OneEach(Filling(built, taken, set), set)
           /\ \A i \in DOMAIN built : IdOf(built[i], set) \notin taken =>
                \E d \in Filling(built, taken, set) : IdOf(d, set) = IdOf(built[i], set)
  <1> DEFINE first(j) == \A k \in DOMAIN built : k < j => IdOf(built[k], set) # IdOf(built[j], set)
             P == {j \in DOMAIN built : IdOf(built[j], set) \notin taken /\ first(j)}
  <1>1. Filling(built, taken, set) = {built[i] : i \in P}
    BY DEF Filling, IdOf
  <1>2. PICK n \in Nat : DOMAIN built \subseteq 1 .. n
    BY DEF Listed
  <1>3. \A i, j \in P : IdOf(built[i], set) = IdOf(built[j], set) => i = j
    <2> SUFFICES ASSUME NEW i \in P, NEW j \in P, IdOf(built[i], set) = IdOf(built[j], set)
                 PROVE  i = j
      OBVIOUS
    <2>1. i \in Nat /\ j \in Nat
      BY <1>2
    <2>2. ~(i < j) /\ ~(j < i)
      OBVIOUS
    <2> QED BY <2>1, <2>2
  <1>4. ASSUME NEW i \in DOMAIN built, IdOf(built[i], set) \notin taken
        PROVE  \E j \in P : IdOf(built[j], set) = IdOf(built[i], set)
    <2> DEFINE E == {j \in DOMAIN built : IdOf(built[j], set) = IdOf(built[i], set)}
    <2>1. E \in SUBSET Nat /\ E # {}
      BY <1>2
    <2>2. PICK j \in E : \A k \in E : j <= k
      <3> HIDE DEF E
      <3> QED BY <2>1, LeastExists
    <2>3. j \in Nat /\ \A k \in DOMAIN built : k \in Nat
      BY <1>2
    <2>4. first(j) /\ IdOf(built[j], set) \notin taken
      BY <1>4, <2>2, <2>3
    <2> QED BY <2>4
  <1> QED BY <1>1, <1>3, <1>4 DEF OneEach

LEMMA IdsApart ==
    ASSUME NEW os, NEW list, NEW set, Configured(os, list, set)
    PROVE  /\ IdOf(Gpu, set) = "gpu" /\ IdOf(Prom, set) = "prom"
           /\ \A c \in Known(os) : c[1] \in {"generic", "wmi", "procfs"} =>
                IdOf(c, set) # "gpu" /\ IdOf(c, set) # "prom"
  <1>1. \A c : OptionsOf(c, set) \subseteq Refusals(c) \cup Settings(c)
    BY DEF Configured, OptionsOf
  <1>2. "renamed" \notin OptionsOf(Gpu, set) /\ "id is diskstats" \notin OptionsOf(Gpu, set)
    <2>1. Refusals(Gpu) = NewGpu /\ Settings(Gpu) = {}
      BY DEF Refusals, Settings, Excluding, Gpu
    <2> QED BY <1>1, <2>1 DEF NewGpu
  <1>3. "renamed" \notin OptionsOf(Prom, set) /\ "id is diskstats" \notin OptionsOf(Prom, set)
    <2>1. Refusals(Prom) = NewProm /\ Settings(Prom) = {"run ttl"}
      BY DEF Refusals, Settings, Excluding, Prom, Gpu
    <2> QED BY <1>1, <2>1 DEF NewProm
  <1>4. IdOf(Gpu, set) = "gpu"
    BY <1>2 DEF IdOf, Id, Gpu
  <1>5. IdOf(Prom, set) = "prom"
    BY <1>3 DEF IdOf, Id, Prom
  <1>6. ASSUME NEW c \in Known(os), c[1] \in {"generic", "wmi", "procfs"}
        PROVE  IdOf(c, set) # "gpu" /\ IdOf(c, set) # "prom"
    <2>1. c[2] # "gpu" /\ c[2] # "prom"
      BY <1>6 DEF Known, GenericNames, ProcfsNames, WmiNames, Gpu, Prom
    <2> QED BY <2>1 DEF IdOf, Id
  <1> QED BY <1>4, <1>5, <1>6

(* The collectors of a platform, without the prometheus collector.           *)
Own(os, list, set) ==
    CASE os = "linux"   -> ConfigureLinux(list, set)
      [] os = "windows" -> ConfigureWindows(list, set)
      [] OTHER          -> Configure(list, set)

(* What came up of a package.                                                *)
Package(package, list, set) == [i \in ComingUp(package, list, set) |-> list[i]]

LEMMA PackageIs ==
    ASSUME NEW list, IsRun(list), NEW set, NEW package
    PROVE  /\ Listed(Package(package, list, set))
           /\ \A i \in DOMAIN Package(package, list, set) :
                /\ Package(package, list, set)[i] \in Elements(list)
                /\ Package(package, list, set)[i][1] = package
           /\ \A c \in Elements(list) : ComesUp(c, set) /\ c[1] = package
                => \E i \in DOMAIN Package(package, list, set) : c = Package(package, list, set)[i]
  <1>1. DOMAIN Package(package, list, set) = ComingUp(package, list, set)
    BY DEF Package
  <1>2. \A i \in ComingUp(package, list, set) : Package(package, list, set)[i] = list[i]
    BY DEF Package
  <1>3. PICK n \in Nat : DOMAIN list = 1 .. n
    BY DEF IsRun
  <1>4. \A i \in ComingUp(package, list, set) : i \in 1 .. n /\ list[i] \in Elements(list) /\ list[i][1] = package
    BY <1>3 DEF ComingUp, Elements
  <1>5. \A c \in Elements(list) : ComesUp(c, set) /\ c[1] = package
          => \E i \in ComingUp(package, list, set) : c = list[i]
    BY DEF ComingUp, Elements, ComesUp
  <1>6. Listed(Package(package, list, set))
    BY <1>1, <1>4 DEF Listed
  <1> QED BY <1>1, <1>2, <1>4, <1>5, <1>6

(* The last of a package and the first generic one of an id that is free.    *)
LEMMA PackageServes ==
    ASSUME NEW list, IsRun(list), NEW set, NEW package
    PROVE  /\ \A c \in Placed(Package(package, list, set), set) : c \in Elements(list) /\ c[1] = package
           /\ \A c \in Placed(Package(package, list, set), set) :
                IdOf(c, set) \in Ids(Package(package, list, set), set)
           /\ OneEach(Placed(Package(package, list, set), set), set)
           /\ \A x \in Ids(Package(package, list, set), set) :
                \E d \in Placed(Package(package, list, set), set) : IdOf(d, set) = x
           /\ \A c \in Elements(list) : ComesUp(c, set) /\ c[1] = package
                => IdOf(c, set) \in Ids(Package(package, list, set), set)
  <1> DEFINE built == Package(package, list, set)
  <1>1. Ids(built, set) = {IdOf(built[i], set) : i \in DOMAIN built}
    BY DEF Ids, IdOf
  <1>2. /\ Listed(built)
        /\ \A i \in DOMAIN built : built[i] \in Elements(list) /\ built[i][1] = package
        /\ \A c \in Elements(list) : ComesUp(c, set) /\ c[1] = package => \E i \in DOMAIN built : c = built[i]
    BY PackageIs
  <1> HIDE DEF built
  <1>3. /\ \A c \in Placed(built, set) : \E i \in DOMAIN built : c = built[i]
        /\ OneEach(Placed(built, set), set)
        /\ \A i \in DOMAIN built : \E d \in Placed(built, set) : IdOf(d, set) = IdOf(built[i], set)
    BY <1>2, PlacedServes
  <1>4. \A c \in Placed(built, set) : c \in Elements(list) /\ c[1] = package /\ IdOf(c, set) \in Ids(built, set)
    BY <1>1, <1>2, <1>3
  <1>5. \A x \in Ids(built, set) : \E d \in Placed(built, set) : IdOf(d, set) = x
    BY <1>1, <1>3
  <1>6. \A c \in Elements(list) : ComesUp(c, set) /\ c[1] = package => IdOf(c, set) \in Ids(built, set)
    BY <1>1, <1>2
  <1> QED BY <1>3, <1>4, <1>5, <1>6 DEF built

LEMMA GenericServes ==
    ASSUME NEW list, IsRun(list), NEW set, NEW taken
    PROVE  /\ \A c \in Filling(GenericNew(list, set), taken, set) :
                c \in Elements(list) /\ c[1] = "generic" /\ IdOf(c, set) \notin taken
           /\ OneEach(Filling(GenericNew(list, set), taken, set), set)
           /\ \A c \in Elements(list) :
                ComesUp(c, set) /\ c[1] = "generic" /\ IdOf(c, set) \notin taken
                => Serves(Filling(GenericNew(list, set), taken, set), c, set)
  <1> DEFINE built == Package("generic", list, set)
  <1>1. GenericNew(list, set) = built
    BY DEF GenericNew, Package
  <1>2. /\ Listed(built)
        /\ \A i \in DOMAIN built : built[i] \in Elements(list) /\ built[i][1] = "generic"
        /\ \A c \in Elements(list) : ComesUp(c, set) /\ c[1] = "generic" => \E i \in DOMAIN built : c = built[i]
    BY PackageIs
  <1> HIDE DEF built
  <1>3. /\ \A c \in Filling(built, taken, set) :
             IdOf(c, set) \notin taken /\ \E i \in DOMAIN built : c = built[i]
        /\ OneEach(Filling(built, taken, set), set)
        /\ \A i \in DOMAIN built : IdOf(built[i], set) \notin taken =>
             \E d \in Filling(built, taken, set) : IdOf(d, set) = IdOf(built[i], set)
    BY <1>2, FillingServes
  <1>4. \A c \in Filling(built, taken, set) : c \in Elements(list) /\ c[1] = "generic" /\ IdOf(c, set) \notin taken
    BY <1>2, <1>3
  <1>5. ASSUME NEW c \in Elements(list), ComesUp(c, set), c[1] = "generic", IdOf(c, set) \notin taken
        PROVE  Serves(Filling(built, taken, set), c, set)
    BY <1>2, <1>3, <1>5 DEF Serves
  <1> QED BY <1>1, <1>3, <1>4, <1>5

(* A native package with the generic collectors beside it.                   *)
LEMMA OwnLinux ==
    ASSUME NEW list, IsRun(list), NEW set,
           \A c \in Elements(list) : c # Prom => c[1] \in {"procfs", "generic"}
    PROVE  /\ \A c \in Own("linux", list, set) : c \in Elements(list) /\ c[1] \in {"procfs", "generic"}
           /\ OneEach(Own("linux", list, set), set)
           /\ \A c \in Elements(list) : ComesUp(c, set) /\ c # Prom => Serves(Own("linux", list, set), c, set)
  <1> DEFINE built  == Package("procfs", list, set)
             placed == Placed(built, set)
             filled == Filling(GenericNew(list, set), Ids(built, set), set)
  <1>1. Own("linux", list, set) = placed \cup filled
    BY DEF Own, ConfigureLinux, ProcfsNew, Package
  <1>2. /\ \A c \in placed : c \in Elements(list) /\ c[1] = "procfs" /\ IdOf(c, set) \in Ids(built, set)
        /\ OneEach(placed, set)
        /\ \A x \in Ids(built, set) : \E d \in placed : IdOf(d, set) = x
        /\ \A c \in Elements(list) : ComesUp(c, set) /\ c[1] = "procfs" => IdOf(c, set) \in Ids(built, set)
    BY PackageServes
  <1>3. /\ \A c \in filled : c \in Elements(list) /\ c[1] = "generic" /\ IdOf(c, set) \notin Ids(built, set)
        /\ OneEach(filled, set)
        /\ \A c \in Elements(list) :
             ComesUp(c, set) /\ c[1] = "generic" /\ IdOf(c, set) \notin Ids(built, set)
             => Serves(filled, c, set)
    BY GenericServes
  <1> HIDE DEF built, placed, filled
  <1>4. OneEach(placed \cup filled, set)
    BY <1>2, <1>3 DEF OneEach
  <1>5. ASSUME NEW c \in Elements(list), ComesUp(c, set), c # Prom PROVE Serves(placed \cup filled, c, set)
    <2>1. CASE IdOf(c, set) \in Ids(built, set)
      BY <1>2, <2>1 DEF Serves
    <2>2. CASE IdOf(c, set) \notin Ids(built, set)
      <3>1. c[1] = "generic"
        BY <1>2, <1>5, <2>2
      <3> QED BY <1>3, <1>5, <2>2, <3>1 DEF Serves
    <2> QED BY <2>1, <2>2
  <1> QED BY <1>1, <1>2, <1>3, <1>4, <1>5

(* The collector of the gpu, whose id is no other's, stands between them.    *)
LEMMA OwnWindows ==
    ASSUME NEW list, IsRun(list), NEW set,
           \A c \in Elements(list) : c # Prom =>
             \/ c[1] \in {"wmi", "generic"} /\ IdOf(c, set) # "gpu"
             \/ c = Gpu /\ IdOf(c, set) = "gpu"
    PROVE  /\ \A c \in Own("windows", list, set) : c \in Elements(list) /\ c[1] \in {"wmi", "nvidia", "generic"}
           /\ OneEach(Own("windows", list, set), set)
           /\ \A c \in Elements(list) : ComesUp(c, set) /\ c # Prom => Serves(Own("windows", list, set), c, set)
  <1> DEFINE wmi    == Package("wmi", list, set)
             gpu    == Package("nvidia", list, set)
             first  == Placed(wmi, set)
             second == Placed(gpu, set)
             taken  == Ids(wmi, set) \cup Ids(gpu, set)
             filled == Filling(GenericNew(list, set), taken, set)
  <1>1. Own("windows", list, set) = first \cup second \cup filled
    BY DEF Own, ConfigureWindows, WmiNew, GpuNew, Package
  <1>2. /\ \A c \in first : c \in Elements(list) /\ c[1] = "wmi" /\ IdOf(c, set) \in Ids(wmi, set)
        /\ OneEach(first, set)
        /\ \A x \in Ids(wmi, set) : \E d \in first : IdOf(d, set) = x
        /\ \A c \in Elements(list) : ComesUp(c, set) /\ c[1] = "wmi" => IdOf(c, set) \in Ids(wmi, set)
    BY PackageServes
  <1>3. /\ \A c \in second : c \in Elements(list) /\ c[1] = "nvidia" /\ IdOf(c, set) \in Ids(gpu, set)
        /\ OneEach(second, set)
        /\ \A x \in Ids(gpu, set) : \E d \in second : IdOf(d, set) = x
        /\ \A c \in Elements(list) : ComesUp(c, set) /\ c[1] = "nvidia" => IdOf(c, set) \in Ids(gpu, set)
    BY PackageServes
  <1>4. /\ \A c \in filled : c \in Elements(list) /\ c[1] = "generic" /\ IdOf(c, set) \notin taken
        /\ OneEach(filled, set)
        /\ \A c \in Elements(list) :
             ComesUp(c, set) /\ c[1] = "generic" /\ IdOf(c, set) \notin taken => Serves(filled, c, set)
    BY GenericServes
  <1>5. \A x : x \in taken <=> x \in Ids(wmi, set) \/ x \in Ids(gpu, set)
    OBVIOUS
  <1> HIDE DEF wmi, gpu, first, second, taken, filled
  <1>6. /\ \A c \in first : IdOf(c, set) # "gpu"
        /\ \A c \in second : c = Gpu
    BY <1>2, <1>3 DEF Gpu, Prom
  <1>7. OneEach(first \cup second \cup filled, set)
    <2>1. \A c \in first, d \in second : IdOf(c, set) # IdOf(d, set)
      BY <1>2, <1>3, <1>6 DEF Gpu, Prom
    <2> QED BY <1>2, <1>3, <1>4, <1>5, <2>1 DEF OneEach
  <1>8. ASSUME NEW c \in Elements(list), ComesUp(c, set), c # Prom
        PROVE  Serves(first \cup second \cup filled, c, set)
    <2>1. CASE IdOf(c, set) \in Ids(wmi, set)
      BY <1>2, <2>1 DEF Serves
    <2>2. CASE IdOf(c, set) \in Ids(gpu, set)
      BY <1>3, <2>2 DEF Serves
    <2>3. CASE IdOf(c, set) \notin taken
      <3>1. c[1] = "generic"
        BY <1>2, <1>3, <1>5, <1>8, <2>3 DEF Gpu
      <3> QED BY <1>4, <1>8, <2>3, <3>1 DEF Serves
    <2> QED BY <1>5, <2>1, <2>2, <2>3
  <1> QED BY <1>1, <1>2, <1>3, <1>4, <1>7, <1>8

LEMMA OwnOther ==
    ASSUME NEW list, IsRun(list), NEW set,
           \A c \in Elements(list) : c # Prom => c[1] = "generic"
    PROVE  /\ \A c \in Own("other", list, set) : c \in Elements(list) /\ c[1] = "generic"
           /\ OneEach(Own("other", list, set), set)
           /\ \A c \in Elements(list) : ComesUp(c, set) /\ c # Prom => Serves(Own("other", list, set), c, set)
  <1> DEFINE built  == Package("generic", list, set)
             placed == Placed(built, set)
  <1>1. Own("other", list, set) = placed
    BY DEF Own, Configure, GenericNew, Package
  <1>2. /\ \A c \in placed : c \in Elements(list) /\ c[1] = "generic"
        /\ OneEach(placed, set)
        /\ \A x \in Ids(built, set) : \E d \in placed : IdOf(d, set) = x
        /\ \A c \in Elements(list) : ComesUp(c, set) /\ c[1] = "generic" => IdOf(c, set) \in Ids(built, set)
    BY PackageServes
  <1> HIDE DEF built, placed
  <1> QED BY <1>1, <1>2 DEF Serves

LEMMA OwnServes ==
    ASSUME NEW os, NEW list, NEW set, Configured(os, list, set)
    PROVE  /\ \A c \in Own(os, list, set) : c \in Elements(list) /\ IdOf(c, set) # "prom"
           /\ OneEach(Own(os, list, set), set)
           /\ \A c \in Elements(list) : ComesUp(c, set) /\ c # Prom => Serves(Own(os, list, set), c, set)
  <1>1. IsRun(list) /\ \A c \in Elements(list) : c \in Known(os)
    BY ElementsKnown DEF Configured, IsRun
  <1>2. \A c \in Elements(list) : c[1] \in {"generic", "wmi", "procfs"} => IdOf(c, set) \notin {"gpu", "prom"}
    BY <1>1, IdsApart
  <1>3. CASE os = "linux"
    <2>1. \A c \in Elements(list) : c # Prom => c[1] \in {"procfs", "generic"}
      BY <1>1, <1>3 DEF Known
    <2> QED BY <1>1, <1>2, <1>3, <2>1, OwnLinux
  <1>4. CASE os = "windows"
    <2>1. ASSUME NEW c \in Elements(list), c # Prom
          PROVE  \/ c[1] \in {"wmi", "generic"} /\ IdOf(c, set) # "gpu"
                 \/ c = Gpu /\ IdOf(c, set) = "gpu"
      <3>1. c[1] \in {"wmi", "generic"} \/ c = Gpu
        BY <1>1, <1>4, <2>1 DEF Known
      <3>2. IdOf(Gpu, set) = "gpu"
        BY IdsApart
      <3>3. CASE c[1] \in {"wmi", "generic"}
        BY <1>2, <3>3
      <3>4. CASE c = Gpu
        BY <3>2, <3>4
      <3> QED BY <3>1, <3>3, <3>4
    <2>2. /\ \A c \in Own(os, list, set) : c \in Elements(list) /\ c[1] \in {"wmi", "nvidia", "generic"}
          /\ OneEach(Own(os, list, set), set)
          /\ \A c \in Elements(list) : ComesUp(c, set) /\ c # Prom => Serves(Own(os, list, set), c, set)
      BY <1>1, <1>4, <2>1, OwnWindows
    <2>3. \A c \in Elements(list) : c[1] = "nvidia" => IdOf(c, set) # "prom"
      BY <2>1 DEF Prom
    <2> QED BY <1>2, <2>2, <2>3
  <1>5. CASE os = "other"
    <2>1. \A c \in Elements(list) : c # Prom => c[1] = "generic"
      BY <1>1, <1>5 DEF Known
    <2> QED BY <1>1, <1>2, <1>5, <2>1, OwnOther
  <1> QED BY <1>3, <1>4, <1>5 DEF Configured

(* The prometheus collector comes on top.                                    *)
LEMMA ConfigPrecedence == ASSUME ConfigInv PROVE Precedence
  <1> DEFINE own  == Own(platform, enabled, options)
             more == {c \in {Prom} : c \in Elements(enabled) /\ OptionsOf(c, options) \cap NewProm = {}}
             built == New(platform, enabled, options)
  <1>1. Configured(platform, enabled, options)
    BY DEF ConfigInv
  <1>2. built = own \cup more
    BY DEF New, Own
  <1>3. /\ \A c \in own : c \in Elements(enabled) /\ IdOf(c, options) # "prom"
        /\ OneEach(own, options)
        /\ \A c \in Elements(enabled) : ComesUp(c, options) /\ c # Prom => Serves(own, c, options)
    BY <1>1, OwnServes
  <1>4. IdOf(Prom, options) = "prom"
    BY <1>1, IdsApart
  <1>5. /\ \A c \in more : c = Prom
        /\ Prom \in Elements(enabled) /\ ComesUp(Prom, options) => Prom \in more
    BY DEF ComesUp, Refusals, Prom
  <1> HIDE DEF own, more
  <1>6. OneEach(own \cup more, options)
    BY <1>3, <1>4, <1>5 DEF OneEach
  <1>7. ASSUME NEW c \in Elements(enabled), ComesUp(c, options) PROVE Serves(own \cup more, c, options)
    <2>1. CASE c = Prom
      BY <1>5, <1>7, <2>1 DEF Serves, Prom
    <2>2. CASE c # Prom
      BY <1>3, <1>7, <2>2 DEF Serves
    <2> QED BY <2>1, <2>2
  <1>8. OneEach(built, options) /\ \A c \in Elements(enabled) : ComesUp(c, options) => Serves(built, c, options)
    BY <1>2, <1>6, <1>7
  <1> HIDE DEF built
  <1> QED BY <1>8 DEF built, Precedence, OneEach, Serves, ComesUp, IdOf

(* Whatever is enabled and whatever refuses to come up: one collector serves *)
(* an id, and the platform's own come before the generic ones.               *)
THEOREM PrecedenceHolds == Spec => []Precedence
  BY StatusHolds, ConfigPrecedence, PTL
=============================================================================
