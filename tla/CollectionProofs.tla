-------------------------- MODULE CollectionProofs --------------------------
(* Theorems about Collection, for any requests, plugins, collectors and      *)
(* numbers of lines.                                                         *)
EXTENDS Collection, TLAPS

(* An exec is a caller and a plugin.                                         *)
LEMMA ExecPairs ==
    \A c, d \in Callers, p, q \in Plugins :
        <<c, p>> \in Execs /\ (<<c, p>> = <<d, q>> <=> c = d /\ p = q)
  BY DEF Execs

LEMMA GotoPlace ==
    ASSUME PluginTypeOK, NEW c \in Callers, NEW p \in Plugins,
           NEW place \in {"none", "enter", "start", "scan", "wait", "done"}, Goto(c, p, place)
    PROVE  /\ at' \in [Execs -> {"none", "enter", "start", "scan", "wait", "done"}]
           /\ \A d \in Callers, q \in Plugins :
                at'[<<d, q>>] = IF d = c /\ q = p THEN place ELSE at[<<d, q>>]
  BY ExecPairs DEF PluginTypeOK, Goto

-----------------------------------------------------------------------------
(* The types of the plugins' variables.                                      *)

LEMMA InitPluginType == ASSUME Init PROVE PluginTypeOK
  <1>1. at \in [Execs -> {"none", "enter", "start", "scan", "wait", "done"}]
    BY DEF Init, PluginInit
  <1>2. 0 \in 0 .. MaxLines + 1 /\ 0 \in 0 .. MaxLines
    BY PluginAssumption DEF PluginAssumption
  <1> QED BY <1>1, <1>2 DEF Init, PluginInit, PluginTypeOK

(* A batch that is published is one the plugin printed.                      *)
LEMMA PublishType ==
    ASSUME PluginTypeOK, NEW p \in Plugins, NEW batch \in SUBSET (1 .. MaxLines),
           Publish(p, batch)
    PROVE  /\ published' \in [Plugins -> BOOLEAN]
           /\ metrics' \in [Plugins -> SUBSET (1 .. MaxLines)]
           /\ \A q \in Plugins : metrics'[q] = IF q = p THEN batch ELSE metrics[q]
  BY DEF PluginTypeOK, Publish

LEMMA ResetStatusType ==
    ASSUME PluginTypeOK, NEW p \in Plugins, ResetStatus(p)
    PROVE  /\ running' \in [Plugins -> BOOLEAN]
           /\ unexpired' \in [Plugins -> BOOLEAN]
           /\ \A q \in Plugins : running'[q] = IF q = p THEN FALSE ELSE running[q]
  BY DEF PluginTypeOK, ResetStatus

LEMMA ExecStepType ==
    ASSUME PluginTypeOK, NEW c \in Callers, NEW p \in Plugins, ExecStep(c, p) \/ ParseRest(c, p)
    PROVE  PluginTypeOK'
  <1>0. lines[<<c, p>>] \in SUBSET (1 .. MaxLines) /\ {} \in SUBSET (1 .. MaxLines)
    BY ExecPairs DEF PluginTypeOK
  <1>1. CASE TTLNotExpired(c, p) \/ AlreadyRunning(c, p)
    BY <1>1, GotoPlace DEF TTLNotExpired, AlreadyRunning, PluginTypeOK, pluginVars
  <1>2. CASE Enter(c, p)
    BY <1>2, GotoPlace DEF Enter, PluginTypeOK
  <1>3. CASE StartFails(c, p)
    BY <1>3, GotoPlace, ResetStatusType DEF StartFails, PluginTypeOK
  <1>4. CASE Start(c, p)
    <2>1. emitted[p] + 1 \in 0 .. MaxLines + 1
      BY PluginAssumption DEF PluginAssumption, PluginTypeOK
    <2>2. first' \in [Execs -> 0 .. MaxLines + 1]
      BY <1>4, <2>1 DEF Start, PluginTypeOK
    <2> QED
      BY <1>4, <2>2, GotoPlace DEF Start, PluginTypeOK, pluginVars
  <1>5. CASE ParseRest(c, p)
    <2>1. lines' \in [Execs -> SUBSET (1 .. MaxLines)]
      BY <1>0, <1>5 DEF ParseRest, PluginTypeOK
    <2>2. /\ published' \in [Plugins -> BOOLEAN]
          /\ metrics' \in [Plugins -> SUBSET (1 .. MaxLines)]
      BY <1>0, <1>5, PublishType DEF ParseRest
    <2> QED
      BY <1>5, <2>1, <2>2, GotoPlace DEF ParseRest, PluginTypeOK
  <1>6. CASE Wait(c, p)
    BY <1>6, GotoPlace, ResetStatusType DEF Wait, PluginTypeOK
  <1> QED BY <1>1, <1>2, <1>3, <1>4, <1>5, <1>6 DEF ExecStep

LEMMA ProcessStepType ==
    ASSUME PluginTypeOK, NEW c \in Callers, NEW p \in Plugins, ProcessStep(c, p) \/ Kill(c, p)
    PROVE  PluginTypeOK'
  <1>0. lines[<<c, p>>] \in SUBSET (1 .. MaxLines) /\ {} \in SUBSET (1 .. MaxLines)
    BY ExecPairs DEF PluginTypeOK
  <1>1. CASE Line(c, p)
    <2>1. emitted[p] + 1 \in 1 .. MaxLines
      BY <1>1, PluginAssumption DEF PluginAssumption, PluginTypeOK, Line
    <2>2. emitted' \in [Plugins -> 0 .. MaxLines]
      BY <1>1, <2>1 DEF Line, PluginTypeOK
    <2>3. lines' \in [Execs -> SUBSET (1 .. MaxLines)]
      BY <1>0, <1>1, <2>1 DEF Line, PluginTypeOK
    <2> QED BY <1>1, <2>2, <2>3 DEF Line, PluginTypeOK, pluginVars
  <1>2. CASE Blank(c, p)
    <2>1. lines' \in [Execs -> SUBSET (1 .. MaxLines)]
      BY <1>0, <1>2 DEF Blank, PluginTypeOK
    <2>2. /\ published' \in [Plugins -> BOOLEAN]
          /\ metrics' \in [Plugins -> SUBSET (1 .. MaxLines)]
      BY <1>0, <1>2, PublishType DEF Blank
    <2> QED
      BY <1>2, <2>1, <2>2 DEF Blank, PluginTypeOK
  <1>3. CASE Exit(c, p)
    BY <1>3 DEF Exit, PluginTypeOK, pluginVars
  <1> QED BY <1>1, <1>2, <1>3, ExecStepType DEF ProcessStep, Kill

LEMMA DrainType == ASSUME PluginTypeOK, NEW p \in Plugins, Drain(p), UNCHANGED <<ctxDone, execVars>>
                   PROVE PluginTypeOK'
  <1>1. Drained(p) \in SUBSET (1 .. MaxLines)
    BY DEF Drained, PluginTypeOK
  <1> QED BY <1>1 DEF Drain, PluginTypeOK, execVars

LEMMA AskType == ASSUME PluginTypeOK, NEW r \in Requests, Ask(r) PROVE PluginTypeOK'
  BY DEF Ask, PluginTypeOK, pluginVars

(* The steps of requests and collectors leave the plugins alone.             *)
LEMMA PluginsKeptType == ASSUME PluginTypeOK, UNCHANGED <<pluginVars, execVars>>, ctxDone' \in BOOLEAN
                         PROVE PluginTypeOK'
  BY DEF PluginTypeOK, pluginVars, execVars

LEMMA NextPluginType == ASSUME PluginTypeOK, [Next]_vars PROVE PluginTypeOK'
  <1>1. ASSUME NEW r \in Requests, Ask(r) PROVE PluginTypeOK'
    BY <1>1, AskType
  <1>2. ASSUME NEW r \in Requests, RequestStep(r) PROVE PluginTypeOK'
    <2>1. ASSUME NEW p \in Plugins, FlushPlugin(r, p) PROVE PluginTypeOK'
      BY <2>1, DrainType DEF FlushPlugin
    <2>2. CASE \E p \in Plugins : FlushPlugin(r, p)
      BY <2>1, <2>2
    <2>3. CASE ~ \E p \in Plugins : FlushPlugin(r, p)
      <3>1. UNCHANGED <<ctxDone, pluginVars, execVars>>
        BY <1>2, <2>3
        DEF RequestStep, PluginsDone, SkipBuiltins, RunBuiltins, BuiltinsDone,
            FlushCollector, Answer
      <3> QED BY <3>1, PluginsKeptType DEF PluginTypeOK
    <2> QED BY <2>2, <2>3
  <1>3. ASSUME NEW c \in Callers, NEW p \in Plugins,
               PluginStep(c, p) \/ Killed(c, p) \/ ProcessStep(c, p)
        PROVE  PluginTypeOK'
    BY <1>3, ExecStepType, ProcessStepType DEF PluginStep, Killed
  <1>4. ASSUME NEW p \in Plugins, TTLExpires(p) PROVE PluginTypeOK'
    BY <1>4 DEF TTLExpires, PluginTypeOK, execVars
  <1>5. ASSUME NEW r \in Requests, NEW k \in Collectors, CollectStep(r, k) PROVE PluginTypeOK'
    <2>1. UNCHANGED <<ctxDone, pluginVars, execVars>>
      BY <1>5
      DEF CollectStep, CollectRefused, CollectEnter, Collected, CollectFails,
          CollectAbandoned, SetStatus, CollectOnly
    <2> QED BY <2>1, PluginsKeptType DEF PluginTypeOK
  <1>6. CASE Cancel
    BY <1>6, PluginsKeptType DEF Cancel
  <1>7. CASE UNCHANGED vars
    BY <1>7, PluginsKeptType DEF vars, PluginTypeOK
  <1> QED BY <1>1, <1>2, <1>3, <1>4, <1>5, <1>6, <1>7 DEF Next

-----------------------------------------------------------------------------
(* A request that was not made runs nothing; lines are held in "scan" only,  *)
(* and no number is handed out before its line is printed.                   *)

NotAsked == \A r \in Requests, p \in Plugins : asked[r] = scan => at[<<r, p>>] = "none"

HeldInScan ==
    \A c \in Callers, p \in Plugins : lines[<<c, p>>] # {} => at[<<c, p>>] = "scan"

Printed ==
    \A p \in Plugins :
        /\ \A n \in metrics[p] \cup prevMetrics[p] : n <= emitted[p]
        /\ \A c \in Callers : /\ \A n \in lines[<<c, p>>] : n <= emitted[p]
                              /\ first[<<c, p>>] <= emitted[p] + 1

RunsInv == NotAsked /\ HeldInScan /\ RunningIsAccurate

BatchInv == Printed /\ BatchesInOrder

LEMMA InitRuns == ASSUME Init PROVE RunsInv /\ BatchInv
  <1>1. \A c \in Callers, p \in Plugins :
            /\ at[<<c, p>>] = IF c = scan THEN "enter" ELSE "none"
            /\ lines[<<c, p>>] = {} /\ first[<<c, p>>] = 0
    BY ExecPairs DEF Init, PluginInit
  <1>2. \A p \in Plugins :
            /\ metrics[p] = {} /\ prevMetrics[p] = {} /\ emitted[p] = 0 /\ running[p] = FALSE
    BY DEF Init, PluginInit
  <1>3. NotAsked /\ HeldInScan
    BY <1>1 DEF NotAsked, HeldInScan, Requests
  <1>4. RunningIsAccurate
    BY <1>1, <1>2 DEF RunningIsAccurate, Busy
  <1>5. Printed /\ BatchesInOrder
    BY <1>1, <1>2 DEF Printed, BatchesInOrder, Before
  <1> QED BY <1>3, <1>4, <1>5 DEF RunsInv, BatchInv

(* An exec that moves between the places past the guards, or between those   *)
(* before them and behind, keeps running true, if its lines are gone when it *)
(* leaves "scan".                                                            *)
LEMMA MoveKeepsRuns ==
    ASSUME PluginTypeOK, RunsInv, UNCHANGED <<running, asked>>,
           NEW c \in Callers, NEW p \in Plugins,
           NEW place \in {"start", "scan", "wait", "done"}, Goto(c, p, place),
           at[<<c, p>>] # "none",
           at[<<c, p>>] \in {"start", "scan", "wait"} <=> place \in {"start", "scan", "wait"},
           \A d \in Callers, q \in Plugins :
               lines'[<<d, q>>] # {} => lines[<<d, q>>] # {} /\ (d # c \/ q # p)
    PROVE  RunsInv'
  <1>1. \A d \in Callers, q \in Plugins :
            at'[<<d, q>>] = IF d = c /\ q = p THEN place ELSE at[<<d, q>>]
    BY ExecPairs DEF PluginTypeOK, Goto
  <1>2. \A q \in Plugins : Busy(q)' = Busy(q)
    BY <1>1 DEF Busy
  <1>3. RunningIsAccurate'
    BY <1>2 DEF RunsInv, RunningIsAccurate
  <1>4. NotAsked'
    <2> SUFFICES ASSUME NEW r \in Requests, NEW q \in Plugins, asked[r] = scan
                 PROVE  at'[<<r, q>>] = "none"
      BY DEF NotAsked
    <2>1. r \in Callers /\ at[<<r, q>>] = "none"
      BY DEF Requests, RunsInv, NotAsked
    <2>2. ~(r = c /\ q = p)
      BY <2>1
    <2> QED BY <1>1, <2>1, <2>2
  <1>5. HeldInScan'
    <2> SUFFICES ASSUME NEW d \in Callers, NEW q \in Plugins, lines'[<<d, q>>] # {}
                 PROVE  at'[<<d, q>>] = "scan"
      BY DEF HeldInScan
    <2>1. lines[<<d, q>>] # {} /\ ~(d = c /\ q = p)
      OBVIOUS
    <2>2. at[<<d, q>>] = "scan"
      BY <2>1 DEF RunsInv, HeldInScan
    <2> QED BY <1>1, <2>1, <2>2
  <1> QED BY <1>3, <1>4, <1>5 DEF RunsInv

(* An exec that ends frees the plugin.                                       *)
LEMMA ResetKeepsRuns ==
    ASSUME PluginTypeOK, RunsInv, UNCHANGED <<asked, lines>>,
           NEW c \in Callers, NEW p \in Plugins,
           ResetStatus(p), Goto(c, p, "done"), at[<<c, p>>] \in {"start", "wait"}
    PROVE  RunsInv'
  <1>1. \A d \in Callers, q \in Plugins :
            at'[<<d, q>>] = IF d = c /\ q = p THEN "done" ELSE at[<<d, q>>]
    BY ExecPairs DEF PluginTypeOK, Goto
  <1>2. \A q \in Plugins : running'[q] = IF q = p THEN FALSE ELSE running[q]
    BY ResetStatusType
  <1>3. \A q \in Plugins : Busy(q)' = IF q = p THEN {} ELSE Busy(q)
    <2>1. Busy(p) = {c}
      BY DEF RunsInv, RunningIsAccurate, Busy
    <2> QED BY <1>1, <2>1 DEF Busy
  <1>4. RunningIsAccurate'
    <2>1. ASSUME NEW q \in Plugins
          PROVE  /\ running'[q] <=> Busy(q)' # {}
                 /\ \A d, e \in Busy(q)' : d = e
      <3>1. CASE q = p
        BY <1>2, <1>3, <3>1
      <3>2. CASE q # p
        <4>1. running'[q] = running[q] /\ Busy(q)' = Busy(q)
          BY <1>2, <1>3, <3>2
        <4>2. /\ running[q] <=> Busy(q) # {}
              /\ \A d, e \in Busy(q) : d = e
          BY DEF RunsInv, RunningIsAccurate
        <4> QED BY <4>1, <4>2
      <3> QED BY <3>1, <3>2
    <2> QED BY <2>1 DEF RunningIsAccurate
  <1>5. NotAsked'
    BY <1>1 DEF RunsInv, NotAsked, Requests
  <1>6. HeldInScan'
    BY <1>1 DEF RunsInv, HeldInScan
  <1> QED BY <1>4, <1>5, <1>6 DEF RunsInv

LEMMA EnterKeepsRuns ==
    ASSUME PluginTypeOK, RunsInv, UNCHANGED asked,
           NEW c \in Callers, NEW p \in Plugins, Enter(c, p)
    PROVE  RunsInv'
  <1>1. \A d \in Callers, q \in Plugins :
            at'[<<d, q>>] = IF d = c /\ q = p THEN "start" ELSE at[<<d, q>>]
    BY ExecPairs DEF PluginTypeOK, Enter, Goto
  <1>2. \A q \in Plugins : running'[q] = IF q = p THEN TRUE ELSE running[q]
    BY DEF Enter, PluginTypeOK
  <1>3. \A q \in Plugins : Busy(q)' = IF q = p THEN {c} ELSE Busy(q)
    <2>1. Busy(p) = {}
      BY DEF Enter, RunsInv, RunningIsAccurate
    <2> QED BY <1>1, <2>1 DEF Busy
  <1>4. RunningIsAccurate'
    <2>1. ASSUME NEW q \in Plugins
          PROVE  /\ running'[q] <=> Busy(q)' # {}
                 /\ \A d, e \in Busy(q)' : d = e
      <3>1. CASE q = p
        BY <1>2, <1>3, <3>1
      <3>2. CASE q # p
        <4>1. running'[q] = running[q] /\ Busy(q)' = Busy(q)
          BY <1>2, <1>3, <3>2
        <4>2. /\ running[q] <=> Busy(q) # {}
              /\ \A d, e \in Busy(q) : d = e
          BY DEF RunsInv, RunningIsAccurate
        <4> QED BY <4>1, <4>2
      <3> QED BY <3>1, <3>2
    <2> QED BY <2>1 DEF RunningIsAccurate
  <1>5. NotAsked'
    BY <1>1 DEF RunsInv, NotAsked, Requests, Enter
  <1>6. HeldInScan'
    BY <1>1 DEF RunsInv, HeldInScan, Enter
  <1> QED BY <1>4, <1>5, <1>6 DEF RunsInv

(* A request starts an exec of each plugin it wants, and had none before.    *)
LEMMA AskKeepsRuns ==
    ASSUME PluginTypeOK, asked \in [Requests -> {All, scan} \cup Sources], RunsInv,
           NEW r \in Requests, Ask(r)
    PROVE  RunsInv'
  <1>1. asked' \in [Requests -> {All, scan} \cup Sources] /\ asked'[r] # scan
    BY CollectionAssumption DEF CollectionAssumption, Ask, Sources
  <1>2. \A d \in Callers, q \in Plugins :
            at'[<<d, q>>] = IF d = r /\ asked'[r] \in {All, q} THEN "enter" ELSE at[<<d, q>>]
    BY ExecPairs DEF Ask
  <1>3. \A q \in Plugins : at[<<r, q>>] = "none"
    BY DEF Ask, RunsInv, NotAsked
  <1>4. \A q \in Plugins : Busy(q)' = Busy(q)
    BY <1>2, <1>3 DEF Busy
  <1>5. RunningIsAccurate'
    BY <1>4 DEF RunsInv, RunningIsAccurate, Ask, pluginVars
  <1>6. NotAsked'
    <2>1. \A q \in Requests : q # r => asked'[q] = asked[q]
      BY DEF Ask
    <2> QED BY <1>1, <1>2, <2>1 DEF RunsInv, NotAsked, Requests
  <1>7. HeldInScan'
    <2>1. UNCHANGED lines
      BY DEF Ask
    <2>2. ASSUME NEW d \in Callers, NEW q \in Plugins, lines[<<d, q>>] # {}
          PROVE  at'[<<d, q>>] = "scan"
      <3>1. at[<<d, q>>] = "scan"
        BY <2>2 DEF RunsInv, HeldInScan
      <3>2. d # r
        BY <1>3, <3>1
      <3> QED BY <1>2, <3>1, <3>2
    <2> QED BY <2>1, <2>2 DEF HeldInScan
  <1> QED BY <1>5, <1>6, <1>7 DEF RunsInv

LEMMA ExecStepRuns ==
    ASSUME PluginTypeOK, RunsInv, UNCHANGED asked,
           NEW c \in Callers, NEW p \in Plugins, ExecStep(c, p) \/ ParseRest(c, p)
    PROVE  RunsInv'
  <1>1. CASE TTLNotExpired(c, p) \/ AlreadyRunning(c, p)
    <2>1. /\ UNCHANGED <<running, lines>>
          /\ at[<<c, p>>] = "enter" /\ Goto(c, p, "done")
      BY <1>1 DEF TTLNotExpired, AlreadyRunning, pluginVars
    <2>2. lines[<<c, p>>] = {}
      BY <2>1 DEF RunsInv, HeldInScan
    <2> QED BY <2>1, <2>2, MoveKeepsRuns
  <1>2. CASE Enter(c, p)
    BY <1>2, EnterKeepsRuns
  <1>3. CASE StartFails(c, p) \/ Wait(c, p)
    BY <1>3, ResetKeepsRuns DEF StartFails, Wait
  <1>4. CASE Start(c, p)
    <2>1. lines[<<c, p>>] = {}
      BY <1>4 DEF Start, RunsInv, HeldInScan
    <2> QED BY <1>4, <2>1, MoveKeepsRuns DEF Start, pluginVars
  <1>5. CASE ParseRest(c, p)
    <2>1. \A d \in Callers, q \in Plugins :
              lines'[<<d, q>>] # {} => lines[<<d, q>>] # {} /\ (d # c \/ q # p)
      <3>1. DOMAIN lines = Execs /\ lines' = [lines EXCEPT ![<<c, p>>] = {}]
        BY <1>5 DEF ParseRest, PluginTypeOK
      <3>2. \A e \in Execs : lines'[e] = IF e = <<c, p>> THEN {} ELSE lines[e]
        BY <3>1
      <3> QED BY <3>2, ExecPairs
    <2> QED BY <1>5, <2>1, MoveKeepsRuns DEF ParseRest
  <1> QED BY <1>1, <1>2, <1>3, <1>4, <1>5 DEF ExecStep

LEMMA ProcessStepRuns ==
    ASSUME PluginTypeOK, RunsInv, UNCHANGED asked,
           NEW c \in Callers, NEW p \in Plugins, ProcessStep(c, p) \/ Kill(c, p)
    PROVE  RunsInv'
  <1>1. ASSUME Line(c, p) \/ Blank(c, p) \/ Exit(c, p) PROVE RunsInv'
    <2>1. UNCHANGED <<running, at>>
      BY <1>1 DEF Line, Blank, Exit, pluginVars
    <2>2. HeldInScan'
      <3>1. ASSUME NEW d \in Callers, NEW q \in Plugins, lines'[<<d, q>>] # {}
            PROVE  lines[<<d, q>>] # {} \/ at[<<d, q>>] = "scan"
        BY <1>1, <3>1, ExecPairs DEF Line, Blank, Exit, PluginTypeOK
      <3> QED BY <2>1, <3>1 DEF RunsInv, HeldInScan
    <2> QED BY <2>1, <2>2 DEF RunsInv, NotAsked, RunningIsAccurate, Busy
  <1> QED BY <1>1, ExecStepRuns DEF ProcessStep, Kill

LEMMA RunsKept ==
    ASSUME RunsInv, UNCHANGED <<running, at, lines, asked>>
    PROVE  RunsInv'
  BY DEF RunsInv, NotAsked, HeldInScan, RunningIsAccurate, Busy

-----------------------------------------------------------------------------
(* Lines are printed with growing numbers, published from the one exec that  *)
(* holds some, and drained from what is published.                           *)

LEMMA StartKeepsBatches ==
    ASSUME PluginTypeOK, RunsInv, BatchInv,
           NEW c \in Callers, NEW p \in Plugins, Start(c, p)
    PROVE  BatchInv'
  <1>1. UNCHANGED <<metrics, prevMetrics, lines, emitted>>
    BY DEF Start, pluginVars
  <1>2. lines[<<c, p>>] = {}
    BY DEF Start, RunsInv, HeldInScan
  <1>3. \A d \in Callers, q \in Plugins :
            first'[<<d, q>>] = IF d = c /\ q = p THEN emitted[p] + 1 ELSE first[<<d, q>>]
    BY ExecPairs DEF Start, PluginTypeOK
  <1>4. Printed'
    BY <1>1, <1>3 DEF BatchInv, Printed, PluginTypeOK
  <1>5. BatchesInOrder'
    BY <1>1, <1>2, <1>3 DEF BatchInv, BatchesInOrder, Before
  <1> QED BY <1>4, <1>5 DEF BatchInv

LEMMA LineKeepsBatches ==
    ASSUME PluginTypeOK, BatchInv, NEW c \in Callers, NEW p \in Plugins, Line(c, p)
    PROVE  BatchInv'
  <1>1. UNCHANGED <<metrics, prevMetrics, first>>
    BY DEF Line, pluginVars
  <1>2. \A q \in Plugins : emitted'[q] = IF q = p THEN emitted[p] + 1 ELSE emitted[q]
    BY DEF Line, PluginTypeOK
  <1>3. \A d \in Callers, q \in Plugins :
            lines'[<<d, q>>] = IF d = c /\ q = p THEN lines[<<c, p>>] \cup {emitted[p] + 1}
                               ELSE lines[<<d, q>>]
    BY ExecPairs DEF Line, PluginTypeOK
  <1>4. ASSUME NEW q \in Plugins
        PROVE  /\ emitted[q] \in Nat /\ emitted[q] <= emitted'[q]
               /\ metrics[q] \cup prevMetrics[q] \subseteq Nat
               /\ \A d \in Callers : lines[<<d, q>>] \subseteq Nat /\ first[<<d, q>>] \in Nat
    BY <1>2, ExecPairs DEF PluginTypeOK
  <1>5. Printed'
    <2>1. ASSUME NEW q \in Plugins, NEW n \in metrics[q] \cup prevMetrics[q]
          PROVE  n <= emitted'[q]
      BY <1>2, <1>4 DEF BatchInv, Printed
    <2>2. ASSUME NEW q \in Plugins, NEW d \in Callers, NEW n \in lines'[<<d, q>>]
          PROVE  n <= emitted'[q]
      BY <1>2, <1>3, <1>4 DEF BatchInv, Printed
    <2>3. ASSUME NEW q \in Plugins, NEW d \in Callers
          PROVE  first[<<d, q>>] <= emitted'[q] + 1
      BY <1>2, <1>4 DEF BatchInv, Printed
    <2> QED BY <1>1, <2>1, <2>2, <2>3 DEF Printed
  <1>6. BatchesInOrder'
    <2>1. ASSUME NEW q \in Plugins, NEW d \in Callers,
                 NEW m \in prevMetrics[q] \cup metrics[q], NEW n \in lines'[<<d, q>>]
          PROVE  m < n
      <3>1. CASE n \in lines[<<d, q>>]
        BY <3>1 DEF BatchInv, BatchesInOrder, Before
      <3>2. CASE n \notin lines[<<d, q>>]
        <4>1. q = p /\ n = emitted[q] + 1
          BY <1>3, <3>2
        <4> QED BY <1>4, <4>1 DEF BatchInv, Printed
      <3> QED BY <3>1, <3>2
    <2>2. ASSUME NEW q \in Plugins, NEW d \in Callers, NEW n \in lines'[<<d, q>>]
          PROVE  n >= first[<<d, q>>]
      <3>1. CASE n \in lines[<<d, q>>]
        BY <3>1 DEF BatchInv, BatchesInOrder
      <3>2. CASE n \notin lines[<<d, q>>]
        <4>1. q = p /\ n = emitted[q] + 1
          BY <1>3, <3>2
        <4> QED BY <1>4, <4>1 DEF BatchInv, Printed
      <3> QED BY <3>1, <3>2
    <2>3. \A q \in Plugins : Before(prevMetrics[q], metrics[q])
      BY DEF BatchInv, BatchesInOrder
    <2> QED BY <1>1, <2>1, <2>2, <2>3 DEF BatchesInOrder, Before
  <1> QED BY <1>5, <1>6 DEF BatchInv

(* Only one exec of a plugin holds lines, so what it publishes is followed   *)
(* by nothing older.                                                         *)
LEMMA PublishKeepsBatches ==
    ASSUME PluginTypeOK, RunsInv, BatchInv, UNCHANGED <<prevMetrics, first, emitted>>,
           NEW c \in Callers, NEW p \in Plugins, at[<<c, p>>] = "scan",
           NEW parsed \in {lines[<<c, p>>], {}}, Publish(p, parsed),
           lines' = [lines EXCEPT ![<<c, p>>] = {}]
    PROVE  BatchInv'
  <1>1. lines[<<c, p>>] \in SUBSET (1 .. MaxLines)
    BY ExecPairs DEF PluginTypeOK
  <1>2. \A q \in Plugins : metrics'[q] = IF q = p THEN parsed ELSE metrics[q]
    BY <1>1, PublishType
  <1>3. \A d \in Callers, q \in Plugins :
            lines'[<<d, q>>] = IF d = c /\ q = p THEN {} ELSE lines[<<d, q>>]
    BY ExecPairs DEF PluginTypeOK
  <1>4. \A d \in Callers : lines'[<<d, p>>] = {}
    <2>1. ASSUME NEW d \in Callers, d # c PROVE lines[<<d, p>>] = {}
      <3>1. c \in Busy(p) /\ (lines[<<d, p>>] # {} => d \in Busy(p))
        BY DEF Busy, RunsInv, HeldInScan
      <3> QED BY <2>1, <3>1 DEF RunsInv, RunningIsAccurate
    <2> QED BY <1>3, <2>1
  <1>5. Printed'
    BY <1>2, <1>3 DEF BatchInv, Printed
  <1>6. ASSUME NEW q \in Plugins
        PROVE  /\ Before(prevMetrics[q], metrics'[q])
               /\ \A d \in Callers : /\ Before(prevMetrics[q] \cup metrics'[q], lines'[<<d, q>>])
                                     /\ \A n \in lines'[<<d, q>>] : n >= first[<<d, q>>]
    <2>1. CASE q = p
      BY <1>2, <1>4, <2>1 DEF BatchInv, BatchesInOrder, Before
    <2>2. CASE q # p
      BY <1>2, <1>3, <2>2 DEF BatchInv, BatchesInOrder
    <2> QED BY <2>1, <2>2
  <1>7. BatchesInOrder'
    BY <1>6 DEF BatchesInOrder, Before
  <1> QED BY <1>5, <1>7 DEF BatchInv

LEMMA DrainKeepsBatches ==
    ASSUME PluginTypeOK, BatchInv, NEW p \in Plugins, Drain(p), UNCHANGED execVars
    PROVE  BatchInv'
  <1>1. UNCHANGED <<lines, first, emitted>>
    BY DEF execVars
  <1>2. \A q \in Plugins :
            /\ metrics'[q] = IF q = p THEN {} ELSE metrics[q]
            /\ prevMetrics'[q] = IF q = p THEN Drained(p) ELSE prevMetrics[q]
    BY DEF Drain, PluginTypeOK
  <1>3. Drained(p) \in {metrics[p], prevMetrics[p]}
    BY DEF Drained
  <1>4. Printed'
    BY <1>1, <1>2, <1>3 DEF BatchInv, Printed
  <1>5. BatchesInOrder'
    BY <1>1, <1>2, <1>3 DEF BatchInv, BatchesInOrder, Before
  <1> QED BY <1>4, <1>5 DEF BatchInv

LEMMA BatchesKept ==
    ASSUME BatchInv, UNCHANGED <<metrics, prevMetrics, lines, first, emitted>>
    PROVE  BatchInv'
  BY DEF BatchInv, Printed, BatchesInOrder, Before

LEMMA ExecStepBatches ==
    ASSUME PluginTypeOK, RunsInv, BatchInv, NEW c \in Callers, NEW p \in Plugins,
           ExecStep(c, p) \/ ProcessStep(c, p) \/ Kill(c, p)
    PROVE  BatchInv'
  <1>1. CASE Start(c, p)
    BY <1>1, StartKeepsBatches
  <1>2. CASE Line(c, p)
    BY <1>2, LineKeepsBatches
  <1>3. CASE Blank(c, p) \/ ParseRest(c, p)
    <2>1. UNCHANGED <<prevMetrics, first, emitted>> /\ at[<<c, p>>] = "scan"
      BY <1>3 DEF Blank, ParseRest
    <2>2. PICK parsed \in {lines[<<c, p>>], {}} : Publish(p, parsed)
      BY <1>3 DEF Blank, ParseRest
    <2>3. lines' = [lines EXCEPT ![<<c, p>>] = {}]
      BY <1>3 DEF Blank, ParseRest
    <2> QED BY <2>1, <2>2, <2>3, PublishKeepsBatches
  <1>4. CASE TTLNotExpired(c, p) \/ AlreadyRunning(c, p) \/ Enter(c, p)
             \/ StartFails(c, p) \/ Wait(c, p) \/ Exit(c, p)
    <2>1. UNCHANGED <<metrics, prevMetrics, lines, first, emitted>>
      BY <1>4 DEF TTLNotExpired, AlreadyRunning, Enter, StartFails, Wait, Exit, pluginVars
    <2> QED BY <2>1, BatchesKept
  <1> QED BY <1>1, <1>2, <1>3, <1>4 DEF ExecStep, ProcessStep, Kill

-----------------------------------------------------------------------------
(* The types of the requests and collectors; one request at a time waits for *)
(* the builtins, which is what running of the builtins says.                 *)

RequestTypeOK ==
    /\ asked \in [Requests -> {All, scan} \cup Sources]
    /\ stage \in [Requests \X Conduits -> {"none", "run", "wait", "flush"}]
    /\ left \in [Requests -> SUBSET Sources]
    /\ got \in [Requests -> [Sources -> SUBSET Nat]]
    /\ answered \in SUBSET Requests /\ inProgress \in BOOLEAN

CollectorTypeOK ==
    /\ collecting \in [Collectors -> BOOLEAN]
    /\ lastMetrics \in [Collectors -> SUBSET Nat] /\ sampled \in [Collectors -> Nat]
    /\ collect \in [Collects -> {"none", "enter", "read", "done"}]
    /\ sample \in [Collects -> Nat]

Waiting == {r \in Requests : stage[<<r, "builtins">>] = "wait"}

OneWaits ==
    /\ inProgress <=> Waiting # {}
    /\ \A q, r \in Waiting : q = r
    /\ \A r \in Requests : asked[r] = scan => stage[<<r, "builtins">>] = "none"

RequestInv == RequestTypeOK /\ CollectorTypeOK /\ OneWaits

LEMMA StagePairs ==
    /\ \A q, r \in Requests, a, b \in Conduits :
         <<r, a>> \in Requests \X Conduits /\ (<<r, a>> = <<q, b>> <=> r = q /\ a = b)
    /\ "plugins" \in Conduits /\ "builtins" \in Conduits /\ "plugins" # "builtins"
  BY DEF Conduits

LEMMA CollectPairs ==
    \A r \in Requests, k \in Collectors : <<r, k>> \in Collects
  BY DEF Collects

LEMMA MovePlace ==
    ASSUME RequestTypeOK, NEW r \in Requests, NEW conduit \in Conduits,
           NEW place \in {"none", "run", "wait", "flush"}, Move(r, conduit, place)
    PROVE  /\ stage' \in [Requests \X Conduits -> {"none", "run", "wait", "flush"}]
           /\ \A q \in Requests, b \in Conduits :
                stage'[<<q, b>>] = IF q = r /\ b = conduit THEN place ELSE stage[<<q, b>>]
  BY StagePairs DEF RequestTypeOK, Move

LEMMA InitRequests == ASSUME Init PROVE RequestInv
  <1>1. RequestTypeOK
    BY DEF Init, RequestTypeOK
  <1>2. CollectorTypeOK
    BY DEF Init, CollectorTypeOK
  <1>3. \A r \in Requests : stage[<<r, "builtins">>] = "none"
    BY StagePairs DEF Init
  <1>4. OneWaits
    BY <1>3 DEF Init, OneWaits, Waiting
  <1> QED BY <1>1, <1>2, <1>4 DEF RequestInv

LEMMA AskRequests == ASSUME RequestInv, NEW r \in Requests, Ask(r) PROVE RequestInv'
  <1>1. asked' \in [Requests -> {All, scan} \cup Sources]
    BY DEF Ask, RequestInv, RequestTypeOK
  <1>2. asked'[r] # scan /\ \A q \in Requests : q # r => asked'[q] = asked[q]
    BY CollectionAssumption
    DEF CollectionAssumption, Ask, RequestInv, RequestTypeOK, Sources
  <1>3. stage' \in [Requests \X Conduits -> {"none", "run", "wait", "flush"}]
    BY DEF Ask, RequestInv, RequestTypeOK
  <1>4. \A q \in Requests :
            IF q = r THEN stage'[<<q, "builtins">>] \in {"flush", "run"}
                     ELSE stage'[<<q, "builtins">>] = stage[<<q, "builtins">>]
    BY StagePairs DEF Ask, RequestInv, RequestTypeOK
  <1>5. stage[<<r, "builtins">>] = "none"
    BY DEF Ask, RequestInv, OneWaits
  <1>6. Waiting' = Waiting
    BY <1>4, <1>5 DEF Waiting
  <1>7. OneWaits'
    BY <1>2, <1>4, <1>6 DEF Ask, builtinVars, RequestInv, OneWaits
  <1>8. RequestTypeOK'
    BY <1>1, <1>3 DEF Ask, builtinVars, RequestInv, RequestTypeOK
  <1>9. CollectorTypeOK'
    BY DEF Ask, builtinVars, RequestInv, CollectorTypeOK
  <1> QED BY <1>7, <1>8, <1>9 DEF RequestInv

(* A conduit's run is over and its sources are to be flushed.                *)
LEMMA LeftType ==
    ASSUME RequestTypeOK, NEW r \in Requests, NEW more \in SUBSET Sources,
           left' = [left EXCEPT ![r] = @ \cup more]
    PROVE  left' \in [Requests -> SUBSET Sources]
  BY DEF RequestTypeOK

LEMMA GotType ==
    ASSUME RequestTypeOK, NEW r \in Requests, NEW s \in Sources, NEW values \in SUBSET Nat,
           got' = [got EXCEPT ![r][s] = values], left' = [left EXCEPT ![r] = @ \ {s}]
    PROVE  /\ got' \in [Requests -> [Sources -> SUBSET Nat]]
           /\ left' \in [Requests -> SUBSET Sources]
  BY DEF RequestTypeOK

LEMMA WantedSources ==
    ASSUME NEW r \in Requests
    PROVE  Wanted(r, Plugins) \in SUBSET Sources /\ Collectors \in SUBSET Sources
  BY DEF Wanted, Sources

(* A conduit of a request that was made goes on, and no request starts or    *)
(* ends to wait for the builtins.                                            *)
LEMMA MoveKeepsWaiting ==
    ASSUME RequestInv, UNCHANGED <<asked, inProgress>>,
           NEW r \in Requests, NEW conduit \in Conduits, Move(r, conduit, "flush"),
           conduit = "builtins" => stage[<<r, conduit>>] = "run"
    PROVE  OneWaits'
  <1>1. \A q \in Requests :
            stage'[<<q, "builtins">>] =
                IF q = r /\ conduit = "builtins" THEN "flush" ELSE stage[<<q, "builtins">>]
    BY StagePairs DEF Move, RequestInv, RequestTypeOK
  <1>2. Waiting' = Waiting
    BY <1>1 DEF Waiting
  <1> QED BY <1>1, <1>2 DEF RequestInv, OneWaits

LEMMA RunBuiltinsRequests ==
    ASSUME RequestInv, NEW r \in Requests, RunBuiltins(r) PROVE RequestInv'
  <1>1. stage' \in [Requests \X Conduits -> {"none", "run", "wait", "flush"}]
    BY StagePairs DEF RunBuiltins, Move, RequestInv, RequestTypeOK
  <1>2. \A q \in Requests :
            stage'[<<q, "builtins">>] = IF q = r THEN "wait" ELSE stage[<<q, "builtins">>]
    BY StagePairs DEF RunBuiltins, Move, RequestInv, RequestTypeOK
  <1>3. Waiting' = {r}
    <2>1. Waiting = {}
      BY DEF RunBuiltins, RequestInv, OneWaits
    <2> QED BY <1>2, <2>1 DEF Waiting
  <1>4. asked[r] # scan /\ asked' = asked /\ inProgress' = TRUE
    BY DEF RunBuiltins, RequestInv, OneWaits
  <1>5. OneWaits'
    <2>1. \A q \in Requests : asked'[q] = scan => stage'[<<q, "builtins">>] = "none"
      BY <1>2, <1>4 DEF RequestInv, OneWaits
    <2> QED BY <1>3, <1>4, <2>1 DEF OneWaits
  <1>6. RequestTypeOK'
    BY <1>1 DEF RunBuiltins, RequestInv, RequestTypeOK
  <1>7. CollectorTypeOK'
    BY DEF RunBuiltins, RequestInv, CollectorTypeOK
  <1> QED BY <1>5, <1>6, <1>7 DEF RequestInv

LEMMA BuiltinsDoneRequests ==
    ASSUME RequestInv, NEW r \in Requests, BuiltinsDone(r) PROVE RequestInv'
  <1>1. stage' \in [Requests \X Conduits -> {"none", "run", "wait", "flush"}]
    BY StagePairs DEF BuiltinsDone, Move, RequestInv, RequestTypeOK
  <1>2. \A q \in Requests :
            stage'[<<q, "builtins">>] = IF q = r THEN "flush" ELSE stage[<<q, "builtins">>]
    BY StagePairs DEF BuiltinsDone, Move, RequestInv, RequestTypeOK
  <1>3. Waiting' = {}
    <2>1. Waiting = {r}
      BY DEF BuiltinsDone, RequestInv, OneWaits, Waiting
    <2> QED BY <1>2, <2>1 DEF Waiting
  <1>4. asked[r] # scan /\ asked' = asked /\ inProgress' = FALSE
    BY DEF BuiltinsDone, RequestInv, OneWaits
  <1>5. OneWaits'
    <2>1. \A q \in Requests : asked'[q] = scan => stage'[<<q, "builtins">>] = "none"
      BY <1>2, <1>4 DEF RequestInv, OneWaits
    <2> QED BY <1>3, <1>4, <2>1 DEF OneWaits
  <1>6. left' \in [Requests -> SUBSET Sources]
    BY WantedSources, LeftType DEF BuiltinsDone, RequestInv
  <1>7. RequestTypeOK'
    BY <1>1, <1>6 DEF BuiltinsDone, RequestInv, RequestTypeOK
  <1>8. CollectorTypeOK'
    BY DEF BuiltinsDone, RequestInv, CollectorTypeOK
  <1> QED BY <1>5, <1>7, <1>8 DEF RequestInv

LEMMA RequestStepRequests ==
    ASSUME PluginTypeOK, RequestInv, NEW r \in Requests, RequestStep(r)
    PROVE  RequestInv'
  <1>1. CASE PluginsDone(r) \/ SkipBuiltins(r)
    <2>1. PICK conduit \in Conduits :
              /\ Move(r, conduit, "flush")
              /\ conduit = "builtins" => stage[<<r, conduit>>] = "run"
      BY <1>1, StagePairs DEF PluginsDone, SkipBuiltins
    <2>2. OneWaits'
      BY <1>1, <2>1, MoveKeepsWaiting DEF PluginsDone, SkipBuiltins, builtinVars
    <2>3. stage' \in [Requests \X Conduits -> {"none", "run", "wait", "flush"}]
      BY <2>1, StagePairs DEF Move, RequestInv, RequestTypeOK
    <2>4. left' \in [Requests -> SUBSET Sources]
      BY <1>1, WantedSources, LeftType DEF PluginsDone, SkipBuiltins, RequestInv
    <2>5. RequestTypeOK' /\ CollectorTypeOK'
      BY <1>1, <2>3, <2>4
      DEF PluginsDone, SkipBuiltins, builtinVars, RequestInv, RequestTypeOK, CollectorTypeOK
    <2> QED BY <2>2, <2>5 DEF RequestInv
  <1>2. CASE RunBuiltins(r) \/ BuiltinsDone(r)
    BY <1>2, RunBuiltinsRequests, BuiltinsDoneRequests
  <1>3. ASSUME NEW s \in Sources, NEW values \in SUBSET Nat,
               got' = [got EXCEPT ![r][s] = values], left' = [left EXCEPT ![r] = @ \ {s}],
               UNCHANGED <<asked, stage, answered, builtinVars>>
        PROVE  RequestInv'
    <2>1. RequestTypeOK'
      BY <1>3, GotType DEF RequestInv, RequestTypeOK, builtinVars
    <2> QED
      BY <1>3, <2>1 DEF RequestInv, CollectorTypeOK, OneWaits, Waiting, builtinVars
  <1>4. ASSUME NEW p \in Plugins, FlushPlugin(r, p) PROVE RequestInv'
    <2>1. p \in Sources /\ Drained(p) \in SUBSET Nat
      BY DEF Sources, Drained, PluginTypeOK
    <2> QED BY <1>3, <1>4, <2>1 DEF FlushPlugin
  <1>5. ASSUME NEW k \in Collectors, FlushCollector(r, k) PROVE RequestInv'
    <2>1. k \in Sources /\ lastMetrics[k] \in SUBSET Nat
      BY DEF Sources, RequestInv, CollectorTypeOK
    <2> QED BY <1>3, <1>5, <2>1 DEF FlushCollector
  <1>6. CASE Answer(r)
    BY <1>6
    DEF Answer, builtinVars, RequestInv, RequestTypeOK, CollectorTypeOK, OneWaits, Waiting
  <1> QED BY <1>1, <1>2, <1>4, <1>5, <1>6 DEF RequestStep

LEMMA CollectStepRequests ==
    ASSUME RequestInv, NEW r \in Requests, NEW k \in Collectors, CollectStep(r, k)
    PROVE  RequestInv'
  <1>1. RequestTypeOK' /\ OneWaits'
    <2>1. UNCHANGED <<asked, stage, left, got, answered, inProgress>>
      BY DEF CollectStep, CollectRefused, CollectEnter, Collected, CollectFails,
             CollectAbandoned, SetStatus, CollectOnly, requestVars
    <2> QED BY <2>1 DEF RequestInv, RequestTypeOK, OneWaits, Waiting
  <1>2. ASSUME NEW place \in {"none", "enter", "read", "done"}, Place(r, k, place)
        PROVE  collect' \in [Collects -> {"none", "enter", "read", "done"}]
    BY <1>2 DEF RequestInv, CollectorTypeOK, Place
  <1>3. ASSUME NEW result \in SUBSET Nat, SetStatus(r, k, result) PROVE CollectorTypeOK'
    <2>1. collect' \in [Collects -> {"none", "enter", "read", "done"}]
      BY <1>3 DEF RequestInv, CollectorTypeOK, Place, SetStatus
    <2>2. sampled[k] + 1 \in Nat
      BY DEF RequestInv, CollectorTypeOK
    <2> QED BY <1>3, <2>1, <2>2, CollectPairs DEF SetStatus, RequestInv, CollectorTypeOK
  <1>4. CASE Collected(r, k) \/ CollectFails(r, k)
    <2>1. {sampled[k] + 1} \in SUBSET Nat /\ {} \in SUBSET Nat
      BY DEF RequestInv, CollectorTypeOK
    <2>2. CollectorTypeOK'
      BY <1>3, <1>4, <2>1 DEF Collected, CollectFails
    <2> QED BY <1>1, <2>2 DEF RequestInv
  <1>5. CASE CollectRefused(r, k) \/ CollectEnter(r, k) \/ CollectAbandoned(r, k)
    <2>1. collect' \in [Collects -> {"none", "enter", "read", "done"}]
      BY <1>5 DEF CollectRefused, CollectEnter, CollectAbandoned, Place, RequestInv, CollectorTypeOK
    <2>2. CollectorTypeOK'
      BY <1>5, <2>1
      DEF CollectRefused, CollectEnter, CollectAbandoned, RequestInv, CollectorTypeOK
    <2> QED BY <1>1, <2>2 DEF RequestInv
  <1> QED BY <1>4, <1>5 DEF CollectStep

LEMMA RequestsKept ==
    ASSUME RequestInv, UNCHANGED <<requestVars, builtinVars>>
    PROVE  RequestInv'
  BY DEF requestVars, builtinVars, RequestInv, RequestTypeOK, CollectorTypeOK, OneWaits, Waiting

-----------------------------------------------------------------------------
(* The theorems.                                                             *)

IInv == PluginTypeOK /\ RequestInv /\ RunsInv /\ BatchInv

LEMMA NextIInv == ASSUME IInv, [Next]_vars PROVE IInv'
  <1>0. PluginTypeOK /\ RequestInv /\ RunsInv /\ BatchInv /\ PluginTypeOK'
    BY NextPluginType DEF IInv
  <1>1. ASSUME NEW r \in Requests, Ask(r) PROVE IInv'
    <2>1. RunsInv'
      BY <1>0, <1>1, AskKeepsRuns DEF RequestInv, RequestTypeOK
    <2>2. BatchInv'
      BY <1>0, <1>1, BatchesKept DEF Ask, pluginVars
    <2> QED BY <1>0, <1>1, <2>1, <2>2, AskRequests DEF IInv
  <1>2. ASSUME NEW r \in Requests, RequestStep(r) PROVE IInv'
    <2>1. UNCHANGED <<running, at, lines, asked>>
      BY <1>2
      DEF RequestStep, PluginsDone, SkipBuiltins, RunBuiltins, BuiltinsDone, FlushPlugin,
          FlushCollector, Answer, Drain, pluginVars, execVars
    <2>2. BatchInv'
      <3>1. CASE \E p \in Plugins : FlushPlugin(r, p)
        BY <1>0, <3>1, DrainKeepsBatches DEF FlushPlugin
      <3>2. CASE ~ \E p \in Plugins : FlushPlugin(r, p)
        <4>1. UNCHANGED <<metrics, prevMetrics, lines, first, emitted>>
          BY <1>2, <3>2
          DEF RequestStep, PluginsDone, SkipBuiltins, RunBuiltins, BuiltinsDone,
              FlushCollector, Answer, pluginVars, execVars
        <4> QED BY <1>0, <4>1, BatchesKept
      <3> QED BY <3>1, <3>2
    <2> QED BY <1>0, <1>2, <2>1, <2>2, RunsKept, RequestStepRequests DEF IInv
  <1>3. ASSUME NEW c \in Callers, NEW p \in Plugins,
               ExecStep(c, p) \/ ProcessStep(c, p) \/ Kill(c, p),
               UNCHANGED <<requestVars, builtinVars>>
        PROVE  IInv'
    <2>1. UNCHANGED asked
      BY <1>3 DEF requestVars
    <2>2. RunsInv'
      BY <1>0, <1>3, <2>1, ExecStepRuns, ProcessStepRuns
    <2> QED BY <1>0, <1>3, <2>2, RequestsKept, ExecStepBatches DEF IInv
  <1>4. ASSUME NEW p \in Plugins, TTLExpires(p), UNCHANGED <<requestVars, builtinVars>> PROVE IInv'
    <2>1. UNCHANGED <<running, asked, metrics, prevMetrics, at, lines, first, emitted>>
      BY <1>4 DEF TTLExpires, execVars, requestVars
    <2> QED BY <1>0, <1>4, <2>1, RunsKept, BatchesKept, RequestsKept DEF IInv
  <1>5. ASSUME NEW r \in Requests, NEW k \in Collectors, CollectStep(r, k) PROVE IInv'
    <2>1. UNCHANGED <<pluginVars, execVars, requestVars>>
      BY <1>5
      DEF CollectStep, CollectRefused, CollectEnter, Collected, CollectFails,
          CollectAbandoned, SetStatus, CollectOnly
    <2>2. UNCHANGED <<running, asked, metrics, prevMetrics, at, lines, first, emitted>>
      BY <2>1 DEF pluginVars, execVars, requestVars
    <2> QED BY <1>0, <1>5, <2>2, RunsKept, BatchesKept, CollectStepRequests DEF IInv
  <1>6. ASSUME Cancel \/ UNCHANGED vars PROVE IInv'
    <2>1. UNCHANGED <<pluginVars, execVars, requestVars, builtinVars>>
      BY <1>6 DEF Cancel, vars
    <2>2. UNCHANGED <<running, asked, metrics, prevMetrics, at, lines, first, emitted>>
      BY <2>1 DEF pluginVars, execVars, requestVars
    <2> QED BY <1>0, <2>1, <2>2, RunsKept, BatchesKept, RequestsKept DEF IInv
  <1>7. CASE Next
    <2>1. CASE \E r \in Requests : Ask(r) \/ RequestStep(r)
      BY <2>1, <1>1, <1>2
    <2>2. CASE \E c \in Callers, p \in Plugins : PluginStep(c, p) \/ Killed(c, p)
      BY <2>2, <1>3 DEF PluginStep, Killed
    <2>3. CASE \E c \in Callers, p \in Plugins :
                   ProcessStep(c, p) /\ UNCHANGED <<requestVars, builtinVars>>
      BY <2>3, <1>3
    <2>4. CASE \E p \in Plugins : TTLExpires(p) /\ UNCHANGED <<requestVars, builtinVars>>
      BY <2>4, <1>4
    <2>5. CASE \E r \in Requests, k \in Collectors : CollectStep(r, k)
      BY <2>5, <1>5
    <2> QED BY <1>6, <1>7, <2>1, <2>2, <2>3, <2>4, <2>5 DEF Next
  <1> QED BY <1>6, <1>7

LEMMA IInvHolds == Spec => []IInv
  <1>1. Init => IInv
    BY InitPluginType, InitRequests, InitRuns DEF IInv
  <1> QED BY <1>1, NextIInv, PTL DEF Spec

(* Every variable of a collection stays in its range, and running of the     *)
(* builtins is set exactly while a request waits for them (builtins.go:71-86,*)
(* 139-141).                                                                 *)
THEOREM TypeCorrect == Spec => []TypeOK
  <1>1. IInv => TypeOK
    BY DEF IInv, RequestInv, RequestTypeOK, CollectorTypeOK, OneWaits, Waiting, TypeOK
  <1> QED BY <1>1, IInvHolds, PTL

(* running of a plugin is set exactly while one exec is past its guards, on  *)
(* every path out of exec (plugin.go:256-332, 398).                          *)
THEOREM OneRunAtATime == Spec => []RunningIsAccurate
  <1>1. IInv => RunningIsAccurate
    BY DEF IInv, RunsInv
  <1> QED BY <1>1, IInvHolds, PTL

(* However requests and runs interleave, drains never go back to an older    *)
(* batch, and a batch never mixes two runs (plugin.go:25-43, 61-67, 334-365).*)
THEOREM BatchesNeverGoBack == Spec => []BatchesInOrder
  <1>1. IInv => BatchesInOrder
    BY DEF IInv, BatchInv
  <1> QED BY <1>1, IInvHolds, PTL

-----------------------------------------------------------------------------
(* A request that ran a source gets nothing older than that run.             *)

(* What is drained of a plugin after an exec of it ended, and what a later   *)
(* exec holds, is of that exec or newer; an exec that ran nothing is older   *)
(* than all.                                                                 *)
FreshInv ==
    \A c \in Callers, p \in Plugins :
        /\ at[<<c, p>>] \in {"none", "enter", "start"} => first[<<c, p>>] = 0
        /\ at[<<c, p>>] \in {"wait", "done"} =>
             /\ \A n \in Drained(p) : n >= first[<<c, p>>]
             /\ \A d \in Callers : \A n \in lines[<<d, p>>] : n >= first[<<c, p>>]

LEMMA InitFresh == ASSUME Init PROVE FreshInv
  <1>1. \A c \in Callers, p \in Plugins :
            at[<<c, p>>] \in {"none", "enter"} /\ first[<<c, p>>] = 0
    BY ExecPairs DEF Init, PluginInit
  <1> QED BY <1>1 DEF FreshInv

LEMMA PlainTypes ==
    ASSUME PluginTypeOK, NEW c \in Callers, NEW p \in Plugins
    PROVE  /\ first[<<c, p>>] \in Nat /\ emitted[p] \in Nat
           /\ lines[<<c, p>>] \subseteq Nat /\ Drained(p) \subseteq Nat
           /\ at[<<c, p>>] \in {"none", "enter", "start", "scan", "wait", "done"}
  BY ExecPairs DEF PluginTypeOK, Drained

(* An exec goes on, and neither prints nor publishes.                        *)
LEMMA MoveKeepsFresh ==
    ASSUME PluginTypeOK, FreshInv, UNCHANGED <<published, metrics, prevMetrics, lines, first>>,
           NEW c \in Callers, NEW p \in Plugins,
           NEW place \in {"start", "done"}, Goto(c, p, place),
           place = "start" => at[<<c, p>>] = "enter",
           place = "done" => at[<<c, p>>] \in {"enter", "start", "wait"}
    PROVE  FreshInv'
  <1>1. \A d \in Callers, q \in Plugins :
            at'[<<d, q>>] = IF d = c /\ q = p THEN place ELSE at[<<d, q>>]
    BY ExecPairs DEF PluginTypeOK, Goto
  <1>2. \A q : Drained(q)' = Drained(q)
    BY DEF Drained
  <1>3. at[<<c, p>>] \in {"enter", "start"} => first[<<c, p>>] = 0
    BY DEF FreshInv
  <1>4. ASSUME NEW d \in Callers, NEW q \in Plugins, at'[<<d, q>>] \in {"none", "enter", "start"}
        PROVE  first'[<<d, q>>] = 0
    BY <1>1, <1>3, <1>4 DEF FreshInv
  <1>5. ASSUME NEW d \in Callers, NEW q \in Plugins, at'[<<d, q>>] \in {"wait", "done"}
        PROVE  /\ \A n \in Drained(q)' : n >= first'[<<d, q>>]
               /\ \A e \in Callers : \A n \in lines'[<<e, q>>] : n >= first'[<<d, q>>]
    <2>1. CASE at[<<d, q>>] \in {"wait", "done"}
      BY <1>2, <2>1 DEF FreshInv
    <2>2. CASE at[<<d, q>>] \notin {"wait", "done"}
      <3>1. d = c /\ q = p /\ first[<<d, q>>] = 0
        BY <1>1, <1>3, <1>5, <2>2
      <3>2. Drained(q) \subseteq Nat /\ \A e \in Callers : lines[<<e, q>>] \subseteq Nat
        BY PlainTypes
      <3> QED BY <1>2, <3>1, <3>2
    <2> QED BY <2>1, <2>2
  <1> QED BY <1>4, <1>5 DEF FreshInv

(* What ended before is as it was.                                           *)
LEMMA EndedKeepsFresh ==
    ASSUME FreshInv, UNCHANGED lines, \A q \in Plugins : Drained(q)' = Drained(q),
           \A d \in Callers, q \in Plugins :
               /\ at'[<<d, q>>] \in {"none", "enter", "start"} => first'[<<d, q>>] = 0
               /\ at'[<<d, q>>] \in {"wait", "done"} =>
                    at[<<d, q>>] \in {"wait", "done"} /\ first'[<<d, q>>] = first[<<d, q>>]
    PROVE  FreshInv'
  <1>1. ASSUME NEW d \in Callers, NEW q \in Plugins, at'[<<d, q>>] \in {"wait", "done"}
        PROVE  /\ \A n \in Drained(q)' : n >= first'[<<d, q>>]
               /\ \A e \in Callers : \A n \in lines'[<<e, q>>] : n >= first'[<<d, q>>]
    <2>1. at[<<d, q>>] \in {"wait", "done"} /\ first'[<<d, q>>] = first[<<d, q>>]
      BY <1>1
    <2>2. /\ \A n \in Drained(q) : n >= first[<<d, q>>]
          /\ \A e \in Callers : \A n \in lines[<<e, q>>] : n >= first[<<d, q>>]
      BY <2>1 DEF FreshInv
    <2> QED BY <2>1, <2>2
  <1> QED BY <1>1 DEF FreshInv

LEMMA StartKeepsFresh ==
    ASSUME PluginTypeOK, FreshInv, NEW c \in Callers, NEW p \in Plugins, Start(c, p)
    PROVE  FreshInv'
  <1>1. \A d \in Callers, q \in Plugins :
            at'[<<d, q>>] = IF d = c /\ q = p THEN "scan" ELSE at[<<d, q>>]
    <2>1. Goto(c, p, "scan")
      BY DEF Start
    <2> QED BY <2>1, ExecPairs DEF PluginTypeOK, Goto
  <1>2. \A d \in Callers, q \in Plugins : ~(d = c /\ q = p) => first'[<<d, q>>] = first[<<d, q>>]
    BY ExecPairs DEF Start, PluginTypeOK
  <1>3. lines' = lines /\ \A q : Drained(q)' = Drained(q)
    BY DEF Start, Drained, pluginVars
  <1>4. ASSUME NEW d \in Callers, NEW q \in Plugins
        PROVE  /\ at'[<<d, q>>] \in {"none", "enter", "start"} => first'[<<d, q>>] = 0
               /\ at'[<<d, q>>] \in {"wait", "done"} =>
                    at[<<d, q>>] \in {"wait", "done"} /\ first'[<<d, q>>] = first[<<d, q>>]
    <2>1. CASE d = c /\ q = p
      BY <1>1, <2>1
    <2>2. CASE ~(d = c /\ q = p)
      <3>1. at'[<<d, q>>] = at[<<d, q>>] /\ first'[<<d, q>>] = first[<<d, q>>]
        BY <1>1, <1>2, <2>2
      <3> QED BY <3>1 DEF FreshInv
    <2> QED BY <2>1, <2>2
  <1> QED BY <1>3, <1>4, EndedKeepsFresh

LEMMA LineKeepsFresh ==
    ASSUME PluginTypeOK, BatchInv, FreshInv, NEW c \in Callers, NEW p \in Plugins, Line(c, p)
    PROVE  FreshInv'
  <1>1. UNCHANGED <<at, first>> /\ \A q : Drained(q)' = Drained(q)
    BY DEF Line, Drained, pluginVars
  <1>2. \A d \in Callers, q \in Plugins :
            lines'[<<d, q>>] = IF d = c /\ q = p THEN lines[<<c, p>>] \cup {emitted[p] + 1}
                               ELSE lines[<<d, q>>]
    BY ExecPairs DEF Line, PluginTypeOK
  <1>3. ASSUME NEW d \in Callers, NEW q \in Plugins, at[<<d, q>>] \in {"wait", "done"},
               NEW e \in Callers, NEW n \in lines'[<<e, q>>]
        PROVE  n >= first[<<d, q>>]
    <2>1. CASE n \in lines[<<e, q>>]
      BY <1>3, <2>1 DEF FreshInv
    <2>2. CASE n \notin lines[<<e, q>>]
      <3>1. q = p /\ n = emitted[q] + 1
        BY <1>2, <2>2
      <3>2. first[<<d, q>>] <= emitted[q] + 1 /\ first[<<d, q>>] \in Nat /\ emitted[q] \in Nat
        BY PlainTypes DEF BatchInv, Printed
      <3> QED BY <3>1, <3>2
    <2> QED BY <2>1, <2>2
  <1> QED BY <1>1, <1>3 DEF FreshInv

(* What an exec publishes is its own, and newer than any that ended.         *)
LEMMA PublishKeepsFresh ==
    ASSUME PluginTypeOK, RunsInv, BatchInv, FreshInv, UNCHANGED <<prevMetrics, first>>,
           NEW c \in Callers, NEW p \in Plugins, at[<<c, p>>] = "scan",
           NEW parsed \in {lines[<<c, p>>], {}}, Publish(p, parsed),
           lines' = [lines EXCEPT ![<<c, p>>] = {}],
           at' = at \/ Goto(c, p, "wait")
    PROVE  FreshInv'
  <1>1. lines[<<c, p>>] \in SUBSET (1 .. MaxLines)
    BY ExecPairs DEF PluginTypeOK
  <1>2. \A q \in Plugins : Drained(q)' = IF q = p THEN parsed ELSE Drained(q)
    BY <1>1 DEF PluginTypeOK, Publish, Drained
  <1>3. \A d \in Callers, q \in Plugins :
            lines'[<<d, q>>] = IF d = c /\ q = p THEN {} ELSE lines[<<d, q>>]
    BY ExecPairs DEF PluginTypeOK
  <1>4. \A d \in Callers : lines'[<<d, p>>] = {}
    <2>1. ASSUME NEW d \in Callers, d # c PROVE lines[<<d, p>>] = {}
      <3>1. c \in Busy(p) /\ (lines[<<d, p>>] # {} => d \in Busy(p))
        BY DEF Busy, RunsInv, HeldInScan
      <3> QED BY <2>1, <3>1 DEF RunsInv, RunningIsAccurate
    <2> QED BY <1>3, <2>1
  <1>5. \A d \in Callers, q \in Plugins :
            ~(d = c /\ q = p) => at'[<<d, q>>] = at[<<d, q>>]
    BY GotoPlace
  <1>6. at'[<<c, p>>] \in {"scan", "wait"}
    BY GotoPlace
  <1>7. \A n \in lines[<<c, p>>] : n >= first[<<c, p>>]
    BY DEF BatchInv, BatchesInOrder
  <1>8. ASSUME NEW d \in Callers, NEW q \in Plugins, at'[<<d, q>>] \in {"wait", "done"}
        PROVE  /\ \A n \in Drained(q)' : n >= first[<<d, q>>]
               /\ \A e \in Callers : \A n \in lines'[<<e, q>>] : n >= first[<<d, q>>]
    <2>1. CASE q # p
      BY <1>2, <1>3, <1>5, <1>8, <2>1 DEF FreshInv
    <2>2. CASE q = p /\ d = c
      BY <1>2, <1>4, <1>7, <2>2
    <2>3. CASE q = p /\ d # c
      <3>1. at[<<d, p>>] \in {"wait", "done"}
        BY <1>5, <1>8, <2>3
      <3>2. \A n \in lines[<<c, p>>] : n >= first[<<d, p>>]
        BY <3>1 DEF FreshInv
      <3> QED BY <1>2, <1>4, <2>3, <3>2
    <2> QED BY <2>1, <2>2, <2>3
  <1>9. ASSUME NEW d \in Callers, NEW q \in Plugins, at'[<<d, q>>] \in {"none", "enter", "start"}
        PROVE  first[<<d, q>>] = 0
    <2>1. at[<<d, q>>] \in {"none", "enter", "start"}
      BY <1>5, <1>6, <1>9
    <2> QED BY <2>1 DEF FreshInv
  <1> QED BY <1>8, <1>9 DEF FreshInv

LEMMA FreshKept ==
    ASSUME FreshInv, UNCHANGED <<published, metrics, prevMetrics, at, lines, first>>
    PROVE  FreshInv'
  BY DEF FreshInv, Drained

LEMMA ExecKeepsFresh ==
    ASSUME PluginTypeOK, RunsInv, BatchInv, FreshInv, NEW c \in Callers, NEW p \in Plugins,
           ExecStep(c, p) \/ ProcessStep(c, p) \/ Kill(c, p)
    PROVE  FreshInv'
  <1>1. CASE TTLNotExpired(c, p) \/ AlreadyRunning(c, p) \/ StartFails(c, p) \/ Wait(c, p)
    <2>1. /\ UNCHANGED <<published, metrics, prevMetrics, lines, first>>
          /\ Goto(c, p, "done") /\ at[<<c, p>>] \in {"enter", "start", "wait"}
      BY <1>1 DEF TTLNotExpired, AlreadyRunning, StartFails, Wait, pluginVars
    <2> QED BY <2>1, MoveKeepsFresh
  <1>2. CASE Enter(c, p)
    <2>1. /\ UNCHANGED <<published, metrics, prevMetrics, lines, first>>
          /\ Goto(c, p, "start") /\ at[<<c, p>>] = "enter"
      BY <1>2 DEF Enter
    <2> QED BY <2>1, MoveKeepsFresh
  <1>3. CASE Start(c, p)
    BY <1>3, StartKeepsFresh
  <1>4. CASE Line(c, p)
    BY <1>4, LineKeepsFresh
  <1>5. CASE Blank(c, p) \/ ParseRest(c, p)
    <2>1. /\ UNCHANGED <<prevMetrics, first>> /\ at[<<c, p>>] = "scan"
          /\ at' = at \/ Goto(c, p, "wait")
          /\ lines' = [lines EXCEPT ![<<c, p>>] = {}]
      BY <1>5 DEF Blank, ParseRest
    <2>2. PICK parsed \in {lines[<<c, p>>], {}} : Publish(p, parsed)
      BY <1>5 DEF Blank, ParseRest
    <2> QED BY <2>1, <2>2, PublishKeepsFresh
  <1>6. CASE Exit(c, p)
    BY <1>6, FreshKept DEF Exit, pluginVars
  <1> QED BY <1>1, <1>2, <1>3, <1>4, <1>5, <1>6 DEF ExecStep, ProcessStep, Kill

LEMMA DrainKeepsFresh ==
    ASSUME PluginTypeOK, FreshInv, NEW p \in Plugins, Drain(p), UNCHANGED execVars
    PROVE  FreshInv'
  <1>1. \A q \in Plugins : Drained(q)' = Drained(q)
    BY DEF Drain, Drained, PluginTypeOK
  <1>2. UNCHANGED <<at, lines, first>>
    BY DEF execVars
  <1> QED BY <1>1, <1>2 DEF FreshInv

LEMMA AskKeepsFresh ==
    ASSUME PluginTypeOK, RunsInv, FreshInv, NEW r \in Requests, Ask(r) PROVE FreshInv'
  <1>1. \A d \in Callers, q \in Plugins :
            at'[<<d, q>>] = IF d = r /\ asked'[r] \in {All, q} THEN "enter" ELSE at[<<d, q>>]
    BY ExecPairs DEF Ask
  <1>2. \A q \in Plugins : at[<<r, q>>] = "none"
    BY DEF Ask, RunsInv, NotAsked
  <1>3. UNCHANGED <<lines, first>> /\ \A q : Drained(q)' = Drained(q)
    BY DEF Ask, Drained, pluginVars
  <1>4. ASSUME NEW d \in Callers, NEW q \in Plugins
        PROVE  /\ at'[<<d, q>>] \in {"none", "enter", "start"} => first[<<d, q>>] = 0
               /\ at'[<<d, q>>] \in {"wait", "done"} => at[<<d, q>>] \in {"wait", "done"}
    <2>1. at'[<<d, q>>] = at[<<d, q>>] \/ (at'[<<d, q>>] = "enter" /\ at[<<d, q>>] = "none")
      BY <1>1, <1>2
    <2>2. at[<<d, q>>] \in {"none", "enter", "start"} => first[<<d, q>>] = 0
      BY DEF FreshInv
    <2> QED BY <2>1, <2>2
  <1> QED BY <1>3, <1>4, EndedKeepsFresh

(* A request flushes a plugin when its exec of it has ended, if it had one.  *)
FlushedInv ==
    \A r \in Requests, p \in Plugins :
        /\ p \in left[r] \/ got[r][p] # {} => at[<<r, p>>] = "done"
        /\ \A n \in got[r][p] : n >= first[<<r, p>>]

LEMMA InitFlushed == ASSUME Init PROVE FlushedInv
  BY DEF Init, FlushedInv, Sources

(* An exec that ended does not move, and what was got of it is its own.      *)
LEMMA ExecKeepsFlushed ==
    ASSUME PluginTypeOK, FlushedInv, NEW c \in Callers, NEW p \in Plugins,
           ExecStep(c, p) \/ ProcessStep(c, p) \/ Kill(c, p), UNCHANGED requestVars
    PROVE  FlushedInv'
  <1>1. left' = left /\ got' = got
    BY DEF requestVars
  <1>2. \A d \in Callers, q \in Plugins :
            at[<<d, q>>] = "done" => at'[<<d, q>>] = "done" /\ first'[<<d, q>>] = first[<<d, q>>]
    <2>1. at' = at \/ (at[<<c, p>>] # "done" /\ \E place : Goto(c, p, place))
      BY DEF ExecStep, ProcessStep, Kill, TTLNotExpired, AlreadyRunning, Enter, StartFails, Start,
         ParseRest, Wait, Line, Blank, Exit
    <2>2. first' = first \/ (at[<<c, p>>] # "done" /\ \E n : first' = [first EXCEPT ![<<c, p>>] = n])
      BY DEF ExecStep, ProcessStep, Kill, TTLNotExpired, AlreadyRunning, Enter, StartFails, Start,
         ParseRest, Wait, Line, Blank, Exit
    <2>3. ASSUME NEW d \in Callers, NEW q \in Plugins, at[<<d, q>>] = "done"
          PROVE  at'[<<d, q>>] = "done"
      BY <2>1, <2>3, ExecPairs DEF Goto, PluginTypeOK
    <2>4. ASSUME NEW d \in Callers, NEW q \in Plugins, at[<<d, q>>] = "done"
          PROVE  first'[<<d, q>>] = first[<<d, q>>]
      BY <2>2, <2>4, ExecPairs DEF PluginTypeOK
    <2> QED BY <2>3, <2>4
  <1>3. \A r \in Requests, q \in Plugins : got[r][q] # {} => at[<<r, q>>] = "done"
    BY DEF FlushedInv
  <1> QED BY <1>1, <1>2, <1>3 DEF FlushedInv, Requests

LEMMA FlushedKept ==
    ASSUME FlushedInv, UNCHANGED <<at, first>>,
           \A r \in Requests, p \in Plugins :
               /\ got'[r][p] = got[r][p]
               /\ p \in left'[r] => p \in left[r] \/ at[<<r, p>>] = "done"
    PROVE  FlushedInv'
  BY DEF FlushedInv

LEMMA FlushKeepsFlushed ==
    ASSUME PluginTypeOK, RequestInv, FreshInv, FlushedInv,
           NEW r \in Requests, NEW p \in Plugins, FlushPlugin(r, p)
    PROVE  FlushedInv'
  <1>1. UNCHANGED <<at, first>> /\ at[<<r, p>>] = "done"
    BY DEF FlushPlugin, execVars, FlushedInv
  <1>2. \A n \in Drained(p) : n >= first[<<r, p>>]
    BY <1>1 DEF FreshInv, Requests
  <1>3. \A q \in Requests, s \in Plugins :
            got'[q][s] = IF q = r /\ s = p THEN Drained(p) ELSE got[q][s]
    BY DEF FlushPlugin, RequestInv, RequestTypeOK, Sources
  <1>4. \A q \in Requests : left'[q] \subseteq left[q]
    BY DEF FlushPlugin, RequestInv, RequestTypeOK
  <1>5. ASSUME NEW q \in Requests, NEW s \in Plugins
        PROVE  /\ s \in left'[q] \/ got'[q][s] # {} => at[<<q, s>>] = "done"
               /\ \A n \in got'[q][s] : n >= first[<<q, s>>]
    <2>1. CASE q = r /\ s = p
      BY <1>1, <1>2, <1>3, <2>1
    <2>2. CASE ~(q = r /\ s = p)
      <3>1. got'[q][s] = got[q][s] /\ (s \in left'[q] => s \in left[q])
        BY <1>3, <1>4, <2>2
      <3> QED BY <3>1 DEF FlushedInv
    <2> QED BY <2>1, <2>2
  <1> QED BY <1>1, <1>5 DEF FlushedInv

LEMMA RequestKeepsFlushed ==
    ASSUME PluginTypeOK, RequestInv, FreshInv, FlushedInv, NEW r \in Requests, RequestStep(r)
    PROVE  FlushedInv'
  <1>1. ASSUME NEW k \in Collectors, FlushCollector(r, k) PROVE FlushedInv'
    <2>1. UNCHANGED <<at, first>>
      BY <1>1 DEF FlushCollector, execVars
    <2>2. \A q \in Requests, s \in Plugins : got'[q][s] = got[q][s] /\ left'[q] \subseteq left[q]
      BY <1>1, CollectionAssumption
      DEF FlushCollector, RequestInv, RequestTypeOK, Sources, CollectionAssumption
    <2> QED BY <2>1, <2>2, FlushedKept
  <1>2. CASE PluginsDone(r)
    <2>1. UNCHANGED <<at, first, got>>
      BY <1>2 DEF PluginsDone, execVars
    <2>2. \A q \in Requests : left'[q] = IF q = r THEN left[r] \cup Wanted(r, Plugins) ELSE left[q]
      BY <1>2 DEF PluginsDone, RequestInv, RequestTypeOK
    <2>3. \A p \in Wanted(r, Plugins) : at[<<r, p>>] = "done"
      BY <1>2 DEF PluginsDone
    <2> QED BY <2>1, <2>2, <2>3, FlushedKept
  <1>3. CASE SkipBuiltins(r) \/ BuiltinsDone(r)
    <2>1. UNCHANGED <<at, first, got>>
      BY <1>3 DEF SkipBuiltins, BuiltinsDone, execVars
    <2>2. \A q \in Requests : left'[q] = IF q = r THEN left[r] \cup Collectors ELSE left[q]
      BY <1>3 DEF SkipBuiltins, BuiltinsDone, RequestInv, RequestTypeOK
    <2>3. Collectors \cap Plugins = {}
      BY CollectionAssumption DEF CollectionAssumption
    <2> QED BY <2>1, <2>2, <2>3, FlushedKept
  <1>4. CASE RunBuiltins(r) \/ Answer(r)
    <2>1. UNCHANGED <<at, first, left, got>>
      BY <1>4 DEF RunBuiltins, Answer, execVars
    <2> QED BY <2>1, FlushedKept
  <1> QED BY <1>1, <1>2, <1>3, <1>4, FlushKeepsFlushed DEF RequestStep

LEMMA AskKeepsFlushed ==
    ASSUME PluginTypeOK, RunsInv, FlushedInv, NEW r \in Requests, Ask(r) PROVE FlushedInv'
  <1>1. \A d \in Callers, q \in Plugins : d # r => at'[<<d, q>>] = at[<<d, q>>]
    BY ExecPairs DEF Ask
  <1>2. \A q \in Plugins : at[<<r, q>>] = "none"
    BY DEF Ask, RunsInv, NotAsked
  <1>3. UNCHANGED <<first, left, got>>
    BY DEF Ask
  <1>4. \A q \in Plugins : q \notin left[r] /\ got[r][q] = {}
    BY <1>2 DEF FlushedInv
  <1>5. ASSUME NEW q \in Requests, NEW p \in Plugins
        PROVE  /\ p \in left[q] \/ got[q][p] # {} => at'[<<q, p>>] = "done"
               /\ \A n \in got[q][p] : n >= first[<<q, p>>]
    <2>1. CASE q = r
      BY <1>4, <2>1
    <2>2. CASE q # r
      <3>1. q \in Callers /\ at'[<<q, p>>] = at[<<q, p>>]
        BY <1>1, <2>2 DEF Requests
      <3> QED BY <3>1 DEF FlushedInv
    <2> QED BY <2>1, <2>2
  <1> QED BY <1>3, <1>5 DEF FlushedInv

(* A request collects, of what it wants, before it flushes.                  *)
InOrder(r, k) ==
    /\ collect[<<r, k>>] # "none" => k \in Wanted(r, Collectors)
    /\ stage[<<r, "builtins">>] \in {"none", "run"} => collect[<<r, k>>] = "none"
    /\ stage[<<r, "builtins">>] # "flush" => k \notin left[r] /\ got[r][k] = {}
    /\ stage[<<r, "builtins">>] = "flush" => collect[<<r, k>>] \in {"none", "done"}

CollectInv == \A r \in Requests, k \in Collectors : InOrder(r, k)

(* Samples are numbered, and the metrics kept are of the last.               *)
SampledInv ==
    \A r \in Requests, k \in Collectors :
        /\ sample[<<r, k>>] <= sampled[k]
        /\ \A n \in lastMetrics[k] \cup got[r][k] : n >= sample[<<r, k>>]

LEMMA InitCollects == ASSUME Init PROVE CollectInv /\ SampledInv
  <1>1. \A r \in Requests, k \in Collectors : collect[<<r, k>>] = "none" /\ sample[<<r, k>>] = 0
    BY CollectPairs DEF Init
  <1>2. \A r \in Requests : stage[<<r, "builtins">>] = "none" /\ left[r] = {}
    BY StagePairs DEF Init
  <1>3. \A r \in Requests, k \in Collectors :
            got[r][k] = {} /\ lastMetrics[k] = {} /\ sampled[k] = 0
    BY DEF Init, Sources
  <1> QED BY <1>1, <1>2, <1>3 DEF CollectInv, InOrder, SampledInv

LEMMA CollectsKept ==
    ASSUME CollectInv, SampledInv, UNCHANGED <<asked, sample, sampled, lastMetrics>>,
           \A r \in Requests, k \in Collectors :
               /\ collect'[<<r, k>>] = collect[<<r, k>>] /\ got'[r][k] = got[r][k]
               /\ stage'[<<r, "builtins">>] = stage[<<r, "builtins">>]
               /\ k \in left'[r] => k \in left[r]
    PROVE  CollectInv' /\ SampledInv'
  <1>1. ASSUME NEW q \in Requests, NEW c \in Collectors PROVE InOrder(q, c)'
    <2>1. InOrder(q, c)
      BY DEF CollectInv, InOrder
    <2> QED BY <2>1 DEF InOrder, Wanted
  <1>2. SampledInv'
    <2>1. ASSUME NEW q \in Requests, NEW c \in Collectors
          PROVE  /\ sample[<<q, c>>] <= sampled[c] /\ got'[q][c] = got[q][c]
                 /\ \A n \in lastMetrics[c] \cup got[q][c] : n >= sample[<<q, c>>]
      <3>1. got'[q][c] = got[q][c]
        OBVIOUS
      <3>2. /\ sample[<<q, c>>] <= sampled[c]
            /\ \A n \in lastMetrics[c] \cup got[q][c] : n >= sample[<<q, c>>]
        BY SampledInv DEF SampledInv
      <3> QED BY <3>1, <3>2
    <2> QED BY <2>1 DEF SampledInv
  <1> QED BY <1>1, <1>2 DEF CollectInv, InOrder

LEMMA AskKeepsCollects ==
    ASSUME RequestInv, CollectInv, SampledInv, NEW r \in Requests, Ask(r)
    PROVE  CollectInv' /\ SampledInv'
  <1>1. UNCHANGED <<collect, left, got, sample, sampled, lastMetrics>>
    BY DEF Ask, builtinVars
  <1>2. stage[<<r, "builtins">>] = "none"
    BY DEF Ask, RequestInv, OneWaits
  <1>3. \A k \in Collectors : collect[<<r, k>>] = "none" /\ k \notin left[r] /\ got[r][k] = {}
    BY <1>2 DEF CollectInv, InOrder
  <1>4. \A q \in Requests : q # r =>
            asked'[q] = asked[q] /\ stage'[<<q, "builtins">>] = stage[<<q, "builtins">>]
    BY StagePairs DEF Ask, RequestInv, RequestTypeOK
  <1>5. ASSUME NEW q \in Requests, NEW k \in Collectors PROVE InOrder(q, k)'
    <2>1. CASE q = r
      BY <1>1, <1>3, <2>1 DEF InOrder
    <2>2. CASE q # r
      BY <1>1, <1>4, <2>2 DEF CollectInv, InOrder, Wanted
    <2> QED BY <2>1, <2>2
  <1>6. SampledInv'
    BY <1>1 DEF SampledInv
  <1> QED BY <1>5, <1>6 DEF CollectInv, InOrder

LEMMA RunKeepsCollects ==
    ASSUME RequestInv, CollectInv, SampledInv, NEW r \in Requests,
           SkipBuiltins(r) \/ RunBuiltins(r) \/ BuiltinsDone(r)
    PROVE  CollectInv' /\ SampledInv'
  <1>1. UNCHANGED <<asked, got, sample, sampled, lastMetrics>>
    BY DEF SkipBuiltins, RunBuiltins, BuiltinsDone, builtinVars
  <1>2. SampledInv'
    BY <1>1 DEF SampledInv
  <1>3. \A q \in Requests : q # r =>
            /\ stage'[<<q, "builtins">>] = stage[<<q, "builtins">>] /\ left'[q] = left[q]
            /\ \A k \in Collectors : collect'[<<q, k>>] = collect[<<q, k>>]
    <2>1. \A q \in Requests : q # r => stage'[<<q, "builtins">>] = stage[<<q, "builtins">>]
      BY StagePairs DEF SkipBuiltins, RunBuiltins, BuiltinsDone, Move, RequestInv, RequestTypeOK
    <2>2. \A q \in Requests : q # r => left'[q] = left[q]
      BY DEF SkipBuiltins, RunBuiltins, BuiltinsDone, RequestInv, RequestTypeOK
    <2>3. \A q \in Requests, k \in Collectors : q # r => collect'[<<q, k>>] = collect[<<q, k>>]
      BY CollectPairs
      DEF SkipBuiltins, RunBuiltins, BuiltinsDone, builtinVars, RequestInv, CollectorTypeOK
    <2> QED BY <2>1, <2>2, <2>3
  <1>4. ASSUME NEW k \in Collectors PROVE InOrder(r, k)'
    <2>1. CASE SkipBuiltins(r)
      <3>1. /\ stage[<<r, "builtins">>] = "run" /\ stage'[<<r, "builtins">>] = "flush"
            /\ collect' = collect
        BY <2>1, StagePairs DEF SkipBuiltins, Move, RequestInv, RequestTypeOK, builtinVars
      <3>2. collect[<<r, k>>] = "none"
        BY <3>1 DEF CollectInv, InOrder
      <3> QED BY <3>1, <3>2 DEF InOrder
    <2>2. CASE RunBuiltins(r)
      <3>1. /\ stage[<<r, "builtins">>] = "run" /\ stage'[<<r, "builtins">>] = "wait"
            /\ left' = left
        BY <2>2, StagePairs DEF RunBuiltins, Move, RequestInv, RequestTypeOK
      <3>2. collect'[<<r, k>>] = IF k \in Wanted(r, Collectors) THEN "enter" ELSE collect[<<r, k>>]
        BY <2>2, CollectPairs DEF RunBuiltins
      <3>3. collect[<<r, k>>] = "none" /\ k \notin left[r] /\ got[r][k] = {}
        BY <3>1 DEF CollectInv, InOrder
      <3> QED BY <1>1, <3>1, <3>2, <3>3 DEF InOrder, Wanted
    <2>3. CASE BuiltinsDone(r)
      <3>1. /\ stage'[<<r, "builtins">>] = "flush" /\ collect' = collect
            /\ k \in Wanted(r, Collectors) => collect[<<r, k>>] = "done"
        BY <2>3, StagePairs DEF BuiltinsDone, Move, RequestInv, RequestTypeOK
      <3>2. collect[<<r, k>>] # "none" => k \in Wanted(r, Collectors)
        BY DEF CollectInv, InOrder
      <3> QED BY <1>1, <3>1, <3>2 DEF InOrder, Wanted
    <2> QED BY <2>1, <2>2, <2>3
  <1>5. ASSUME NEW q \in Requests, NEW k \in Collectors PROVE InOrder(q, k)'
    <2>1. CASE q # r
      BY <1>1, <1>3, <2>1 DEF CollectInv, InOrder, Wanted
    <2> QED BY <1>4, <2>1
  <1> QED BY <1>2, <1>5 DEF CollectInv, InOrder

LEMMA RequestKeepsCollects ==
    ASSUME RequestInv, CollectInv, SampledInv, NEW r \in Requests, RequestStep(r)
    PROVE  CollectInv' /\ SampledInv'
  <1>0. Collectors \cap Plugins = {}
    BY CollectionAssumption DEF CollectionAssumption
  <1>1. CASE PluginsDone(r)
    <2>1. UNCHANGED <<asked, got, collect, sample, sampled, lastMetrics>>
      BY <1>1 DEF PluginsDone, builtinVars
    <2>2. \A q \in Requests : stage'[<<q, "builtins">>] = stage[<<q, "builtins">>]
      BY <1>1, StagePairs DEF PluginsDone, Move, RequestInv, RequestTypeOK
    <2>3. \A q \in Requests, k \in Collectors : k \in left'[q] => k \in left[q]
      BY <1>0, <1>1 DEF PluginsDone, RequestInv, RequestTypeOK, Wanted
    <2> QED BY <2>1, <2>2, <2>3, CollectsKept
  <1>2. ASSUME NEW p \in Plugins, FlushPlugin(r, p) PROVE CollectInv' /\ SampledInv'
    <2>1. UNCHANGED <<asked, stage, collect, sample, sampled, lastMetrics>>
      BY <1>2 DEF FlushPlugin, builtinVars
    <2>2. \A q \in Requests, k \in Collectors : got'[q][k] = got[q][k] /\ left'[q] \subseteq left[q]
      BY <1>0, <1>2 DEF FlushPlugin, RequestInv, RequestTypeOK, Sources
    <2> QED BY <2>1, <2>2, CollectsKept
  <1>3. ASSUME NEW k \in Collectors, FlushCollector(r, k) PROVE CollectInv' /\ SampledInv'
    <2>1. /\ UNCHANGED <<asked, stage, collect, sample, sampled, lastMetrics>>
          /\ stage[<<r, "builtins">>] = "flush"
      BY <1>3 DEF FlushCollector, builtinVars
    <2>2. \A q \in Requests, c \in Collectors :
              got'[q][c] = IF q = r /\ c = k THEN lastMetrics[k] ELSE got[q][c]
      BY <1>3 DEF FlushCollector, RequestInv, RequestTypeOK, Sources
    <2>3. \A q \in Requests : left'[q] \subseteq left[q]
      BY <1>3 DEF FlushCollector, RequestInv, RequestTypeOK
    <2>4. ASSUME NEW q \in Requests, NEW c \in Collectors PROVE InOrder(q, c)'
      <3>1. InOrder(q, c)
        BY DEF CollectInv, InOrder
      <3>2. got'[q][c] = got[q][c] \/ q = r
        BY <2>2
      <3> QED BY <2>1, <2>3, <3>1, <3>2 DEF InOrder, Wanted
    <2>5. SampledInv'
      BY <2>1, <2>2 DEF SampledInv
    <2> QED BY <2>4, <2>5 DEF CollectInv, InOrder
  <1>4. CASE Answer(r)
    BY <1>4, CollectsKept DEF Answer, builtinVars
  <1> QED BY <1>1, <1>2, <1>3, <1>4, RunKeepsCollects DEF RequestStep

(* A request that collects has got nothing of the collector yet.             *)
LEMMA CollectKeepsCollects ==
    ASSUME RequestInv, CollectInv, SampledInv,
           NEW r \in Requests, NEW k \in Collectors, CollectStep(r, k)
    PROVE  CollectInv' /\ SampledInv'
  <1>1. UNCHANGED <<asked, stage, left, got>>
    BY DEF CollectStep, CollectRefused, CollectEnter, Collected, CollectFails, CollectAbandoned,
       SetStatus, CollectOnly, requestVars
  <1>2. PICK place \in {"read", "done"} :
          Place(r, k, place) /\ collect[<<r, k>>] \in {"enter", "read"}
    BY DEF CollectStep, CollectRefused, CollectEnter, Collected, CollectFails, CollectAbandoned,
       SetStatus
  <1>3. \A q \in Requests, c \in Collectors :
            collect'[<<q, c>>] = IF q = r /\ c = k THEN place ELSE collect[<<q, c>>]
    BY <1>2, CollectPairs DEF Place, RequestInv, CollectorTypeOK
  <1>4. stage[<<r, "builtins">>] = "wait" /\ got[r][k] = {} /\ k \in Wanted(r, Collectors)
    <2>1. stage[<<r, "builtins">>] \in {"none", "run", "wait", "flush"}
      BY StagePairs DEF RequestInv, RequestTypeOK
    <2> QED BY <1>2, <2>1 DEF CollectInv, InOrder
  <1>5. CollectInv'
    <2>1. ASSUME NEW q \in Requests, NEW c \in Collectors PROVE InOrder(q, c)'
      <3>1. InOrder(q, c)
        BY DEF CollectInv, InOrder
      <3>2. CASE q = r /\ c = k
        <4>1. collect'[<<q, c>>] = place
          BY <1>3, <3>2
        <4> QED BY <1>1, <1>4, <3>1, <3>2, <4>1 DEF InOrder, Wanted
      <3>3. CASE ~(q = r /\ c = k)
        <4>1. collect'[<<q, c>>] = collect[<<q, c>>]
          BY <1>3, <3>3
        <4> QED BY <1>1, <3>1, <4>1 DEF InOrder, Wanted
      <3> QED BY <3>2, <3>3
    <2> QED BY <2>1 DEF CollectInv, InOrder
  <1>6. CASE Collected(r, k) \/ CollectFails(r, k)
    <2>1. PICK result \in {{sampled[k] + 1}, {}} : SetStatus(r, k, result)
      BY <1>6 DEF Collected, CollectFails
    <2>2. \A c \in Collectors : sampled'[c] = IF c = k THEN sampled[k] + 1 ELSE sampled[c]
      BY <2>1 DEF SetStatus, RequestInv, CollectorTypeOK
    <2>3. \A c \in Collectors : lastMetrics'[c] = IF c = k THEN result ELSE lastMetrics[c]
      BY <2>1 DEF SetStatus, RequestInv, CollectorTypeOK
    <2>4. \A q \in Requests, c \in Collectors :
              sample'[<<q, c>>] = IF q = r /\ c = k THEN sampled[k] + 1 ELSE sample[<<q, c>>]
      BY <2>1, CollectPairs DEF SetStatus, RequestInv, CollectorTypeOK
    <2>5. \A q \in Requests, c \in Collectors : sampled[c] \in Nat /\ sample[<<q, c>>] \in Nat
      BY CollectPairs DEF RequestInv, CollectorTypeOK
    <2>6. ASSUME NEW q \in Requests, NEW c \in Collectors
          PROVE  /\ sample'[<<q, c>>] <= sampled'[c]
                 /\ \A n \in lastMetrics'[c] \cup got[q][c] : n >= sample'[<<q, c>>]
      <3>1. sample[<<q, c>>] <= sampled[c]
        BY DEF SampledInv
      <3>2. \A n \in lastMetrics[c] \cup got[q][c] : n >= sample[<<q, c>>]
        BY DEF SampledInv
      <3>3. CASE c # k
        BY <2>2, <2>3, <2>4, <3>1, <3>2, <3>3
      <3>4. CASE c = k /\ q # r
        <4>1. /\ sample'[<<q, c>>] = sample[<<q, c>>] /\ sampled'[c] = sampled[c] + 1
              /\ \A n \in lastMetrics'[c] : n = sampled[c] + 1
          BY <2>2, <2>3, <2>4, <3>4
        <4> QED BY <2>5, <3>1, <3>2, <4>1
      <3>5. CASE c = k /\ q = r
        <4>1. /\ sample'[<<q, c>>] = sampled[c] + 1 /\ sampled'[c] = sampled[c] + 1
              /\ \A n \in lastMetrics'[c] : n = sampled[c] + 1
              /\ got[q][c] = {}
          BY <1>4, <2>2, <2>3, <2>4, <3>5
        <4> QED BY <2>5, <4>1
      <3> QED BY <3>3, <3>4, <3>5
    <2> QED BY <1>1, <1>5, <2>6 DEF SampledInv
  <1>7. CASE CollectRefused(r, k) \/ CollectEnter(r, k) \/ CollectAbandoned(r, k)
    BY <1>1, <1>5, <1>7 DEF CollectRefused, CollectEnter, CollectAbandoned, SampledInv
  <1> QED BY <1>6, <1>7 DEF CollectStep

OwnRunInv == FreshInv /\ FlushedInv /\ CollectInv /\ SampledInv

LEMMA OwnRunKept ==
    ASSUME OwnRunInv, UNCHANGED <<pluginVars, execVars, requestVars, builtinVars>>
    PROVE  OwnRunInv'
  <1>1. FreshInv'
    BY FreshKept DEF OwnRunInv, pluginVars, execVars
  <1>2. FlushedInv'
    BY FlushedKept DEF OwnRunInv, execVars, requestVars
  <1>3. CollectInv' /\ SampledInv'
    BY CollectsKept DEF OwnRunInv, requestVars, builtinVars
  <1> QED BY <1>1, <1>2, <1>3 DEF OwnRunInv

LEMMA NextOwnRun == ASSUME IInv, OwnRunInv, [Next]_vars PROVE OwnRunInv'
  <1>0. /\ PluginTypeOK /\ RequestInv /\ RunsInv /\ BatchInv
        /\ FreshInv /\ FlushedInv /\ CollectInv /\ SampledInv
    BY DEF IInv, OwnRunInv
  <1>1. ASSUME NEW r \in Requests, Ask(r) PROVE OwnRunInv'
    BY <1>0, <1>1, AskKeepsFresh, AskKeepsFlushed, AskKeepsCollects DEF OwnRunInv
  <1>2. ASSUME NEW r \in Requests, RequestStep(r) PROVE OwnRunInv'
    <2>1. FreshInv'
      <3>1. CASE \E p \in Plugins : FlushPlugin(r, p)
        BY <1>0, <3>1, DrainKeepsFresh DEF FlushPlugin
      <3>2. CASE ~ \E p \in Plugins : FlushPlugin(r, p)
        <4>1. UNCHANGED <<pluginVars, execVars>>
          BY <1>2, <3>2
          DEF RequestStep, PluginsDone, SkipBuiltins, RunBuiltins, BuiltinsDone,
              FlushCollector, Answer
        <4> QED BY <1>0, <4>1, FreshKept DEF pluginVars, execVars
      <3> QED BY <3>1, <3>2
    <2> QED BY <1>0, <1>2, <2>1, RequestKeepsFlushed, RequestKeepsCollects DEF OwnRunInv
  <1>3. ASSUME NEW c \in Callers, NEW p \in Plugins,
               ExecStep(c, p) \/ ProcessStep(c, p) \/ Kill(c, p),
               UNCHANGED <<requestVars, builtinVars>>
        PROVE  OwnRunInv'
    <2>1. CollectInv' /\ SampledInv'
      BY <1>0, <1>3, CollectsKept DEF requestVars, builtinVars
    <2> QED BY <1>0, <1>3, <2>1, ExecKeepsFresh, ExecKeepsFlushed DEF OwnRunInv
  <1>4. ASSUME NEW p \in Plugins, TTLExpires(p), UNCHANGED <<requestVars, builtinVars>>
        PROVE  OwnRunInv'
    <2>1. FreshInv'
      BY <1>0, <1>4, FreshKept DEF TTLExpires, execVars
    <2>2. FlushedInv'
      BY <1>0, <1>4, FlushedKept DEF TTLExpires, execVars, requestVars
    <2>3. CollectInv' /\ SampledInv'
      BY <1>0, <1>4, CollectsKept DEF requestVars, builtinVars
    <2> QED BY <2>1, <2>2, <2>3 DEF OwnRunInv
  <1>5. ASSUME NEW r \in Requests, NEW k \in Collectors, CollectStep(r, k) PROVE OwnRunInv'
    <2>1. UNCHANGED <<pluginVars, execVars, requestVars>>
      BY <1>5
      DEF CollectStep, CollectRefused, CollectEnter, Collected, CollectFails,
          CollectAbandoned, SetStatus, CollectOnly
    <2>2. FreshInv'
      BY <1>0, <2>1, FreshKept DEF pluginVars, execVars
    <2>3. FlushedInv'
      BY <1>0, <2>1, FlushedKept DEF execVars, requestVars
    <2> QED BY <1>0, <1>5, <2>2, <2>3, CollectKeepsCollects DEF OwnRunInv
  <1>6. CASE Cancel \/ UNCHANGED vars
    BY <1>6, OwnRunKept DEF Cancel, vars
  <1>7. CASE Next
    <2>1. CASE \E r \in Requests : Ask(r) \/ RequestStep(r)
      BY <2>1, <1>1, <1>2
    <2>2. CASE \E c \in Callers, p \in Plugins : PluginStep(c, p) \/ Killed(c, p)
      BY <2>2, <1>3 DEF PluginStep, Killed
    <2>3. CASE \E c \in Callers, p \in Plugins :
                   ProcessStep(c, p) /\ UNCHANGED <<requestVars, builtinVars>>
      BY <2>3, <1>3
    <2>4. CASE \E p \in Plugins : TTLExpires(p) /\ UNCHANGED <<requestVars, builtinVars>>
      BY <2>4, <1>4
    <2>5. CASE \E r \in Requests, k \in Collectors : CollectStep(r, k)
      BY <2>5, <1>5
    <2> QED BY <1>6, <1>7, <2>1, <2>2, <2>3, <2>4, <2>5 DEF Next
  <1> QED BY <1>6, <1>7

(* Whatever other requests run and flush meanwhile, a request that ran a     *)
(* plugin or a collector itself gets nothing of it that is older than that   *)
(* run (handlers.go:130-163, plugin.go:361-365, procfs collector.go:160).    *)
THEOREM OwnRunIsFresh == Spec => []OwnRunNotStale
  <1>1. Init => OwnRunInv
    BY InitFresh, InitFlushed, InitCollects DEF OwnRunInv
  <1>2. IInv /\ OwnRunInv => OwnRunNotStale
    <2> SUFFICES ASSUME IInv, OwnRunInv, NEW r \in answered PROVE
          /\ \A p \in Plugins : \A n \in got[r][p] : n >= first[<<r, p>>]
          /\ \A k \in Collectors : \A n \in got[r][k] : n >= sample[<<r, k>>]
      BY DEF OwnRunNotStale
    <2>1. r \in Requests
      BY DEF IInv, RequestInv, RequestTypeOK
    <2> QED BY <2>1 DEF OwnRunInv, FlushedInv, SampledInv
  <1> QED BY <1>1, <1>2, NextOwnRun, IInvHolds, PTL DEF Spec
=============================================================================
