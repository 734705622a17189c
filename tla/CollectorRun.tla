---------------------------- MODULE CollectorRun ----------------------------
(* What one run of a builtin collector leaves behind.  A collector's Collect *)
(* is the sequence of its steps; a step names the conditions that disturb    *)
(* it, what Collect does then, and the metrics the step adds otherwise.  The *)
(* metrics are groups: those that are lost and published together.           *)
EXTENDS Naturals, Sequences, FiniteSetsExt

(* How Collect goes on when a condition of a step holds:                     *)
(*   "skip"  without the metrics of the step                                 *)
(*   "nan"   with a metric that is not a number                              *)
(*   "stop"  setStatus(metrics so far, nil), returns nil                     *)
(*   "tell"  setStatus(metrics so far, nil), returns an error                *)
(*   "fail"  setStatus(metrics, err), returns the error                      *)
(*   "left"  returns an error, without setStatus                             *)
Step(conditions, then, metrics) == [on |-> conditions, then |-> then, gives |-> metrics]

Gives(metrics)             == Step({}, "skip", metrics)
Unless(conditions, metrics) == Step(conditions, "skip", metrics)
NaN(conditions, metrics)   == Step(conditions, "nan", metrics)
Ends(conditions, how)      == Step(conditions, how, {})

(* The loops over lines and items test the context, most without setStatus.  *)
Cancelled(how) == Ends({"context done"}, how)

(* The run under the conditions that hold: how it ends, the metrics it       *)
(* gathered, and whether one of them is not a number.                        *)
Outcome(steps, holding) ==
    LET hit(i)   == steps[i].on \cap holding # {}
        stops    == {i \in DOMAIN steps : hit(i) /\ steps[i].then \notin {"skip", "nan"}}
        reached  == IF stops = {} THEN DOMAIN steps ELSE 1 .. Min(stops) - 1
        spoiling == {i \in reached : hit(i) /\ steps[i].then = "nan"}
    IN  [end     |-> IF stops = {} THEN "ok" ELSE steps[Min(stops)].then,
         metrics |-> UNION {steps[i].gives : i \in {j \in reached : ~hit(j) \/ j \in spoiling}},
         spoilt  |-> spoiling # {}]

ConditionsOf(steps) == UNION {steps[i].on : i \in DOMAIN steps}
=============================================================================
