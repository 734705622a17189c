---------------------------- MODULE MetricIntake ----------------------------
(* What becomes of one metric that an application hands to the agent: as     *)
(* JSON on /write (server/receiver), in the Prometheus text format on /prom  *)
(* (server/promrecv), or as a line of a StatsD packet (statsd/metrics.go).   *)
EXTENDS Naturals, FiniteSets

(* What is done to the metric held under the name, and whether what it then  *)
(* holds can be written as JSON:                                             *)
(*   "adds" to the value, "sets" it, "none" (logged), "panics"               *)
Does(how)       == [how |-> how, encodable |-> TRUE]
DoesSpoil(how)  == [how |-> how, encodable |-> FALSE]

-----------------------------------------------------------------------------
(* receiver.Parse, by the type and the kind of value of a JSON metric.  A    *)
(* number too large for an integer type is converted all the same, a numeral *)
(* that is too large is not.                                                 *)

ParsesAsInteger(value) == value \in {"number", "large number", "numeral"}
ParsesAsFloat(value)   == value \in {"number", "large number", "numeral", "large numeral"}

(* A string is a list of one.  Samples that are none are skipped, and there  *)
(* must be one left.                                                         *)
HasSamples(value) == value \in {"numeral", "large numeral", "buckets", "list of numbers", "mixed list"}

WriteMetric(m) ==
    CASE m.type = "s"                                             -> Does("sets")
      [] m.type \in {"i", "I", "l", "L"} /\ ParsesAsInteger(m.value) -> Does("adds")
      [] m.type = "n" /\ ParsesAsFloat(m.value)                   -> Does("adds")
      [] m.type = "n" /\ m.value = "not a number"                 -> DoesSpoil("adds")
      [] m.type = "h" /\ HasSamples(m.value)                      -> Does("adds")
      [] OTHER                                                    -> Does("none")

-----------------------------------------------------------------------------
(* promrecv.Parse, of a member of a family: a gauge, counter or untyped      *)
(* value, or one of what a summary or histogram is made of.                  *)

LeftOut(m) ==
    \/ m.type = "quantile" /\ m.value = "not a number"
    \/ m.type = "untyped" /\ m.value = "infinite"

PromMetric(m) ==
    IF LeftOut(m) THEN Does("none")
    ELSE IF m.value = "number" THEN Does("sets") ELSE DoesSpoil("sets")

(* Sums and counts are kept without the labels that tell the members of a    *)
(* family apart.                                                             *)
PromName(m) == IF m.type \in {"sum", "count"} THEN <<m.name, "unlabelled">> ELSE <<m.name, m.label>>

-----------------------------------------------------------------------------
(* The StatsD listener.  settings: which prefixes are configured, whether    *)
(* there is a group check, and whether gauges become histograms.             *)

Destination(settings, prefix) ==
    LET host  == settings.hostPrefix /\ prefix = "host"
        group == settings.groupPrefix /\ prefix = "group"
    IN  IF host \/ group THEN prefix
        ELSE IF settings.hostPrefix
             THEN IF settings.groupPrefix THEN "ignore" ELSE "group"
             ELSE "host"

(* A destination that is not there.                                          *)
NoDestination(settings, m) ==
    LET to == Destination(settings, m.prefix) IN
    to = "ignore" \/ (to = "group" /\ ~settings.groupCheck)

Numeric(value) == value \in {"natural", "negative", "fraction"}

(* A gauge that is to be a histogram is taken for a floating point number,   *)
(* which only one with a decimal point is.                                   *)
StatsdGauge(settings, m) ==
    IF ~Numeric(m.value) THEN Does("none")
    ELSE IF settings.histogramGauges /\ m.value # "fraction" THEN Does("panics")
    ELSE Does("sets")

StatsdMetric(settings, m) ==
    IF m.type = "malformed" \/ m.rate = "zero" \/ NoDestination(settings, m) THEN Does("none")
    ELSE CASE m.type = "c" /\ m.value = "natural"          -> Does("adds")
           [] m.type = "g"                                 -> StatsdGauge(settings, m)
           [] m.type \in {"h", "ms"} /\ Numeric(m.value)   -> Does("adds")
           [] m.type = "s"                                 -> Does("adds")
           [] m.type = "t"                                 -> Does("sets")
           [] OTHER                                        -> Does("none")
=============================================================================
