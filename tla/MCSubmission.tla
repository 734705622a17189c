---------------------------- MODULE MCSubmission ----------------------------
(* Submission for TLC: pairs of posts of every kind of metric.               *)
EXTENDS Submission

CONSTANTS p1, p2

(* A JSON object has one metric of a name; here each type has its own.       *)
Json(type, value)          == [name |-> type, type |-> type, value |-> value]
Member(type, value, label) == [name |-> "x", label |-> label, type |-> type, value |-> value]
Line(prefix, type, value)  ==
    [name |-> prefix, prefix |-> prefix, rate |-> "one", type |-> type, value |-> value]

Post(via, metrics) == [via |-> via, readable |-> TRUE, metrics |-> metrics]
Unreadable == [via |-> "write", readable |-> FALSE, metrics |-> {Json("i", "number")}]

PlainSettings == [hostPrefix |-> FALSE, groupPrefix |-> TRUE, groupCheck |-> TRUE, histogramGauges |-> FALSE]

SceneOf(a, b, settings) ==
    [posts |-> [p \in {p1, p2} |-> IF p = p1 THEN a ELSE b], settings |-> settings]

Number == Json("l", "numeral")
Text   == Json("s", "word")

Sum(label) == Member("sum", "number", label)

(* Posts that meet: they replace or add to what the other left.              *)
Meetings ==
    {SceneOf(Post("write", {Number, Text}), Post("write", {Text}), PlainSettings),
     SceneOf(Post("prom", {Sum("a"), Sum("b")}), Post("write", {Number}), PlainSettings),
     SceneOf(Post("statsd", {Line("other", "g", "natural"), Line("group", "c", "natural")}),
             Unreadable, PlainSettings),
     SceneOf(Post("write", {Json("n", "not a number")}), Post("write", {Number}), PlainSettings)}

(* Posts that are turned away, or worse.                                     *)
Losses ==
    {SceneOf(Post("write", {Json("i", "large numeral")}),
             Post("prom", {Member("quantile", "not a number", "a")}), PlainSettings),
     SceneOf(Post("statsd", {Line("other", "t", "word"), Line("group", "c", "natural")}),
             Post("write", {Number}), [PlainSettings EXCEPT !.hostPrefix = TRUE, !.groupCheck = FALSE]),
     SceneOf(Post("statsd", {Line("other", "g", "natural")}), Post("write", {Number}),
             [PlainSettings EXCEPT !.histogramGauges = TRUE])}

MCScenes == Meetings \cup Losses
=============================================================================
