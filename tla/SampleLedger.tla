---------------------------- MODULE SampleLedger ----------------------------
(* What the agent promises of a sample handed to it: it is turned away, or   *)
(* passed on to the group check, at once, or it is held until a newer one of *)
(* its name replaces it or a submission takes it; and what a submission took *)
(* is counted by the broker as a whole or lost as a whole.  What was lost    *)
(* may still be counted late.                                                *)
CONSTANTS
    Samples,
    Name(_)      \* the metric a sample is a value of

VARIABLE fate    \* of each sample

Fates == {"offered", "refused", "passed", "held", "replaced", "taken", "counted", "lost"}

LedgerInit == fate = [s \in Samples |-> "offered"]

(* The steps, from the fates old to the fates new.                           *)

(* Some of those with the one fate get one of the others.                    *)
Moves(old, new, from, to) ==
    \A s \in Samples : new[s] = old[s] \/ (old[s] = from /\ new[s] \in to)

Turn(old, new) == Moves(old, new, "offered", {"refused", "passed"})

Hold(old, new) ==
    \E s \in Samples :
        /\ old[s] = "offered" /\ new[s] = "held"
        /\ \A t \in Samples \ {s} :
             \/ new[t] = old[t]
             \/ old[t] = "held" /\ Name(t) = Name(s) /\ new[t] = "replaced"

Take(old, new) == Moves(old, new, "held", {"taken"})

(* All that is taken, at once.                                               *)
Settle(old, new, to) ==
    new = [s \in Samples |-> IF old[s] = "taken" THEN to ELSE old[s]]

CountLate(old, new) == Moves(old, new, "lost", {"counted"})

(* The end of the process.                                                   *)
Drop(old, new) ==
    new = [s \in Samples |-> IF old[s] \in {"held", "taken"} THEN "lost" ELSE old[s]]

LedgerNext ==
    LET old == fate
        new == fate'
    IN  \/ Turn(old, new) \/ Hold(old, new) \/ Take(old, new) \/ CountLate(old, new)
        \/ Settle(old, new, "counted") \/ Settle(old, new, "lost") \/ Drop(old, new)

Ledger == LedgerInit /\ [][LedgerNext]_fate
=============================================================================
