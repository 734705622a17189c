--------------------------- MODULE ConnectionLife ---------------------------
(* What a reverse connection shows to the part of the agent that started it: *)
(* it tries to reach one broker, is live while it has, counts its attempts   *)
(* since it last answered that broker, and returns when its context is       *)
(* cancelled or when it wants the configuration of the check refreshed.      *)
EXTENDS Integers

CONSTANTS ConfigRetryLimit,   \* attempts after which the check is refreshed
          MaxConnRetry        \* reverse.max_conn_retry, -1 for no limit

VARIABLES ctxDone,    \* the context of the connection is cancelled
          phase,      \* "retry", "dial", "live", "returned"
          attempts,   \* attempts since the broker was last answered
          outcome     \* "none", "nil", "refresh"

lifeVars == <<ctxDone, phase, attempts, outcome>>

LifeInit ==
    /\ ctxDone = FALSE
    /\ phase = "retry" /\ attempts = 0 /\ outcome = "none"

Leave(o) == phase' = "returned" /\ outcome' = o

Exhausted ==
    /\ attempts > 0
    /\ \/ MaxConnRetry # -1 /\ attempts >= MaxConnRetry
       \/ attempts % ConfigRetryLimit = 0

GiveUp ==
    /\ phase = "retry" /\ Exhausted
    /\ Leave("refresh")
    /\ UNCHANGED <<ctxDone, attempts>>

TryAgain ==
    /\ phase = "retry" /\ ~Exhausted
    /\ phase' = "dial"
    /\ UNCHANGED <<ctxDone, attempts, outcome>>

(* A dial that times out for good is not retried.                            *)
FailToReach ==
    /\ phase = "dial"
    /\ attempts' = attempts + 1
    /\ \/ phase' = "retry" /\ UNCHANGED outcome
       \/ Leave("refresh")
    /\ UNCHANGED ctxDone

(* The slip counts a broker that was reached as one that was answered.       *)
ReachIsAnswer ==
    /\ phase = "dial"
    /\ phase' = "live" /\ attempts' = 0
    /\ UNCHANGED <<ctxDone, outcome>>
Reach ==
    /\ phase = "dial"
    /\ phase' = "live" /\ attempts' = attempts + 1
    /\ UNCHANGED <<ctxDone, outcome>>

AnswerBroker ==
    /\ phase = "live"
    /\ attempts' = 0
    /\ UNCHANGED <<ctxDone, phase, outcome>>

(* The session ended, by a silent broker, an error or a RESET.               *)
LoseSession ==
    /\ phase = "live"
    /\ phase' = "retry"
    /\ UNCHANGED <<ctxDone, attempts, outcome>>

FailToAnswer ==
    /\ phase = "live"
    /\ Leave("refresh")
    /\ UNCHANGED <<ctxDone, attempts>>

StopConnection ==
    /\ ctxDone /\ phase \in {"retry", "live"}
    /\ Leave("nil")
    /\ UNCHANGED <<ctxDone, attempts>>

LifeNext ==
    \/ GiveUp \/ TryAgain \/ FailToReach \/ Reach
    \/ AnswerBroker \/ LoseSession \/ FailToAnswer \/ StopConnection
    \/ ctxDone' = TRUE /\ UNCHANGED <<phase, attempts, outcome>>

LifeSpec == LifeInit /\ [][LifeNext]_lifeVars
=============================================================================
