--------------------------- MODULE MetricExchange ---------------------------
(* What the reverse connection promises the broker, without goroutines,      *)
(* channels, frames or timeouts: the broker asks on the session it has with  *)
(* the agent, and the agent answers CONNECT requests on that same session,   *)
(* in the order they were asked, each at most once.  Requests may go         *)
(* unanswered: the session ends, the local fetch fails, a frame is late.     *)
EXTENDS Naturals, Sequences

VARIABLES opened,    \* number of sessions opened so far
          live,      \* the session in use, 0 when there is none
          asked,     \* every unit the broker has sent: its session and kind
          answered   \* the answers written, in the order they were written

exchangeVars == <<opened, live, asked, answered>>

ExchangeInit ==
    /\ opened = 0
    /\ live = 0
    /\ asked = <<>>
    /\ answered = <<>>

(* A new session always has a new number: answers cannot cross over.         *)
OpenSession ==
    /\ live = 0
    /\ opened' = opened + 1
    /\ live' = opened'
    /\ UNCHANGED <<asked, answered>>

EndSession ==
    /\ live # 0
    /\ live' = 0
    /\ UNCHANGED <<opened, asked, answered>>

Ask(kind) ==
    /\ live # 0
    /\ asked' = Append(asked, [session |-> live, kind |-> kind])
    /\ UNCHANGED <<opened, live, answered>>

LastAnswered == IF answered = <<>> THEN 0 ELSE answered[Len(answered)].id

Answer(n) ==
    /\ asked[n] = [session |-> live, kind |-> "CONNECT"]
    /\ n > LastAnswered
    /\ answered' = Append(answered, [id |-> n, req |-> n])
    /\ UNCHANGED <<opened, live, asked>>

ExchangeNext ==
    \/ OpenSession
    \/ EndSession
    \/ \E k \in {"CONNECT", "BARE", "EMPTY", "STRAY", "RESET", "OTHER"} : Ask(k)
    \/ \E n \in DOMAIN asked : Answer(n)

ExchangeSpec == ExchangeInit /\ [][ExchangeNext]_exchangeVars
=============================================================================
