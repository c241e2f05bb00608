--------------------------- MODULE ProbeThrottle ---------------------------
(***************************************************************************)
(* The limiter of the client and that of the Gateway, which know nothing   *)
(* of each other: requests that wait() let through travel to Nginx, which  *)
(* keeps an excess per API key (limit_req) and answers 429 beyond its own  *)
(* burst.  Both are set to the same rate and burst, so that the client     *)
(* slows itself down and the Gateway need not turn it away.  But the       *)
(* client counts when a request leaves and the Gateway when it arrives,    *)
(* and nothing bounds the time between: the time limit is one of each wait *)
(* for the socket, and a request given up may still arrive.                *)
(***************************************************************************)
EXTENDS RateLimiter, FiniteSets

VARIABLES
  flight,   \* the granted calls whose requests are under way
  excess,   \* the excess limit_req keeps, in fractions of a token
  seenAt,   \* when it was last changed
  refused,  \* the granted calls that were answered 429
  late      \* history: the granted calls that reached limit_req late

gateway == <<excess, seenAt, refused, late>>
throttleVars == <<vars, flight, gateway>>

\* Every variable has its type; no request has arrived and is under way at once.
ThrottleTypeOK ==
  /\ TypeOK
  /\ flight \subseteq 1..Len(grants)
  /\ refused \subseteq 1..Len(grants) /\ late \subseteq 1..Len(grants)
  /\ flight \cap (refused \cup late) = {}
  /\ excess \in {-Token} \cup 0..Capacity
  /\ seenAt \in 0..clock

\* The key is new to limit_req, which does not count its first request, or it
\* was used before and its excess is back to nothing.
ThrottleInit ==
  /\ Init
  /\ flight = {}
  /\ excess \in {-Token, 0}
  /\ seenAt = 0 /\ refused = {} /\ late = {}

\* wait() returns and the request leaves.
Send(t) ==
  /\ Take(t)
  /\ flight' = flight \cup {Len(grants')}
  /\ UNCHANGED gateway

\* Time passes, with any requests under way.
Pass ==
  /\ Tick
  /\ UNCHANGED <<flight, gateway>>

Wait(t) ==
  /\ Call(t) \/ FallAsleep(t) \/ Wake(t)
  /\ UNCHANGED <<flight, gateway>>

\* What limit_req makes of its excess for a request that comes now.
ExcessNow ==
  LET sum == excess - (clock - seenAt) * Rate + Token
  IN IF sum >= 0 THEN sum ELSE 0

\* The request has been under way for longer than a token takes to come back.
Overdue(i) == (clock - grants[i]) * Rate > Token

\* A request has come to limit_req, which answers it or passes it on.
Arrive(i) ==
  /\ flight' = flight \ {i}
  /\ late' = late \cup {k \in {i} : Overdue(k)}

\* A request is counted and passed on.
Admit(i) ==
  /\ i \in flight
  /\ ExcessNow <= Capacity
  /\ excess' = ExcessNow
  /\ seenAt' = clock
  /\ Arrive(i)
  /\ UNCHANGED <<vars, refused>>

\* A request too many is answered 429 and not counted.
Refuse(i) ==
  /\ i \in flight
  /\ ExcessNow > Capacity
  /\ refused' = refused \cup {i}
  /\ Arrive(i)
  /\ UNCHANGED <<vars, excess, seenAt>>

\* A request does not reach limit_req: no connection, the timeout, or a rule of
\* the Gateway that answers it first.
Lose(i) ==
  /\ i \in flight
  /\ flight' = flight \ {i}
  /\ UNCHANGED <<vars, gateway>>

ThrottleNext ==
  \/ Pass
  \/ \E t \in Threads : Send(t) \/ Wait(t)
  \/ \E i \in flight : Admit(i) \/ Refuse(i) \/ Lose(i)

ThrottleSpec == ThrottleInit /\ [][ThrottleNext]_throttleVars

-----------------------------------------------------------------------------
\* The Gateway answers no more 429s to the only process that uses the key than
\* requests of it have arrived late, and none as long as none has, however
\* requests overtake each other and whichever of them are lost: what the bucket
\* lets through fits the Gateway's burst, wherever a stretch of time begins.
RefusalsAreDueToDelay == Cardinality(refused) <= Cardinality(late)

=============================================================================
