---------------------------- MODULE RateLimiter ----------------------------
(***************************************************************************)
(* ToolRateLimiter: the token bucket that every probe of one process waits *)
(* for.  Threads share the bucket under a lock and sleep outside it, so a  *)
(* thread that wakes up may find that another one took its token.          *)
(*                                                                         *)
(* Time is counted in ticks and tokens in fractions: a tick is worth Rate  *)
(* fractions, a token Token of them.  The code calculates in floating      *)
(* point, so its figures are these up to rounding.                         *)
(***************************************************************************)
EXTENDS Integers, Sequences

CONSTANTS
  Threads,   \* the threads that send probes
  Token,     \* fractions of a token in one token
  Rate,      \* fractions of a token per tick
  Burst,     \* how many tokens the bucket holds
  MaxClock   \* bound: how long the clock runs

ASSUME BucketAssumption ==
  /\ Token \in Nat \ {0} /\ Rate \in Nat \ {0} /\ Burst \in Nat \ {0}
  /\ MaxClock \in Nat

Capacity == Burst * Token

VARIABLES
  clock,      \* time.monotonic()
  tokens,     \* _tokens
  updatedAt,  \* _updated_at
  place,      \* where in wait() each thread is
  wakeAt,     \* when a sleeping thread is due
  grants      \* when wait() returned, call by call

bucket == <<tokens, updatedAt>>
vars == <<clock, bucket, place, wakeAt, grants>>

\* Every variable has its type: the bucket holds nothing to a full burst.
TypeOK ==
  /\ clock \in Nat
  /\ tokens \in 0..Capacity
  /\ updatedAt \in 0..clock
  /\ place \in [Threads -> {"out", "check", "asleep"}]
  /\ wakeAt \in [Threads -> Nat]
  /\ grants \in Seq(Nat)

Init ==
  /\ clock = 0
  /\ tokens = Capacity
  /\ updatedAt = 0
  /\ place = [t \in Threads |-> "out"]
  /\ wakeAt = [t \in Threads |-> 0]
  /\ grants = <<>>

-----------------------------------------------------------------------------
Tick ==
  /\ clock < MaxClock
  /\ clock' = clock + 1
  /\ UNCHANGED <<bucket, place, wakeAt, grants>>

\* A thread calls wait().
Call(t) ==
  /\ place[t] = "out"
  /\ place' = [place EXCEPT ![t] = "check"]
  /\ UNCHANGED <<clock, bucket, wakeAt, grants>>

\* Faulty variant of RefilledAt: the bucket overflows.
RefilledWithoutCap(now) == tokens + (now - updatedAt) * Rate

\* What is in the bucket once it has been refilled up to now.
RefilledAt(now) ==
  LET sum == tokens + (now - updatedAt) * Rate
  IN IF sum <= Capacity THEN sum ELSE Capacity

\* The delay for what is missing, rounded up to whole ticks.
Delays(missing) ==
  {d \in 1..Token : missing <= d * Rate /\ (d - 1) * Rate < missing}

\* Faulty variant of Take: the time is not noted, so that it refills twice.
TakeUnstamped(t) ==
  /\ place[t] = "check"
  /\ RefilledAt(clock) >= Token
  /\ tokens' = RefilledAt(clock) - Token
  /\ grants' = Append(grants, clock)
  /\ place' = [place EXCEPT ![t] = "out"]
  /\ UNCHANGED <<clock, updatedAt, wakeAt>>

\* Under the lock: a token is there, and wait() returns.
Take(t) ==
  /\ place[t] = "check"
  /\ RefilledAt(clock) >= Token
  /\ tokens' = RefilledAt(clock) - Token
  /\ updatedAt' = clock
  /\ grants' = Append(grants, clock)
  /\ place' = [place EXCEPT ![t] = "out"]
  /\ UNCHANGED <<clock, wakeAt>>

\* Faulty variant of FallAsleep: the delay is that of a whole token.
FallAsleepTooLong(t) ==
  /\ place[t] = "check"
  /\ RefilledAt(clock) < Token
  /\ tokens' = RefilledAt(clock)
  /\ updatedAt' = clock
  /\ \E d \in Delays(Token) : wakeAt' = [wakeAt EXCEPT ![t] = clock + d]
  /\ place' = [place EXCEPT ![t] = "asleep"]
  /\ UNCHANGED <<clock, grants>>

\* Under the lock: too little is there; the delay is slept outside it.
FallAsleep(t) ==
  /\ place[t] = "check"
  /\ RefilledAt(clock) < Token
  /\ tokens' = RefilledAt(clock)
  /\ updatedAt' = clock
  /\ \E d \in Delays(Token - RefilledAt(clock)) :
       wakeAt' = [wakeAt EXCEPT ![t] = clock + d]
  /\ place' = [place EXCEPT ![t] = "asleep"]
  /\ UNCHANGED <<clock, grants>>

\* The sleep is over, at its time or later; the loop begins again.
Wake(t) ==
  /\ place[t] = "asleep" /\ wakeAt[t] <= clock
  /\ place' = [place EXCEPT ![t] = "check"]
  /\ UNCHANGED <<clock, bucket, wakeAt, grants>>

Next ==
  \/ Tick
  \/ \E t \in Threads : Call(t) \/ Take(t) \/ FallAsleep(t) \/ Wake(t)

Spec == Init /\ [][Next]_vars

-----------------------------------------------------------------------------
\* Whichever stretch of time one looks at, from one granted call to a later one,
\* no more calls were let through than the bucket holds and the time between
\* them refills, whatever the threads' order of waking and taking.
BudgetKept ==
  \A i, j \in 1..Len(grants) :
    i <= j => (j - i + 1) * Token <= Capacity + (grants[j] - grants[i]) * Rate

\* A thread that sleeps before its time is up has nothing to miss: the bucket
\* does not yet hold a token, even if other threads came and went.
NobodyOversleeps ==
  \A t \in Threads :
    place[t] = "asleep" /\ clock < wakeAt[t] => RefilledAt(clock) < Token

=============================================================================
