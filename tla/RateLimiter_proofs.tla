-------------------------- MODULE RateLimiter_proofs --------------------------
(***************************************************************************)
(* The budget of the token bucket for any number of threads, any rate, any *)
(* burst and any length of time.                                           *)
(***************************************************************************)
EXTENDS RateLimiter, TLAPS

-----------------------------------------------------------------------------
\* No call was granted after the bucket was last looked at.
GrantsPast == \A k \in 1..Len(grants) : grants[k] <= updatedAt

\* What was granted since any call, and what is left, was there or came in.
NothingFromNowhere ==
  \A i \in 1..Len(grants) :
    (Len(grants) - i + 1) * Token + tokens
      <= Capacity + (updatedAt - grants[i]) * Rate

\* One tick before a sleeper is due the bucket does not hold a token.
SleepsMeasured ==
  \A t \in Threads :
    place[t] = "asleep" /\ updatedAt < wakeAt[t] =>
      tokens + (wakeAt[t] - 1 - updatedAt) * Rate < Token

IInv == /\ TypeOK /\ GrantsPast /\ NothingFromNowhere
        /\ BudgetKept /\ SleepsMeasured

-----------------------------------------------------------------------------
\* Capacity is a number of fractions, at least one token.
LEMMA CapacityFact == Capacity \in Nat /\ Token <= Capacity
BY BucketAssumption, SMT DEF Capacity

\* More time refills more.
LEMMA Refill ==
  ASSUME NEW a \in Int, NEW b \in Int, a <= b
  PROVE  a * Rate <= b * Rate
BY BucketAssumption, SMT

\* Refilling in two goes is refilling at once.
LEMMA RefillSum ==
  ASSUME NEW a \in Int, NEW b \in Int
  PROVE  (a + b) * Rate = a * Rate + b * Rate
BY BucketAssumption, SMT

\* What was granted plus what is left stays covered by what comes in.
LEMMA Carry ==
  ASSUME NEW granted \in Int, NEW old \in Int, NEW new \in Int,
         NEW cap \in Int, NEW covered \in Int, NEW more \in Int,
         granted + old <= cap + covered, new <= old + more
  PROVE  granted + new <= cap + (more + covered)
BY SMT

\* The same for what a sleeper waits for.
LEMMA CarryBelow ==
  ASSUME NEW old \in Int, NEW new \in Int, NEW more \in Int, NEW rest \in Int,
         old + (more + rest) < Token, new <= old + more
  PROVE  new + rest < Token
BY BucketAssumption, SMT

\* What the bucket holds after refilling.
LEMMA RefilledFact ==
  ASSUME TypeOK
  PROVE  /\ RefilledAt(clock) \in 0..Capacity
         /\ RefilledAt(clock) <= tokens + (clock - updatedAt) * Rate
         /\ (clock - updatedAt) * Rate \in Nat
<1>1. clock - updatedAt \in Nat
  BY DEF TypeOK
<1>2. (clock - updatedAt) * Rate \in Nat
  BY <1>1, BucketAssumption, SMT
<1>3. tokens \in 0..Capacity /\ Capacity \in Nat
  BY CapacityFact DEF TypeOK
<1>4. QED
  BY <1>2, <1>3, SMT DEF RefilledAt

\* The bucket is empty of tokens before a sleeper is due.
LEMMA EmptyBefore ==
  ASSUME TypeOK, SleepsMeasured, NEW t \in Threads,
         place[t] = "asleep", clock < wakeAt[t]
  PROVE  RefilledAt(clock) < Token
<1>1. updatedAt < wakeAt[t] /\ wakeAt[t] \in Nat /\ updatedAt \in Nat /\ clock \in Nat
  BY SMT DEF TypeOK
<1>2. tokens + (wakeAt[t] - 1 - updatedAt) * Rate < Token
  BY <1>1 DEF SleepsMeasured
<1>3. (clock - updatedAt) * Rate <= (wakeAt[t] - 1 - updatedAt) * Rate
  BY <1>1, Refill
<1>4. (wakeAt[t] - 1 - updatedAt) * Rate \in Int
  BY <1>1, BucketAssumption, SMT
<1>5. QED
  BY <1>2, <1>3, <1>4, RefilledFact, CapacityFact, BucketAssumption, SMTT(20) DEF TypeOK

-----------------------------------------------------------------------------
(* Type correctness.                                                       *)

\* The initial state is well typed.
LEMMA TypeInit == Init => TypeOK
BY CapacityFact, SMT DEF Init, TypeOK

\* Every step keeps the types.
LEMMA TypeNext == TypeOK /\ [Next]_vars => TypeOK'
<1> SUFFICES ASSUME TypeOK, [Next]_vars
             PROVE  TypeOK'
  OBVIOUS
<1> USE DEF TypeOK
<1>r. RefilledAt(clock) \in 0..Capacity
  BY RefilledFact
<1>1. CASE Tick
  BY <1>1, SMT DEF Tick, bucket
<1>2. ASSUME NEW t \in Threads, Call(t)
      PROVE  TypeOK'
  BY <1>2 DEF Call, bucket
<1>3. ASSUME NEW t \in Threads, Take(t)
      PROVE  TypeOK'
  <2>1. tokens' \in 0..Capacity
    BY <1>3, <1>r, CapacityFact, BucketAssumption, SMT DEF Take
  <2>2. updatedAt' \in 0..clock'
    BY <1>3, SMT DEF Take
  <2>3. grants' \in Seq(Nat)
    BY <1>3 DEF Take
  <2>4. QED
    BY <1>3, <2>1, <2>2, <2>3 DEF Take
<1>4. ASSUME NEW t \in Threads, FallAsleep(t)
      PROVE  TypeOK'
  <2>1. PICK d \in Delays(Token - RefilledAt(clock)) :
          wakeAt' = [wakeAt EXCEPT ![t] = clock + d]
    BY <1>4 DEF FallAsleep
  <2>2. clock + d \in Nat
    BY BucketAssumption, SMT DEF Delays
  <2>3. wakeAt' \in [Threads -> Nat]
    BY <2>1, <2>2
  <2>4. updatedAt' \in 0..clock'
    BY <1>4, SMT DEF FallAsleep
  <2>5. QED
    BY <1>4, <1>r, <2>3, <2>4 DEF FallAsleep
<1>5. ASSUME NEW t \in Threads, Wake(t)
      PROVE  TypeOK'
  BY <1>5 DEF Wake, bucket
<1>6. CASE UNCHANGED vars
  BY <1>6 DEF vars, bucket
<1>7. QED
  BY <1>1, <1>2, <1>3, <1>4, <1>5, <1>6 DEF Next

-----------------------------------------------------------------------------
(* The invariant.                                                          *)

\* A step that leaves bucket and grants alone keeps the facts about them.
LEMMA BucketAlone ==
  ASSUME IInv, TypeOK', UNCHANGED <<tokens, updatedAt, grants>>
  PROVE  GrantsPast' /\ NothingFromNowhere' /\ BudgetKept'
BY DEF IInv, GrantsPast, NothingFromNowhere, BudgetKept

\* Granting a call keeps the budget of every stretch that ends with it.
LEMMA TakeKeeps ==
  ASSUME IInv, TypeOK', NEW t \in Threads, Take(t)
  PROVE  IInv'
<1> DEFINE n == Len(grants)
<1>t. TypeOK
  BY DEF IInv
<1>0. /\ grants \in Seq(Nat) /\ clock \in Nat /\ updatedAt \in Nat /\ updatedAt <= clock
      /\ tokens \in Nat
  BY <1>t, CapacityFact, SMT DEF TypeOK
<1>1. /\ n \in Nat /\ Len(grants') = n + 1 /\ grants' \in Seq(Nat)
      /\ grants'[n + 1] = clock
      /\ \A k \in 1..n : grants'[k] = grants[k] /\ grants[k] \in Nat
  BY <1>0 DEF Take
<1>2. /\ tokens' = RefilledAt(clock) - Token /\ updatedAt' = clock /\ tokens' \in Nat
      /\ RefilledAt(clock) \in Int /\ RefilledAt(clock) <= Capacity
      /\ RefilledAt(clock) <= tokens + (clock - updatedAt) * Rate
      /\ RefilledAt(clock) >= Token
      /\ (clock - updatedAt) * Rate \in Nat
  BY <1>t, RefilledFact, CapacityFact, BucketAssumption, SMT DEF Take
<1>i. /\ Capacity \in Int /\ tokens \in Int /\ RefilledAt(clock) \in Int
      /\ (clock - updatedAt) * Rate \in Int
  BY <1>0, <1>2, CapacityFact, SMT
<1>3. GrantsPast'
  <2>1. \A k \in 1..n : grants[k] <= clock
    BY <1>0, <1>1, SMTT(20) DEF IInv, GrantsPast
  <2>2. QED
    <3> SUFFICES ASSUME NEW k \in 1..(n + 1)
                 PROVE  grants'[k] <= clock
      BY <1>1, <1>2 DEF GrantsPast
    <3>1. k = n + 1 \/ k \in 1..n
      BY <1>1, SMT
    <3>2. clock <= clock
      BY <1>0, SMT
    <3>3. QED
      BY <3>1, <3>2, <2>1, <1>1
<1>4. NothingFromNowhere'
  <2> SUFFICES ASSUME NEW i \in 1..(n + 1)
               PROVE  (n + 1 - i + 1) * Token + tokens'
                        <= Capacity + (clock - grants'[i]) * Rate
    BY <1>1, <1>2 DEF NothingFromNowhere, Capacity
  <2>1. CASE i = n + 1
    <3>1. (n + 1 - i + 1) * Token = Token /\ (clock - grants'[i]) * Rate = 0
      BY <2>1, <1>0, <1>1, BucketAssumption, SMT
    <3>2. Token + tokens' <= Capacity + 0
      BY <1>2, CapacityFact, BucketAssumption, SMT
    <3>3. QED
      BY <3>1, <3>2
  <2>2. CASE i \in 1..n
    <3>1. (n - i + 1) * Token + tokens <= Capacity + (updatedAt - grants[i]) * Rate
      BY <2>2 DEF IInv, NothingFromNowhere
    <3>2. (clock - grants[i]) * Rate
            = (clock - updatedAt) * Rate + (updatedAt - grants[i]) * Rate
      <4>1. grants[i] \in Int /\ clock - updatedAt \in Int /\ updatedAt - grants[i] \in Int
        BY <2>2, <1>0, <1>1, SMTT(20)
      <4>2. clock - grants[i] = (clock - updatedAt) + (updatedAt - grants[i])
        BY <4>1, <1>0, SMT
      <4>3. QED
        BY <4>1, <4>2, RefillSum
    <3>3. (n + 1 - i + 1) * Token = (n - i + 1) * Token + Token
      BY <2>2, <1>1, BucketAssumption, SMT
    <3>4. /\ (n - i + 1) * Token \in Int /\ (updatedAt - grants[i]) * Rate \in Int
      BY <2>2, <1>0, <1>1, BucketAssumption, SMTT(20)
    <3>5. grants'[i] = grants[i]
      BY <2>2, <1>1
    <3>6. (n - i + 1) * Token + RefilledAt(clock)
            <= Capacity + ((clock - updatedAt) * Rate + (updatedAt - grants[i]) * Rate)
      BY <3>1, <3>4, <1>i, <1>2, Carry
    <3>7. (n + 1 - i + 1) * Token + tokens' = (n - i + 1) * Token + RefilledAt(clock)
      BY <3>3, <3>4, <1>2, BucketAssumption, SMT
    <3>8. QED
      BY <3>2, <3>5, <3>6, <3>7
  <2>3. QED
    BY <2>1, <2>2, <1>1, SMT
<1>5. BudgetKept'
  <2> SUFFICES ASSUME NEW i \in 1..(n + 1), NEW j \in 1..(n + 1), i <= j
               PROVE  (j - i + 1) * Token
                        <= Capacity + (grants'[j] - grants'[i]) * Rate
    BY <1>1 DEF BudgetKept, Capacity
  <2>1. CASE j = n + 1
    <3>1. (n + 1 - i + 1) * Token + tokens' <= Capacity + (clock - grants'[i]) * Rate
      BY <1>1, <1>2, <1>4 DEF NothingFromNowhere, Capacity
    <3>2. (n + 1 - i + 1) * Token \in Int /\ (clock - grants'[i]) * Rate \in Int
      BY <1>0, <1>1, BucketAssumption, SMT
    <3>3. QED
      BY <2>1, <3>1, <3>2, <1>1, <1>2, CapacityFact, SMT
  <2>2. CASE j \in 1..n
    <3>1. i \in 1..n
      BY <2>2, <1>1, SMT
    <3>2. (j - i + 1) * Token <= Capacity + (grants[j] - grants[i]) * Rate
      BY <2>2, <3>1 DEF IInv, BudgetKept
    <3>3. QED
      BY <2>2, <3>1, <3>2, <1>1
  <2>3. QED
    BY <2>1, <2>2, <1>1, SMT
<1>6. SleepsMeasured'
  <2> SUFFICES ASSUME NEW u \in Threads, place'[u] = "asleep", clock < wakeAt'[u]
               PROVE  FALSE
    BY <1>2 DEF SleepsMeasured
  <2>1. place[u] = "asleep" /\ clock < wakeAt[u]
    BY <1>t DEF Take, TypeOK
  <2>2. RefilledAt(clock) < Token
    BY <1>t, <2>1, EmptyBefore DEF IInv
  <2>3. QED
    BY <2>2, <1>2, BucketAssumption, SMT
<1>7. QED
  BY <1>3, <1>4, <1>5, <1>6 DEF IInv

\* Refilling without granting keeps everything, and a new sleep is measured.
LEMMA FallAsleepKeeps ==
  ASSUME IInv, TypeOK', NEW t \in Threads, FallAsleep(t)
  PROVE  IInv'
<1> DEFINE n == Len(grants)
<1>t. TypeOK
  BY DEF IInv
<1>0. /\ grants \in Seq(Nat) /\ clock \in Nat /\ updatedAt \in Nat /\ updatedAt <= clock
      /\ tokens \in Nat /\ n \in Nat
      /\ \A k \in 1..n : grants[k] \in Nat
  BY <1>t, CapacityFact, SMT DEF TypeOK
<1>1. /\ tokens' = RefilledAt(clock) /\ updatedAt' = clock /\ grants' = grants
      /\ RefilledAt(clock) \in Int
      /\ RefilledAt(clock) <= tokens + (clock - updatedAt) * Rate
      /\ (clock - updatedAt) * Rate \in Nat
  BY <1>t, RefilledFact, CapacityFact, SMT DEF FallAsleep
<1>i. /\ Capacity \in Int /\ tokens \in Int /\ RefilledAt(clock) \in Int
      /\ (clock - updatedAt) * Rate \in Int
  BY <1>0, <1>1, CapacityFact, SMT
<1>2. GrantsPast'
  BY <1>0, <1>1, SMT DEF IInv, GrantsPast
<1>3. NothingFromNowhere'
  <2> SUFFICES ASSUME NEW i \in 1..n
               PROVE  (n - i + 1) * Token + tokens' <= Capacity + (clock - grants[i]) * Rate
    BY <1>1 DEF NothingFromNowhere, Capacity
  <2>1. (n - i + 1) * Token + tokens <= Capacity + (updatedAt - grants[i]) * Rate
    BY DEF IInv, NothingFromNowhere
  <2>2. (clock - grants[i]) * Rate
          = (clock - updatedAt) * Rate + (updatedAt - grants[i]) * Rate
    <3>1. grants[i] \in Int /\ clock - updatedAt \in Int /\ updatedAt - grants[i] \in Int
      BY <1>0, SMT
    <3>2. clock - grants[i] = (clock - updatedAt) + (updatedAt - grants[i])
      BY <3>1, <1>0, SMT
    <3>3. QED
      BY <3>1, <3>2, RefillSum
  <2>3. (n - i + 1) * Token \in Int /\ (updatedAt - grants[i]) * Rate \in Int
    BY <1>0, BucketAssumption, SMT
  <2>4. QED
    <3>1. (n - i + 1) * Token + RefilledAt(clock)
            <= Capacity + ((clock - updatedAt) * Rate + (updatedAt - grants[i]) * Rate)
      BY <2>1, <2>3, <1>i, <1>1, Carry
    <3>2. QED
      BY <3>1, <2>2, <1>1
<1>4. BudgetKept'
  BY <1>1 DEF IInv, BudgetKept, Capacity
<1>5. SleepsMeasured'
  <2> SUFFICES ASSUME NEW u \in Threads, place'[u] = "asleep", clock < wakeAt'[u]
               PROVE  tokens' + (wakeAt'[u] - 1 - clock) * Rate < Token
    BY <1>1 DEF SleepsMeasured
  <2>1. PICK d \in Delays(Token - RefilledAt(clock)) :
          wakeAt' = [wakeAt EXCEPT ![t] = clock + d]
    BY DEF FallAsleep
  <2>2. CASE u = t
    <3>1. wakeAt'[u] = clock + d /\ d \in 1..Token
          /\ (d - 1) * Rate < Token - RefilledAt(clock)
      BY <1>t, <2>1, <2>2 DEF TypeOK, Delays
    <3>2. wakeAt'[u] - 1 - clock = d - 1 /\ d \in Int
      BY <3>1, <1>0, BucketAssumption, SMT
    <3>3. (d - 1) * Rate \in Int
      BY <3>2, BucketAssumption, SMT
    <3>4. RefilledAt(clock) + (d - 1) * Rate < Token
      BY <3>1, <3>3, <1>i, BucketAssumption, SMT
    <3>5. QED
      BY <3>2, <3>4, <1>1
  <2>3. CASE u # t
    <3>1. place[u] = "asleep" /\ wakeAt'[u] = wakeAt[u] /\ wakeAt[u] \in Nat
      BY <1>t, <2>1, <2>3 DEF FallAsleep, TypeOK
    <3>2. tokens + (wakeAt[u] - 1 - updatedAt) * Rate < Token
      BY <3>1, <1>0, SMT DEF IInv, SleepsMeasured
    <3>3. (wakeAt[u] - 1 - updatedAt) * Rate
            = (clock - updatedAt) * Rate + (wakeAt[u] - 1 - clock) * Rate
      BY <3>1, <1>0, BucketAssumption, SMT
    <3>4. (wakeAt[u] - 1 - clock) * Rate \in Int
      BY <3>1, <1>0, BucketAssumption, SMT
    <3>5. QED
      <4>1. tokens + ((clock - updatedAt) * Rate + (wakeAt[u] - 1 - clock) * Rate) < Token
        BY <3>2, <3>3
      <4>2. RefilledAt(clock) + (wakeAt[u] - 1 - clock) * Rate < Token
        BY <4>1, <3>4, <1>i, <1>1, CarryBelow
      <4>3. QED
        BY <4>2, <3>1, <1>1
  <2>4. QED
    BY <2>2, <2>3
<1>6. QED
  BY <1>2, <1>3, <1>4, <1>5 DEF IInv

\* The invariant holds at first.
LEMMA InvInit == Init => IInv
BY TypeInit DEF Init, IInv, GrantsPast, NothingFromNowhere, BudgetKept, SleepsMeasured

\* Every step keeps the invariant.
LEMMA InvNext == IInv /\ [Next]_vars => IInv'
<1> SUFFICES ASSUME IInv, [Next]_vars
             PROVE  IInv'
  OBVIOUS
<1>t. TypeOK /\ TypeOK'
  BY TypeNext DEF IInv
<1>1. CASE Tick
  BY <1>1, <1>t, BucketAlone DEF IInv, Tick, bucket, SleepsMeasured
<1>2. ASSUME NEW t \in Threads, Call(t)
      PROVE  IInv'
  <2>1. SleepsMeasured'
    BY <1>2, <1>t DEF IInv, Call, bucket, SleepsMeasured, TypeOK
  <2>2. QED
    BY <1>2, <2>1, <1>t, BucketAlone DEF IInv, Call, bucket
<1>3. ASSUME NEW t \in Threads, Take(t)
      PROVE  IInv'
  BY <1>3, <1>t, TakeKeeps
<1>4. ASSUME NEW t \in Threads, FallAsleep(t)
      PROVE  IInv'
  BY <1>4, <1>t, FallAsleepKeeps
<1>5. ASSUME NEW t \in Threads, Wake(t)
      PROVE  IInv'
  <2>1. SleepsMeasured'
    BY <1>5, <1>t DEF IInv, Wake, bucket, SleepsMeasured, TypeOK
  <2>2. QED
    BY <1>5, <2>1, <1>t, BucketAlone DEF IInv, Wake, bucket
<1>6. CASE UNCHANGED vars
  BY <1>6, <1>t, BucketAlone DEF IInv, vars, bucket, SleepsMeasured
<1>7. QED
  BY <1>1, <1>2, <1>3, <1>4, <1>5, <1>6 DEF Next

\* The inductive invariant of the token bucket.
THEOREM BucketInvariance == Spec => []IInv
BY InvInit, InvNext, PTL DEF Spec

\* The variables of the bucket and its threads keep their types.
THEOREM BucketTyped == Spec => []TypeOK
<1>1. IInv => TypeOK
  BY DEF IInv
<1>2. QED
  BY <1>1, BucketInvariance, PTL

\* The budget is kept over every stretch of time, for any number of threads.
THEOREM BudgetAlwaysKept == Spec => []BudgetKept
<1>1. IInv => BudgetKept
  BY DEF IInv
<1>2. QED
  BY <1>1, BucketInvariance, PTL

\* No thread sleeps while a token is there, before its own time is up.
THEOREM SleepIsNeeded == Spec => []NobodyOversleeps
<1>1. IInv => NobodyOversleeps
  BY EmptyBefore DEF IInv, NobodyOversleeps
<1>2. QED
  BY <1>1, BucketInvariance, PTL

=============================================================================
