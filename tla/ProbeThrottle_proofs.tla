------------------------- MODULE ProbeThrottle_proofs -------------------------
(***************************************************************************)
(* The Gateway refuses no more of what the client's bucket lets through    *)
(* than has reached it late, for any rate and burst the two share.         *)
(***************************************************************************)
EXTENDS ProbeThrottle, RateLimiter_proofs, FiniteSetTheorems, WellFoundedInduction

-----------------------------------------------------------------------------
\* What is under way, was refused or came late are granted calls, and nothing
\* that has arrived is under way.
ArrivalsOK ==
  /\ flight \in SUBSET (1..Len(grants)) /\ IsFiniteSet(flight)
  /\ refused \in SUBSET (1..Len(grants)) /\ IsFiniteSet(refused)
  /\ late \in SUBSET (1..Len(grants)) /\ IsFiniteSet(late)
  /\ flight \cap (refused \cup late) = {}

\* The Gateway's figures are sound.
GatewayOK == excess \in {-Token} \cup 0..Capacity /\ seenAt \in 0..clock

\* The requests under way that are not late yet.
Prompt == {i \in flight : ~Overdue(i)}

\* The excess that has not decayed, the prompt requests that will add to it and
\* the tokens that will become such requests are together within the burst, but
\* for one token for each request that came late, until one is refused for it.
Decayed == (clock - seenAt) * Rate
Requests == Cardinality(Prompt) * Token
Late == Cardinality(late) * Token
Refused == Cardinality(refused) * Token
Balanced == excess - Decayed + Requests + RefilledAt(clock) + Refused <= Capacity + Late

TInv == IInv /\ ArrivalsOK /\ GatewayOK /\ Balanced /\ RefusalsAreDueToDelay

-----------------------------------------------------------------------------
\* The client in the composition does what the limiter does alone.
LEMMA ThrottleSteps ==
  ASSUME [ThrottleNext]_throttleVars
  PROVE  [Next]_vars
BY DEF ThrottleNext, throttleVars, Pass, Send, Wait, Admit, Refuse, Lose, Next

\* Types and bounds of single quantities.
LEMMA Numbers ==
  ASSUME TInv
  PROVE  /\ clock \in Nat /\ updatedAt \in Nat /\ updatedAt <= clock /\ seenAt \in Nat
         /\ seenAt <= clock /\ tokens \in Nat /\ tokens <= Capacity
         /\ Capacity \in Nat /\ Token \in Nat /\ Token > 0 /\ Rate \in Nat /\ Rate > 0
         /\ excess \in Int /\ excess <= Capacity
         /\ IsFiniteSet(Prompt) /\ Cardinality(Prompt) \in Nat
         /\ Cardinality(late) \in Nat /\ Cardinality(refused) \in Nat
         /\ Cardinality(refused) <= Cardinality(late)
         /\ grants \in Seq(Nat) /\ Len(grants) \in Nat
         /\ \A k \in 1..Len(grants) : grants[k] \in Nat
<1>1. /\ clock \in Nat /\ updatedAt \in Nat /\ updatedAt <= clock /\ seenAt \in Nat
      /\ seenAt <= clock /\ tokens \in Nat /\ tokens <= Capacity
      /\ Capacity \in Nat /\ Token \in Nat /\ Token > 0 /\ Rate \in Nat /\ Rate > 0
      /\ excess \in Int /\ excess <= Capacity
  BY CapacityFact, BucketAssumption, SMT DEF TInv, IInv, TypeOK, GatewayOK
<1>2. /\ IsFiniteSet(Prompt) /\ Cardinality(Prompt) \in Nat
      /\ Cardinality(late) \in Nat /\ Cardinality(refused) \in Nat
      /\ Cardinality(refused) <= Cardinality(late)
  <2>1. IsFiniteSet(Prompt)
    BY FS_Subset DEF TInv, ArrivalsOK, Prompt
  <2>2. IsFiniteSet(late) /\ IsFiniteSet(refused)
    BY DEF TInv, ArrivalsOK
  <2>3. QED
    BY <2>1, <2>2, FS_CardinalityType DEF TInv, RefusalsAreDueToDelay
<1>3. grants \in Seq(Nat)
  BY DEF TInv, IInv, TypeOK
<1>4. Len(grants) \in Nat /\ \A k \in 1..Len(grants) : grants[k] \in Nat
  BY <1>3
<1>5. QED
  BY <1>1, <1>2, <1>3, <1>4

\* More of them are more tokens.
LEMMA Tokens ==
  ASSUME NEW a \in Int, NEW b \in Int, a <= b
  PROVE  a * Token <= b * Token
BY BucketAssumption, SMT

\* One of them more or less is one token more or less.
LEMMA OneToken ==
  ASSUME NEW a \in Int
  PROVE  (a + 1) * Token = a * Token + Token /\ (a - 1) * Token = a * Token - Token
BY BucketAssumption, SMT

\* Types and bounds of the sums.
LEMMA Sums ==
  ASSUME TInv
  PROVE  /\ Decayed \in Nat /\ Requests \in Nat /\ Late \in Nat /\ Refused \in Nat
         /\ RefilledAt(clock) \in Nat /\ RefilledAt(clock) <= Capacity
         /\ excess - Decayed + Requests + RefilledAt(clock) + Refused <= Capacity + Late
         /\ Refused <= Late
         /\ ExcessNow = IF excess - Decayed + Token >= 0
                          THEN excess - Decayed + Token ELSE 0
<1>1. clock - seenAt \in Nat /\ Rate \in Nat
  BY Numbers, SMT
<1>2. Decayed \in Nat
  BY <1>1, SMT DEF Decayed
<1>3. /\ Cardinality(Prompt) \in Nat /\ Cardinality(late) \in Nat
      /\ Cardinality(refused) \in Nat /\ Token \in Nat
  BY Numbers
<1>4. Requests \in Nat /\ Late \in Nat /\ Refused \in Nat
  BY <1>3, SMT DEF Requests, Late, Refused
<1>5. RefilledAt(clock) \in 0..Capacity /\ Capacity \in Nat
  BY RefilledFact, CapacityFact DEF TInv, IInv
<1>6. RefilledAt(clock) \in Nat /\ RefilledAt(clock) <= Capacity
  BY <1>5, SMT
<1>7. excess - Decayed + Requests + RefilledAt(clock) + Refused <= Capacity + Late
  BY DEF TInv, Balanced
<1>8. ExcessNow = IF excess - Decayed + Token >= 0
                    THEN excess - Decayed + Token ELSE 0
  BY DEF ExcessNow, Decayed
<1>9. Refused <= Late
  BY Numbers, Tokens DEF Refused, Late
<1>10. QED
  BY <1>2, <1>4, <1>6, <1>7, <1>8, <1>9

\* A clock that has moved on by a tick.
LEMMA OneTickOn ==
  ASSUME NEW a \in Int
  PROVE  (a + 1) * Rate = a * Rate + Rate
BY BucketAssumption, SMT

\* The bucket just after it was looked at.
LEMMA JustRefilled ==
  ASSUME NEW a \in Int
  PROVE  (a - a) * Rate = 0
BY BucketAssumption, SMT

\* What a tick adds to the bucket.
LEMMA RefilledOneTickOn ==
  ASSUME TInv, NEW now \in Nat, now = clock + 1
  PROVE  RefilledAt(now) \in Int /\ RefilledAt(now) <= RefilledAt(clock) + Rate
<1> DEFINE come == (clock - updatedAt) * Rate
           later == (now - updatedAt) * Rate
<1>0. clock \in Nat /\ updatedAt \in Nat
  BY Numbers
<1>1. clock - updatedAt \in Int /\ now - updatedAt = (clock - updatedAt) + 1
  BY <1>0, SMT
<1>2. later = come + Rate
  BY <1>1, OneTickOn
<1>3. come \in Nat
  BY RefilledFact DEF TInv, IInv
<1>4. RefilledAt(clock) = IF tokens + come <= Capacity THEN tokens + come ELSE Capacity
  BY DEF RefilledAt
<1>5. RefilledAt(now) = IF tokens + later <= Capacity THEN tokens + later ELSE Capacity
  BY DEF RefilledAt
<1>6. tokens \in Nat /\ Capacity \in Nat /\ Rate \in Nat
  BY Numbers
<1> HIDE DEF come, later
<1>7. QED
  BY <1>2, <1>3, <1>4, <1>5, <1>6, SMT

\* The order of the numbers is well founded.
Before == {ss \in Nat \X Nat : ss[1] < ss[2]}

\* The library's theorem, without the operator it takes.
LEMMA BeforeIsWellFounded == IsWellFoundedOn(Before, Nat)
BY NatLessThanWellFounded, Zenon DEF OpToRel, Before

\* Among the prompt requests one is the oldest.
LEMMA HasOldest ==
  ASSUME NEW S \in SUBSET Nat, S # {}
  PROVE  \E i \in S : \A j \in S : i <= j
<1>1. PICK i \in S : \A j \in S : <<j, i>> \notin Before
  BY WFMin, BeforeIsWellFounded
<1>2. ASSUME NEW j \in S
      PROVE  i <= j
  <2>1. <<j, i>> \notin Before
    BY <1>1
  <2>2. QED
    BY <2>1, SMT DEF Before
<1>3. QED
  BY <1>2

\* What is promptly under way and in the bucket exceeds the burst by one token
\* at most: the requests were all granted while a token comes back.
LEMMA UnderWay ==
  ASSUME TInv
  PROVE  Requests + RefilledAt(clock) <= Capacity + Token
<1> DEFINE n == Len(grants)
<1>0. n \in Nat /\ Prompt \in SUBSET (1..n)
  BY Numbers DEF TInv, ArrivalsOK, Prompt
<1>1. CASE Prompt = {}
  <2>1. Cardinality(Prompt) = 0 /\ Token \in Nat
    BY <1>1, FS_EmptySet, Numbers
  <2>2. Requests = 0
    BY <2>1, SMT DEF Requests
  <2>3. RefilledAt(clock) \in Nat /\ RefilledAt(clock) <= Capacity
    BY Sums
  <2>4. Capacity \in Nat /\ Token \in Nat
    BY Numbers
  <2>5. QED
    BY <2>2, <2>3, <2>4, SMT
<1>2. CASE Prompt # {}
  <2>1. PICK i \in Prompt : \A j \in Prompt : i <= j
    <3>1. Prompt \in SUBSET Nat
      BY <1>0, SMT
    <3>2. QED
      BY <1>2, <3>1, HasOldest
  <2>2. i \in 1..n /\ Prompt \subseteq i..n
    BY <1>0, <2>1, SMT
  <2>3. Cardinality(Prompt) <= n - i + 1
    <3>1. IsFiniteSet(i..n) /\ Cardinality(i..n) = n - i + 1
      BY <1>0, <2>2, FS_Interval, SMT
    <3>2. QED
      BY <2>2, <3>1, FS_Subset, ZenonT(30)
  <2>4. grants[i] \in Nat
    BY <2>2, Numbers
  <2>5. Requests <= (n - i + 1) * Token
    <3>1. Cardinality(Prompt) \in Int /\ n - i + 1 \in Int
      BY <1>0, <2>2, Numbers, SMT
    <3>2. QED
      BY <2>3, <3>1, Tokens DEF Requests
  <2>6. (n - i + 1) * Token + tokens <= Capacity + (updatedAt - grants[i]) * Rate
    BY <2>2 DEF TInv, IInv, NothingFromNowhere
  <2>7. (clock - grants[i]) * Rate
          = (clock - updatedAt) * Rate + (updatedAt - grants[i]) * Rate
    <3>1. clock \in Nat /\ updatedAt \in Nat /\ grants[i] \in Nat
      BY <2>4, Numbers
    <3>2. clock - updatedAt \in Int /\ updatedAt - grants[i] \in Int
      BY <3>1, SMT
    <3>3. clock - grants[i] = (clock - updatedAt) + (updatedAt - grants[i])
      BY <3>1, SMT
    <3>4. QED
      BY <3>2, <3>3, RefillSum
  <2>8. (clock - grants[i]) * Rate <= Token
    <3>1. ~((clock - grants[i]) * Rate > Token)
      BY <2>1 DEF Prompt, Overdue
    <3>2. clock - grants[i] \in Int /\ Rate \in Int /\ Token \in Int
      BY <2>4, Numbers, SMT
    <3>3. (clock - grants[i]) * Rate \in Int
      BY <3>2, SMT
    <3>4. QED
      BY <3>1, <3>2, <3>3, SMT
  <2>9. /\ (n - i + 1) * Token \in Int /\ (updatedAt - grants[i]) * Rate \in Int
        /\ (clock - updatedAt) * Rate \in Int
    <3>1. n - i + 1 \in Int
      BY <1>0, <2>2, SMT
    <3>2. clock \in Nat /\ updatedAt \in Nat /\ Token \in Nat /\ Rate \in Nat
      BY Numbers
    <3>3. updatedAt - grants[i] \in Int /\ clock - updatedAt \in Int
      BY <2>4, <3>2, SMT
    <3>4. QED
      BY <3>1, <3>2, <3>3, SMT
  <2>10. RefilledAt(clock) <= tokens + (clock - updatedAt) * Rate
    BY RefilledFact DEF TInv, IInv
  <2>11. (n - i + 1) * Token + RefilledAt(clock)
           <= Capacity + ((clock - updatedAt) * Rate + (updatedAt - grants[i]) * Rate)
    <3>1. Capacity \in Int /\ tokens \in Int /\ RefilledAt(clock) \in Int
      BY Numbers, Sums, SMT
    <3>2. QED
      BY <2>6, <2>9, <2>10, <3>1, Carry
  <2>12. (n - i + 1) * Token + RefilledAt(clock) <= Capacity + (clock - grants[i]) * Rate
    BY <2>7, <2>11
  <2>13. (clock - grants[i]) * Rate \in Int
    BY <2>7, <2>9
  <2> DEFINE granted == (n - i + 1) * Token
             covered == (clock - grants[i]) * Rate
  <2>14. /\ granted \in Int /\ covered \in Int /\ Requests <= granted /\ covered <= Token
         /\ granted + RefilledAt(clock) <= Capacity + covered
    BY <2>5, <2>8, <2>9, <2>12, <2>13
  <2> HIDE DEF granted, covered
  <2>15. Requests \in Nat /\ RefilledAt(clock) \in Nat /\ Capacity \in Nat /\ Token \in Nat
    BY Numbers, Sums
  <2>16. QED
    BY <2>14, <2>15, SMT
<1>3. QED
  BY <1>1, <1>2

-----------------------------------------------------------------------------
(* The steps.                                                              *)

\* The invariant holds at first.
LEMMA ThrottleInvInit == ThrottleInit => TInv
<1> SUFFICES ASSUME ThrottleInit
             PROVE  TInv
  OBVIOUS
<1>1. IInv
  BY InvInit DEF ThrottleInit
<1>2. ArrivalsOK /\ GatewayOK
  BY FS_EmptySet, CapacityFact, SMT DEF ThrottleInit, Init, ArrivalsOK, GatewayOK
<1>3. /\ Prompt = {} /\ late = {} /\ refused = {} /\ seenAt = clock /\ clock = 0
      /\ Cardinality({}) = 0
  BY FS_EmptySet DEF ThrottleInit, Init, Prompt
<1>4. /\ Requests = 0 /\ Late = 0 /\ Refused = 0 /\ Decayed = 0
      /\ excess \in Int /\ excess <= 0
  BY <1>3, BucketAssumption, SMT DEF ThrottleInit, Requests, Late, Refused, Decayed
<1>5. RefilledAt(clock) \in Nat /\ RefilledAt(clock) <= Capacity
  BY <1>1, RefilledFact, CapacityFact, SMT DEF IInv
<1>6. Balanced
  BY <1>4, <1>5, CapacityFact, SMT DEF Balanced
<1>7. RefusalsAreDueToDelay
  BY <1>3, SMT DEF RefusalsAreDueToDelay
<1>8. QED
  BY <1>1, <1>2, <1>6, <1>7 DEF TInv

\* Fewer prompt requests are fewer tokens.
LEMMA FewerPrompt ==
  ASSUME TInv, Prompt' \in SUBSET Prompt
  PROVE  Requests' \in Nat /\ Requests' <= Requests
<1>1. /\ IsFiniteSet(Prompt') /\ Cardinality(Prompt') \in Nat
      /\ Cardinality(Prompt') <= Cardinality(Prompt)
  BY Numbers, FS_Subset, FS_CardinalityType
<1>2. Cardinality(Prompt') \in Int /\ Cardinality(Prompt) \in Int
  BY <1>1, Numbers, SMT
<1>3. Requests' <= Requests
  BY <1>1, <1>2, Tokens DEF Requests
<1>4. Requests' \in Nat
  BY <1>1, BucketAssumption, SMT DEF Requests
<1>5. QED
  BY <1>3, <1>4

\* The excess decays as fast as the bucket fills, and requests get late.
LEMMA PassKeeps == TInv /\ IInv' /\ Pass => TInv'
<1> SUFFICES ASSUME TInv, IInv', Pass
             PROVE  TInv'
  OBVIOUS
<1>1. /\ clock' = clock + 1
      /\ UNCHANGED <<tokens, updatedAt, grants, flight, excess, seenAt, refused, late>>
  BY DEF Pass, Tick, bucket, gateway
<1>2. ArrivalsOK' /\ GatewayOK' /\ RefusalsAreDueToDelay'
  <2>1. seenAt \in 0..(clock + 1)
    BY Numbers, SMT
  <2>2. QED
    BY <1>1, <2>1 DEF TInv, ArrivalsOK, GatewayOK, Capacity, RefusalsAreDueToDelay
<1>3. Prompt' \in SUBSET Prompt
  <2> SUFFICES ASSUME NEW i \in flight, (clock - grants[i]) * Rate > Token
               PROVE  (clock' - grants[i]) * Rate > Token
    BY <1>1 DEF Prompt, Overdue
  <2>1. grants[i] \in Nat /\ clock \in Nat /\ Token \in Int /\ Rate \in Int
    BY Numbers DEF TInv, ArrivalsOK
  <2>2. /\ clock - grants[i] \in Int /\ clock' - grants[i] \in Int
        /\ clock - grants[i] <= clock' - grants[i]
    BY <1>1, <2>1, SMT
  <2>3. (clock - grants[i]) * Rate <= (clock' - grants[i]) * Rate
    BY <2>2, Refill
  <2>4. (clock - grants[i]) * Rate \in Int /\ (clock' - grants[i]) * Rate \in Int
    BY <2>1, <2>2, SMT
  <2>5. QED
    BY <2>1, <2>3, <2>4, SMT
<1>4. Balanced'
  <2>1. Decayed' = Decayed + Rate
    <3>1. clock - seenAt \in Int /\ clock + 1 - seenAt = (clock - seenAt) + 1
      BY Numbers, SMT
    <3>2. Decayed' = (clock' - seenAt') * Rate
      BY DEF Decayed
    <3>3. clock' - seenAt' = (clock - seenAt) + 1
      BY <1>1, Numbers, SMT
    <3>4. QED
      BY <3>1, <3>2, <3>3, OneTickOn DEF Decayed
  <2> DEFINE now == clock + 1
  <2>0. now \in Nat /\ clock' = now
    BY <1>1, Numbers, SMT
  <2>2. RefilledAt(clock)' = RefilledAt(now)
    BY <1>1, <2>0 DEF RefilledAt, Capacity
  <2>3. Requests' \in Nat /\ Requests' <= Requests /\ Late' = Late /\ Refused' = Refused
    BY <1>1, <1>3, FewerPrompt DEF Late, Refused
  <2>4. excess - (Decayed + Rate) + Requests' + RefilledAt(now) + Refused <= Capacity + Late
    <3>1. /\ excess \in Int /\ Decayed \in Nat /\ Rate \in Nat /\ Requests \in Nat
          /\ Capacity \in Nat /\ RefilledAt(clock) \in Nat
          /\ Late \in Nat /\ Refused \in Nat
      BY Numbers, Sums
    <3>2. RefilledAt(now) \in Int /\ RefilledAt(now) <= RefilledAt(clock) + Rate
      BY <2>0, RefilledOneTickOn
    <3>3. excess - Decayed + Requests + RefilledAt(clock) + Refused <= Capacity + Late
      BY Sums
    <3>4. QED
      BY <2>3, <3>1, <3>2, <3>3, SMT
  <2>5. QED
    BY <1>1, <2>1, <2>2, <2>3, <2>4, Zenon DEF Balanced, Capacity
<1>5. QED
  BY <1>2, <1>4 DEF TInv

\* A granted call turns a token into a prompt request.
LEMMA SendKeeps ==
  ASSUME TInv, IInv', NEW t \in Threads, Send(t)
  PROVE  TInv'
<1> DEFINE n == Len(grants)
<1>0. /\ n \in Nat /\ flight \in SUBSET (1..n) /\ IsFiniteSet(flight)
      /\ refused \in SUBSET (1..n) /\ late \in SUBSET (1..n)
  BY Numbers DEF TInv, ArrivalsOK
<1>1. /\ Len(grants') = n + 1 /\ grants'[n + 1] = clock
      /\ \A k \in 1..n : grants'[k] = grants[k]
      /\ flight' = flight \cup {n + 1} /\ clock' = clock
      /\ tokens' = RefilledAt(clock) - Token /\ updatedAt' = clock
      /\ UNCHANGED <<excess, seenAt, refused, late>>
      /\ RefilledAt(clock) >= Token
  BY Numbers DEF Send, Take, gateway
<1>2. n + 1 \notin 1..n /\ 1..n \subseteq 1..(n + 1) /\ n + 1 \in 1..(n + 1)
  BY <1>0, SMT
<1>3. IsFiniteSet(flight')
  BY <1>0, <1>1, FS_AddElement
<1>4. ArrivalsOK' /\ GatewayOK' /\ RefusalsAreDueToDelay'
  BY <1>0, <1>1, <1>2, <1>3
     DEF TInv, ArrivalsOK, GatewayOK, Capacity, RefusalsAreDueToDelay
<1>5. Prompt' = Prompt \cup {n + 1} /\ n + 1 \notin Prompt
  <2>1. ~((clock - clock) * Rate > Token)
    <3>1. (clock - clock) * Rate = 0
      BY Numbers, JustRefilled
    <3>2. QED
      BY <3>1, Numbers, SMT
  <2>2. \A k \in flight : (clock' - grants'[k]) * Rate = (clock - grants[k]) * Rate
    BY <1>0, <1>1
  <2>3. QED
    BY <1>0, <1>1, <1>2, <2>1, <2>2 DEF Prompt, Overdue
<1>6. Balanced'
  <2>1. Requests' = Requests + Token
    <3>1. IsFiniteSet(Prompt) /\ Cardinality(Prompt) \in Int
      BY Numbers
    <3>2. Cardinality(Prompt \cup {n + 1}) = Cardinality(Prompt) + 1
      BY <1>5, <3>1, FS_AddElement
    <3>3. QED
      BY <1>5, <3>1, <3>2, OneToken DEF Requests
  <2>2. RefilledAt(clock)' = RefilledAt(clock) - Token
    <3>1. RefilledAt(clock)'
            = IF tokens' + (clock - clock) * Rate <= Capacity
                THEN tokens' + (clock - clock) * Rate ELSE Capacity
      BY <1>1 DEF RefilledAt, Capacity
    <3>2. (clock - clock) * Rate = 0
      BY Numbers, JustRefilled
    <3>3. tokens' + 0 <= Capacity /\ tokens' + 0 = RefilledAt(clock) - Token
      <4>1. /\ RefilledAt(clock) \in Nat /\ RefilledAt(clock) <= Capacity
            /\ Token \in Nat /\ Capacity \in Nat
        BY Numbers, Sums
      <4>2. QED
        BY <1>1, <4>1, SMT
    <3>4. QED
      BY <3>1, <3>2, <3>3
  <2>3. Decayed' = Decayed /\ Late' = Late /\ Refused' = Refused
    BY <1>1 DEF Decayed, Late, Refused
  <2>4. excess - Decayed + (Requests + Token) + (RefilledAt(clock) - Token) + Refused
          <= Capacity + Late
    <3>1. /\ excess \in Int /\ Decayed \in Nat /\ Requests \in Nat /\ Token \in Nat
          /\ RefilledAt(clock) \in Nat /\ Capacity \in Nat
          /\ Late \in Nat /\ Refused \in Nat
          /\ excess - Decayed + Requests + RefilledAt(clock) + Refused <= Capacity + Late
      BY Numbers, Sums
    <3>2. QED
      BY <3>1, SMT
  <2>5. QED
    BY <1>1, <2>1, <2>2, <2>3, <2>4, Zenon DEF Balanced, Capacity
<1>7. QED
  BY <1>4, <1>6 DEF TInv

\* Waiting moves nothing between bucket and Gateway.
LEMMA WaitKeeps ==
  ASSUME TInv, IInv', NEW t \in Threads, Wait(t)
  PROVE  TInv'
<1>1. clock' = clock /\ grants' = grants
  BY DEF Wait, Call, FallAsleep, Wake
<1>2. UNCHANGED <<flight, excess, seenAt, refused, late>>
  BY DEF Wait, gateway
<1>3. RefilledAt(clock)' = RefilledAt(clock)
  <2>1. CASE FallAsleep(t)
    <3>1. tokens' = RefilledAt(clock) /\ updatedAt' = clock
      BY <2>1 DEF FallAsleep
    <3>2. RefilledAt(clock)'
            = IF tokens' + (clock - clock) * Rate <= Capacity
                THEN tokens' + (clock - clock) * Rate ELSE Capacity
      BY <1>1, <3>1 DEF RefilledAt, Capacity
    <3>3. (clock - clock) * Rate = 0
      BY Numbers, JustRefilled
    <3>4. tokens' + 0 <= Capacity /\ tokens' + 0 = RefilledAt(clock)
      BY <3>1, Sums, SMT
    <3>5. QED
      BY <3>2, <3>3, <3>4
  <2>2. CASE Call(t) \/ Wake(t)
    BY <2>2, <1>1 DEF Call, Wake, bucket, RefilledAt, Capacity
  <2>3. QED
    BY <2>1, <2>2 DEF Wait
<1>4. Prompt' = Prompt
  BY <1>1, <1>2 DEF Prompt, Overdue
<1>5. ArrivalsOK' /\ GatewayOK' /\ Balanced' /\ RefusalsAreDueToDelay'
  BY <1>1, <1>2, <1>3, <1>4
     DEF TInv, ArrivalsOK, GatewayOK, Balanced, Decayed, Requests, Late, Refused,
         Capacity, RefusalsAreDueToDelay
<1>6. QED
  BY <1>5 DEF TInv

\* A request that arrives leaves the prompt ones, or is noted as a late one.
LEMMA Arrival ==
  ASSUME TInv, NEW i \in flight, Arrive(i), UNCHANGED <<clock, grants>>
  PROVE  /\ flight' \in SUBSET flight /\ IsFiniteSet(flight') /\ i \notin flight'
         /\ late' \in SUBSET (1..Len(grants)) /\ IsFiniteSet(late')
         /\ late' \cap flight' = {}
         /\ \/ /\ late' = late /\ Late' = Late /\ Requests' = Requests - Token
               /\ 1 <= Cardinality(Prompt)
            \/ /\ Cardinality(late') = Cardinality(late) + 1
               /\ Late' = Late + Token /\ Requests' = Requests
<1>1. flight' = flight \ {i} /\ late' = late \cup {k \in {i} : Overdue(k)}
  BY DEF Arrive
<1>2. /\ IsFiniteSet(flight) /\ IsFiniteSet(late) /\ i \in 1..Len(grants) /\ i \notin late
      /\ late \in SUBSET (1..Len(grants)) /\ late \cap flight = {}
  BY DEF TInv, ArrivalsOK
<1>3. flight' \in SUBSET flight /\ IsFiniteSet(flight') /\ i \notin flight'
  BY <1>1, <1>2, FS_RemoveElement
<1>4. Prompt' = Prompt \ {i}
  BY <1>1 DEF Prompt, Overdue
<1>5. CASE Overdue(i)
  <2>1. late' = late \cup {i} /\ Prompt' = Prompt
    BY <1>1, <1>4, <1>5 DEF Prompt
  <2>2. IsFiniteSet(late') /\ Cardinality(late') = Cardinality(late) + 1
    BY <1>2, <2>1, FS_AddElement
  <2>3. Late' = Late + Token /\ Requests' = Requests
    <3>1. Cardinality(late) \in Int
      BY Numbers
    <3>2. QED
      BY <2>1, <2>2, <3>1, OneToken DEF Late, Requests
  <2>4. QED
    BY <1>1, <1>2, <1>3, <2>1, <2>2, <2>3
<1>6. CASE ~Overdue(i)
  <2>1. late' = late /\ i \in Prompt
    BY <1>1, <1>6 DEF Prompt
  <2>2. Cardinality(Prompt') = Cardinality(Prompt) - 1
    BY <1>4, <2>1, Numbers, FS_RemoveElement
  <2>3. Late' = Late /\ Requests' = Requests - Token
    <3>1. Cardinality(Prompt) \in Int
      BY Numbers
    <3>2. QED
      BY <2>1, <2>2, <3>1, OneToken DEF Late, Requests
  <2>4. 1 <= Cardinality(Prompt)
    <3>1. Cardinality(Prompt) # 0
      BY <2>1, Numbers, FS_EmptySet
    <3>2. QED
      BY <3>1, Numbers, SMT
  <2>5. QED
    BY <1>1, <1>2, <1>3, <2>1, <2>3, <2>4
<1>7. QED
  BY <1>5, <1>6

\* A counted request's token is in the excess, or the excess had decayed and
\* there is room for all that is promptly under way.
LEMMA AdmitKeeps ==
  ASSUME TInv, IInv', NEW i \in flight, Admit(i)
  PROVE  TInv'
<1>1. /\ UNCHANGED <<clock, tokens, updatedAt, grants, refused>>
      /\ excess' = ExcessNow /\ seenAt' = clock /\ Arrive(i)
      /\ ExcessNow <= Capacity
  BY DEF Admit, vars, bucket
<1>2. /\ flight' \in SUBSET flight /\ IsFiniteSet(flight')
      /\ late' \in SUBSET (1..Len(grants)) /\ IsFiniteSet(late')
      /\ late' \cap flight' = {}
  BY <1>1, Arrival
<1>3. \/ late' = late /\ Late' = Late /\ Requests' = Requests - Token
      \/ /\ Cardinality(late') = Cardinality(late) + 1
         /\ Late' = Late + Token /\ Requests' = Requests
  BY <1>1, Arrival
<1>4. ArrivalsOK'
  BY <1>1, <1>2 DEF TInv, ArrivalsOK
<1>5. GatewayOK'
  <2>1. ExcessNow \in Nat
    <3>1. excess \in Int /\ Decayed \in Nat /\ Token \in Nat
      BY Numbers, Sums
    <3>2. ExcessNow = IF excess - Decayed + Token >= 0
                        THEN excess - Decayed + Token ELSE 0
      BY Sums
    <3>3. QED
      BY <3>1, <3>2, SMT
  <2>2. excess' \in 0..Capacity /\ seenAt' \in 0..clock
    BY <1>1, <2>1, Numbers, SMT
  <2>3. QED
    BY <1>1, <2>2 DEF GatewayOK, Capacity
<1>6. RefusalsAreDueToDelay'
  BY <1>1, <1>3, Numbers, SMT DEF RefusalsAreDueToDelay
<1>7. Balanced'
  <2>1. Decayed' = 0
    BY <1>1, Numbers, JustRefilled DEF Decayed
  <2>2. RefilledAt(clock)' = RefilledAt(clock) /\ Refused' = Refused
    BY <1>1 DEF RefilledAt, Capacity, Refused
  <2>3. ExcessNow - 0 + Requests' + RefilledAt(clock) + Refused <= Capacity + Late'
    <3>1. /\ excess \in Int /\ Decayed \in Nat /\ Token \in Nat /\ Requests \in Nat
          /\ Capacity \in Nat /\ RefilledAt(clock) \in Nat
          /\ Late \in Nat /\ Refused \in Nat /\ Refused <= Late
      BY Numbers, Sums
    <3>2. Requests + RefilledAt(clock) <= Capacity + Token
      BY UnderWay
    <3>3. excess - Decayed + Requests + RefilledAt(clock) + Refused <= Capacity + Late
      BY Sums
    <3>4. CASE ExcessNow = excess - Decayed + Token
      BY <1>3, <3>1, <3>3, <3>4, SMTT(20)
    <3>5. CASE ExcessNow = 0
      BY <1>3, <3>1, <3>2, <3>5, SMTT(20)
    <3>6. QED
      BY <3>4, <3>5, Sums
  <2>4. QED
    BY <1>1, <2>1, <2>2, <2>3, Zenon DEF Balanced, Capacity
<1>8. QED
  BY <1>4, <1>5, <1>6, <1>7 DEF TInv

\* A request is refused because it is late itself, or because a late one of which
\* no refusal has come yet took its room.
LEMMA RefuseKeeps ==
  ASSUME TInv, IInv', NEW i \in flight, Refuse(i)
  PROVE  TInv'
<1>1. /\ UNCHANGED <<clock, tokens, updatedAt, grants, excess, seenAt>>
      /\ refused' = refused \cup {i} /\ Arrive(i)
      /\ ExcessNow > Capacity
  BY DEF Refuse, vars, bucket
<1>2. /\ flight' \in SUBSET flight /\ IsFiniteSet(flight') /\ i \notin flight'
      /\ late' \in SUBSET (1..Len(grants)) /\ IsFiniteSet(late')
      /\ late' \cap flight' = {}
  BY <1>1, Arrival
<1>3. /\ IsFiniteSet(refused') /\ Cardinality(refused') = Cardinality(refused) + 1
      /\ i \in 1..Len(grants)
  BY <1>1, FS_AddElement DEF TInv, ArrivalsOK
<1>4. ArrivalsOK' /\ GatewayOK'
  BY <1>1, <1>2, <1>3 DEF TInv, ArrivalsOK, GatewayOK, Capacity
<1>5. Refused' = Refused + Token
  <2>1. Cardinality(refused) \in Int
    BY Numbers
  <2>2. QED
    BY <1>3, <2>1, OneToken DEF Refused
<1>6. /\ excess \in Int /\ Decayed \in Nat /\ Token \in Nat /\ Requests \in Nat
      /\ Capacity \in Nat /\ RefilledAt(clock) \in Nat
      /\ Late \in Nat /\ Refused \in Nat
      /\ excess - Decayed + Requests + RefilledAt(clock) + Refused <= Capacity + Late
  BY Numbers, Sums
<1>7. /\ RefusalsAreDueToDelay'
      /\ excess - Decayed + Requests' + RefilledAt(clock) + (Refused + Token)
           <= Capacity + Late'
  <2>1. CASE /\ Cardinality(late') = Cardinality(late) + 1
             /\ Late' = Late + Token /\ Requests' = Requests
    <3>1. RefusalsAreDueToDelay'
      BY <1>3, <2>1, Numbers, SMT DEF RefusalsAreDueToDelay
    <3>2. QED
      BY <1>6, <2>1, <3>1, SMT
  <2>2. CASE /\ late' = late /\ Late' = Late /\ Requests' = Requests - Token
             /\ 1 <= Cardinality(Prompt)
    <3>1. Token <= Requests
      <4>1. 1 * Token <= Cardinality(Prompt) * Token
        BY <2>2, Numbers, Tokens, SMT
      <4>2. QED
        BY <4>1, Numbers DEF Requests
    <3>2. excess - Decayed + Token > Capacity
      <4>1. ExcessNow = IF excess - Decayed + Token >= 0
                          THEN excess - Decayed + Token ELSE 0
        BY Sums
      <4>2. QED
        BY <1>1, <1>6, <4>1, SMT
    <3>3. Refused < Late
      BY <1>6, <3>1, <3>2, SMT
    <3>4. ~(Cardinality(late) <= Cardinality(refused))
      <4>1. SUFFICES ASSUME Cardinality(late) <= Cardinality(refused)
                     PROVE  FALSE
        OBVIOUS
      <4>2. Late <= Refused
        BY <4>1, Numbers, Tokens DEF Late, Refused
      <4>3. QED
        BY <1>6, <3>3, <4>2, SMT
    <3>5. Cardinality(refused) + 1 <= Cardinality(late)
      BY <3>4, Numbers, SMT
    <3>6. RefusalsAreDueToDelay'
      BY <1>3, <2>2, <3>5 DEF RefusalsAreDueToDelay
    <3>7. QED
      BY <1>6, <2>2, <3>6, SMT
  <2>3. QED
    BY <1>1, <2>1, <2>2, Arrival
<1>8. Balanced'
  <2>1. Decayed' = Decayed /\ RefilledAt(clock)' = RefilledAt(clock)
    BY <1>1 DEF Decayed, RefilledAt, Capacity
  <2>2. QED
    BY <1>1, <1>5, <1>7, <2>1, Zenon DEF Balanced, Capacity
<1>9. QED
  BY <1>4, <1>7, <1>8 DEF TInv

\* A lost request only makes room.
LEMMA LoseKeeps ==
  ASSUME TInv, IInv', NEW i \in flight, Lose(i)
  PROVE  TInv'
<1>1. /\ UNCHANGED <<clock, tokens, updatedAt, grants, excess, seenAt, refused, late>>
      /\ flight' = flight \ {i}
  BY DEF Lose, vars, bucket, gateway
<1>2. IsFiniteSet(flight') /\ Prompt' \in SUBSET Prompt
  BY <1>1, FS_RemoveElement DEF TInv, ArrivalsOK, Prompt, Overdue
<1>3. ArrivalsOK' /\ GatewayOK' /\ RefusalsAreDueToDelay'
  BY <1>1, <1>2 DEF TInv, ArrivalsOK, GatewayOK, Capacity, RefusalsAreDueToDelay
<1>4. Balanced'
  <2>1. Requests' \in Nat /\ Requests' <= Requests
    BY <1>2, FewerPrompt
  <2>2. /\ Decayed' = Decayed /\ RefilledAt(clock)' = RefilledAt(clock)
        /\ Late' = Late /\ Refused' = Refused
    BY <1>1 DEF Decayed, RefilledAt, Capacity, Late, Refused
  <2>3. excess - Decayed + Requests' + RefilledAt(clock) + Refused <= Capacity + Late
    <3>1. /\ excess \in Int /\ Decayed \in Nat /\ Requests \in Nat
          /\ Capacity \in Nat /\ RefilledAt(clock) \in Nat
          /\ Late \in Nat /\ Refused \in Nat
          /\ excess - Decayed + Requests + RefilledAt(clock) + Refused <= Capacity + Late
      BY Numbers, Sums
    <3>2. QED
      BY <2>1, <3>1, SMT
  <2>4. QED
    BY <1>1, <2>2, <2>3, Zenon DEF Balanced, Capacity
<1>5. QED
  BY <1>3, <1>4 DEF TInv

\* Every step of client and Gateway keeps the invariant.
LEMMA ThrottleInvNext == TInv /\ [ThrottleNext]_throttleVars => TInv'
<1> SUFFICES ASSUME TInv, [ThrottleNext]_throttleVars
             PROVE  TInv'
  OBVIOUS
<1>0. IInv'
  BY ThrottleSteps, InvNext DEF TInv
<1>1. CASE Pass
  BY <1>0, <1>1, PassKeeps
<1>2. ASSUME NEW t \in Threads, Send(t)
      PROVE  TInv'
  BY <1>0, <1>2, SendKeeps
<1>3. ASSUME NEW t \in Threads, Wait(t)
      PROVE  TInv'
  BY <1>0, <1>3, WaitKeeps
<1>4. ASSUME NEW i \in flight, Admit(i)
      PROVE  TInv'
  BY <1>0, <1>4, AdmitKeeps
<1>5. ASSUME NEW i \in flight, Refuse(i)
      PROVE  TInv'
  BY <1>0, <1>5, RefuseKeeps
<1>6. ASSUME NEW i \in flight, Lose(i)
      PROVE  TInv'
  BY <1>0, <1>6, LoseKeeps
<1>7. CASE UNCHANGED throttleVars
  <2>1. Prompt' = Prompt
    BY <1>7 DEF throttleVars, vars, gateway, Prompt, Overdue
  <2>2. QED
    BY <1>0, <1>7, <2>1
       DEF throttleVars, vars, bucket, gateway, TInv, ArrivalsOK, GatewayOK, Balanced,
           Decayed, Requests, Late, Refused, RefilledAt, Capacity, RefusalsAreDueToDelay
<1>8. QED
  BY <1>1, <1>2, <1>3, <1>4, <1>5, <1>6, <1>7 DEF ThrottleNext

-----------------------------------------------------------------------------
\* The inductive invariant of client and Gateway together.
THEOREM ThrottleInvariance == ThrottleSpec => []TInv
BY ThrottleInvInit, ThrottleInvNext, PTL DEF ThrottleSpec

\* The variables of client and Gateway keep their types.
THEOREM ThrottleTyped == ThrottleSpec => []ThrottleTypeOK
<1>1. TInv => ThrottleTypeOK
  BY DEF TInv, IInv, ArrivalsOK, GatewayOK, ThrottleTypeOK
<1>2. QED
  BY <1>1, ThrottleInvariance, PTL

\* The Gateway answers no more 429s to the only process that uses a key than
\* requests of it have come late, whatever the rate, the burst, the number of
\* threads, the time under way and the order of arrival.
THEOREM RefusedForDelay == ThrottleSpec => []RefusalsAreDueToDelay
<1>1. TInv => RefusalsAreDueToDelay
  BY DEF TInv
<1>2. QED
  BY <1>1, ThrottleInvariance, PTL

=============================================================================
