-------------------------- MODULE RateLimiterProofs --------------------------
(***************************************************************************)
(* Proofs about RateLimiter for every set of keys, rate, burst and ttl:    *)
(* eviction is invisible (the map implements TokenBucket), and the rate    *)
(* bound holds over every window of time.                                  *)
(***************************************************************************)
EXTENDS RateLimiter, TLAPS

LEMMA FullType == Full \in Nat /\ Cost \in Nat /\ Cost > 0 /\ Full >= Cost
<1>1. \A b, c \in Nat \ {0} : b * c \in Nat /\ b * c >= c
  OBVIOUS
<1>. QED  BY <1>1, LimiterAssumption DEF Full

(* A bucket's times are not in the future.                                 *)
InPast == \A k \in DOMAIN buckets : buckets[k].last <= now /\ buckets[k].lastSeen <= now

IInv == TypeOK /\ InPast

LEMMA GetType ==
  ASSUME IInv, NEW k \in Keys
  PROVE  /\ Get(k) \in Bucket /\ Get(k).last <= now /\ Get(k).lastSeen <= now
         /\ Level(k) \in 0..Full
<1>1. NewBucket \in Bucket /\ NewBucket.last <= now /\ NewBucket.lastSeen <= now
  BY FullType, LimiterAssumption DEF IInv, TypeOK, NewBucket, Bucket
<1>2. Get(k) \in Bucket /\ Get(k).last <= now /\ Get(k).lastSeen <= now
  BY <1>1 DEF IInv, TypeOK, InPast, Get, Known
<1>3. now \in Nat
  BY LimiterAssumption DEF IInv, TypeOK
<1>4. Get(k).tokens \in 0..Full /\ Get(k).last \in Nat
  BY <1>2, LimiterAssumption DEF Bucket
<1>. QED  BY <1>2, <1>3, <1>4, FullType DEF Level, Tokens

LEMMA IInvInit == Init => IInv
<1>. SUFFICES ASSUME Init PROVE IInv
  OBVIOUS
<1>1. DOMAIN buckets = {}
  BY DEF Init
<1>2. now = 0 /\ now \in 0..MaxTime
  BY LimiterAssumption DEF Init
<1>3. spent \in [Keys -> Nat] /\ age \in Nat /\ cutoff \in Int
  BY DEF Init
<1>4. reply = NoReply /\ due \in BOOLEAN /\ sweeping \in BOOLEAN
  BY DEF Init
<1>. QED  BY <1>1, <1>2, <1>3, <1>4 DEF IInv, TypeOK, InPast

LEMMA IInvNext == IInv /\ [Next]_vars => IInv'
<1>. SUFFICES ASSUME IInv, [Next]_vars PROVE IInv'
  OBVIOUS
<1>0. now \in 0..MaxTime /\ now \in Nat
  BY LimiterAssumption DEF IInv, TypeOK
<1>1. ASSUME NEW k \in Keys, NEW b \in Bucket, Put(k, b), b.last <= now, b.lastSeen <= now,
             UNCHANGED now
      PROVE  /\ DOMAIN buckets' \subseteq Keys
             /\ \A j \in DOMAIN buckets' : buckets'[j] \in Bucket
             /\ InPast'
  BY <1>1 DEF Put, IInv, TypeOK, InPast
<1>2. ASSUME NEW k \in Keys, Admit(k) PROVE IInv'
  <2>. DEFINE b == [tokens |-> Tokens(Get(k)) - Cost, last |-> now, lastSeen |-> now]
  <2>1. Tokens(Get(k)) \in 0..Full /\ Tokens(Get(k)) >= Cost
    BY <1>2, GetType DEF Admit, Level
  <2>2. b \in Bucket /\ b.last <= now /\ b.lastSeen <= now
    BY <1>0, <2>1, FullType DEF Bucket
  <2>3. Put(k, b) /\ now' = now
    BY <1>2 DEF Admit
  <2>. HIDE DEF b
  <2>4. /\ DOMAIN buckets' \subseteq Keys
        /\ \A j \in DOMAIN buckets' : buckets'[j] \in Bucket
        /\ InPast'
    BY <1>1, <2>2, <2>3
  <2>. QED  BY <1>2, <2>3, <2>4, FullType DEF Admit, IInv, TypeOK, loop_vars
<1>3. ASSUME NEW k \in Keys, Reject(k) PROVE IInv'
  <2>. DEFINE b == [Get(k) EXCEPT !.lastSeen = now]
  <2>1. b \in Bucket /\ b.last <= now /\ b.lastSeen <= now
    BY <1>0, GetType DEF Bucket
  <2>2. Put(k, b) /\ now' = now
    BY <1>3 DEF Reject
  <2>. HIDE DEF b
  <2>3. /\ DOMAIN buckets' \subseteq Keys
        /\ \A j \in DOMAIN buckets' : buckets'[j] \in Bucket
        /\ InPast'
    BY <1>1, <2>1, <2>2
  <2>. QED  BY <1>3, <2>2, <2>3 DEF Reject, IInv, TypeOK, loop_vars
<1>4. CASE TakeCutoff
  <2>1. cutoff' \in Int
    BY <1>0, <1>4, LimiterAssumption DEF TakeCutoff
  <2>0. due' \in BOOLEAN /\ sweeping' \in BOOLEAN
    BY <1>4, Zenon DEF TakeCutoff
  <2>2. UNCHANGED <<now, buckets, reply, spent, age>>
    BY <1>4 DEF TakeCutoff
  <2>. QED  BY <2>0, <2>1, <2>2 DEF IInv, TypeOK, InPast
<1>5. CASE Sweep
  BY <1>5 DEF Sweep, IInv, TypeOK, InPast
<1>6. CASE Tick
  <2>1. InPast'
    <3>. SUFFICES ASSUME NEW k \in DOMAIN buckets
                  PROVE  buckets[k].last <= now + 1 /\ buckets[k].lastSeen <= now + 1
      BY <1>6 DEF Tick, InPast
    <3>1. buckets[k].last \in Nat /\ buckets[k].lastSeen \in Nat
      BY LimiterAssumption DEF IInv, TypeOK, Bucket
    <3>. QED  BY <1>0, <3>1 DEF IInv, InPast
  <2>2. due' \in BOOLEAN
    BY <1>6, Zenon DEF Tick
  <2>3. now' \in 0..MaxTime /\ age' \in Nat
    BY <1>0, <1>6, LimiterAssumption DEF Tick, IInv, TypeOK
  <2>. QED  BY <1>6, <2>1, <2>2, <2>3 DEF Tick, IInv, TypeOK
<1>7. CASE OpenWindow
  BY <1>7 DEF OpenWindow, IInv, TypeOK, InPast, loop_vars
<1>8. CASE UNCHANGED vars
  BY <1>8 DEF vars, loop_vars, IInv, TypeOK, InPast
<1>. QED  BY <1>2, <1>3, <1>4, <1>5, <1>6, <1>7, <1>8 DEF Next, Allow

(* Type correctness: stored credit is never negative nor over the burst.   *)
THEOREM RateLimiterTypeCorrect == Spec => []TypeOK
  BY IInvInit, IInvNext, PTL DEF Spec, IInv

-----------------------------------------------------------------------------
(* What each action does to the credit a key has, bucket or no bucket.     *)

LEMMA LevelOfUnknown == ASSUME NEW k \in Keys, ~Known(k), IInv PROVE Level(k) = Full
<1>1. now \in Nat
  BY LimiterAssumption DEF IInv, TypeOK
<1>. QED  BY <1>1, FullType DEF Level, Get, NewBucket, Tokens

(* A bucket that is put in place of the one a key had, in the same instant. *)
LEMMA LevelAfterPut ==
  ASSUME IInv, NEW k \in Keys, NEW b, Put(k, b), UNCHANGED now, NEW j \in Keys
  PROVE  Level(j)' = IF j = k THEN Tokens(b) ELSE Level(j)
<1>1. CASE j = k
  <2>1. Known(j)' /\ buckets'[j] = b
    BY <1>1 DEF Put, Known
  <2>2. Level(j)' = Tokens(b)
    BY <2>1 DEF Level, Get, Tokens, Known
  <2>. QED  BY <1>1, <2>2
<1>2. CASE j # k
  <2>1. Known(j)' = Known(j) /\ (Known(j) => buckets'[j] = buckets[j])
    BY <1>2 DEF Put, Known
  <2>2. Get(j)' = Get(j)
    BY <2>1 DEF Get, NewBucket
  <2>3. Level(j)' = Level(j)
    BY <2>2 DEF Level, Tokens
  <2>. QED  BY <1>2, <2>3
<1>. QED  BY <1>1, <1>2

LEMMA LevelAfterAdmit ==
  ASSUME IInv, NEW k \in Keys, Admit(k), NEW j \in Keys
  PROVE  Level(j)' = IF j = k THEN Level(k) - Cost ELSE Level(j)
<1>. DEFINE b == [tokens |-> Tokens(Get(k)) - Cost, last |-> now, lastSeen |-> now]
<1>1. Put(k, b) /\ UNCHANGED now
  BY DEF Admit
<1>2. Level(k) \in 0..Full /\ now \in Nat
  BY GetType, LimiterAssumption DEF IInv, TypeOK
<1>3. Tokens(b) = Level(k) - Cost
  BY <1>2, FullType DEF Tokens, Level
<1>. HIDE DEF b
<1>. QED  BY <1>1, <1>3, LevelAfterPut

LEMMA LevelAfterReject ==
  ASSUME IInv, NEW k \in Keys, Reject(k), NEW j \in Keys
  PROVE  Level(j)' = Level(j)
<1>. DEFINE b == [Get(k) EXCEPT !.lastSeen = now]
<1>1. Put(k, b) /\ UNCHANGED now
  BY DEF Reject
<1>2. b.tokens = Get(k).tokens /\ b.last = Get(k).last
  BY GetType DEF Bucket
<1>. HIDE DEF b
<1>3. Tokens(b) = Level(k)
  BY <1>2 DEF Tokens, Level
<1>. QED  BY <1>1, <1>3, LevelAfterPut

(* Eviction: only a bucket as good as a new one is taken away.             *)
LEMMA LevelAfterSweep ==
  ASSUME IInv, Sweep, NEW j \in Keys
  PROVE  Level(j)' = Level(j)
<1>0. UNCHANGED now
  BY DEF Sweep
<1>1. CASE Known(j) /\ Evictable(buckets[j])
  <2>1. Level(j) = Full
    <3>1. Level(j) >= Full
      BY <1>1 DEF Evictable, Level, Get
    <3>. QED  BY <3>1, GetType, FullType
  <2>2. ~Known(j)'
    BY <1>1 DEF Sweep, Known
  <2>3. IInv' /\ j \in Keys
    BY IInvNext DEF Next
  <2>4. Level(j)' = Tokens(NewBucket)
    BY <1>0, <2>2 DEF Level, Get, Tokens, NewBucket
  <2>5. Tokens(NewBucket) = Full
    <3>1. now \in Nat
      BY LimiterAssumption DEF IInv, TypeOK
    <3>. QED  BY <3>1, FullType DEF Tokens, NewBucket
  <2>. QED  BY <2>1, <2>4, <2>5
<1>2. CASE ~(Known(j) /\ Evictable(buckets[j]))
  <2>1. Known(j)' = Known(j) /\ (Known(j) => buckets'[j] = buckets[j])
    BY <1>2 DEF Sweep, Known
  <2>2. Get(j)' = Get(j)
    BY <1>0, <2>1 DEF Get, NewBucket
  <2>. QED  BY <1>0, <2>2 DEF Level, Tokens
<1>. QED  BY <1>1, <1>2

LEMMA LevelAfterTick ==
  ASSUME IInv, Tick, NEW j \in Keys
  PROVE  Level(j)' = IF Level(j) < Full THEN Level(j) + 1 ELSE Full
<1>1. now \in Nat /\ now' = now + 1 /\ buckets' = buckets
  BY LimiterAssumption DEF IInv, TypeOK, Tick
<1>2. CASE Known(j)
  <2>1. Get(j) \in Bucket /\ Get(j).last <= now
    BY GetType
  <2>2. Get(j).tokens \in 0..Full /\ Get(j).last \in Nat
    BY <2>1, LimiterAssumption DEF Bucket
  <2>3. Get(j)' = Get(j)
    BY <1>1, <1>2 DEF Get, Known
  <2>4. Level(j)' = LET grown == Get(j).tokens + ((now + 1) - Get(j).last)
                    IN  IF grown < Full THEN grown ELSE Full
    <3>1. Get(j)'.tokens = Get(j).tokens /\ Get(j)'.last = Get(j).last
      BY <2>3
    <3>. QED  BY <1>1, <3>1 DEF Level, Tokens, Full
  <2>5. Level(j) = LET grown == Get(j).tokens + (now - Get(j).last)
                   IN  IF grown < Full THEN grown ELSE Full
    BY DEF Level, Tokens
  <2>. QED  BY <1>1, <2>1, <2>2, <2>4, <2>5, FullType
<1>3. CASE ~Known(j)
  <2>1. Level(j) = Full
    BY <1>3, LevelOfUnknown
  <2>2. Level(j)' = LET grown == Full + ((now + 1) - (now + 1))
                    IN  IF grown < Full THEN grown ELSE Full
    BY <1>1, <1>3 DEF Level, Get, Known, Tokens, NewBucket
  <2>. QED  BY <1>1, <2>1, <2>2, FullType
<1>. QED  BY <1>2, <1>3

-----------------------------------------------------------------------------
(* The rate bound.                                                         *)

LEMMA RateBoundInit == Init => RateBound
<1>. SUFFICES ASSUME Init, NEW k \in Keys PROVE spent[k] + Level(k) <= Full + age
  BY DEF RateBound
<1>1. ~Known(k)
  BY DEF Init, Known
<1>2. Level(k) = Full
  BY <1>1, IInvInit, LevelOfUnknown
<1>3. spent[k] = 0 /\ age = 0
  BY DEF Init
<1>. QED  BY <1>2, <1>3, FullType

LEMMA RateBoundNext == IInv /\ RateBound /\ [Next]_vars => RateBound'
<1>. SUFFICES ASSUME IInv, RateBound, [Next]_vars, NEW j \in Keys
              PROVE  spent'[j] + Level(j)' <= Full + age'
  BY DEF RateBound
<1>1. spent \in [Keys -> Nat] /\ age \in Nat /\ spent[j] \in Nat
  BY DEF IInv, TypeOK
<1>2. Level(j) \in 0..Full /\ spent[j] + Level(j) <= Full + age
  BY GetType DEF RateBound
<1>3. ASSUME NEW k \in Keys, Admit(k)
      PROVE  spent'[j] + Level(j)' <= Full + age'
  <2>1. spent'[j] = (IF j = k THEN spent[j] + Cost ELSE spent[j]) /\ age' = age
    BY <1>1, <1>3 DEF Admit
  <2>2. Level(j)' = IF j = k THEN Level(k) - Cost ELSE Level(j)
    BY <1>3, LevelAfterAdmit
  <2>3. CASE j = k
    BY <1>1, <1>2, <2>1, <2>2, <2>3, FullType
  <2>4. CASE j # k
    BY <1>1, <1>2, <2>1, <2>2, <2>4, FullType
  <2>. QED  BY <2>3, <2>4
<1>4. ASSUME NEW k \in Keys, Reject(k)
      PROVE  spent'[j] + Level(j)' <= Full + age'
  BY <1>2, <1>4, LevelAfterReject DEF Reject
<1>5. CASE TakeCutoff
  <2>1. Level(j)' = Level(j)
    BY <1>5 DEF TakeCutoff, Level, Get, Known, Tokens, NewBucket
  <2>. QED  BY <1>2, <1>5, <2>1 DEF TakeCutoff
<1>6. CASE Sweep
  BY <1>2, <1>6, LevelAfterSweep DEF Sweep
<1>7. CASE Tick
  <2>1. Level(j)' = (IF Level(j) < Full THEN Level(j) + 1 ELSE Full) /\ age' = age + 1
    BY <1>7, LevelAfterTick DEF Tick
  <2>2. spent'[j] = spent[j]
    BY <1>7 DEF Tick
  <2>. QED  BY <1>1, <1>2, <2>1, <2>2, FullType
<1>8. CASE OpenWindow
  <2>1. Level(j)' = Level(j)
    BY <1>8 DEF OpenWindow, Level, Get, Known, Tokens, NewBucket
  <2>2. spent'[j] = 0 /\ age' = 0
    BY <1>8 DEF OpenWindow
  <2>. QED  BY <1>2, <2>1, <2>2, FullType
<1>9. CASE UNCHANGED vars
  <2>1. Level(j)' = Level(j)
    BY <1>9 DEF vars, Level, Get, Known, Tokens, NewBucket
  <2>. QED  BY <1>2, <1>9, <2>1 DEF vars
<1>. QED  BY <1>3, <1>4, <1>5, <1>6, <1>7, <1>8, <1>9 DEF Next, Allow

(* The rate holds over every window of time: what a key spends and what it *)
(* has left never exceed the burst and one refill per tick.                *)
THEOREM RateIsKept == Spec => []RateBound
<1>1. Init => IInv /\ RateBound
  BY IInvInit, RateBoundInit
<1>2. IInv /\ RateBound /\ [Next]_vars => (IInv /\ RateBound)'
  BY IInvNext, RateBoundNext
<1>. QED  BY <1>1, <1>2, PTL DEF Spec

-----------------------------------------------------------------------------
(* Eviction is invisible: the map implements one bucket per key for ever.  *)

LEMMA UnevictedInit == Init => Unevicted!Init
<1>. SUFFICES ASSUME Init PROVE Unevicted!Init
  OBVIOUS
<1>1. \A k \in Keys : Level(k) = Full
  BY IInvInit, LevelOfUnknown DEF Init, Known
<1>. QED  BY <1>1 DEF Init, Unevicted!Init, Unevicted!Full, Full, NoReply, Unevicted!NoReply

LEMMA UnevictedNext == IInv /\ [Next]_vars => [Unevicted!Next]_(Unevicted!vars)
<1>. SUFFICES ASSUME IInv, [Next]_vars
              PROVE  Unevicted!Next \/ UNCHANGED Unevicted!vars
  OBVIOUS
<1>. DEFINE level == [k \in Keys |-> Level(k)]
<1>0. ASSUME \A j \in Keys : Level(j)' = Level(j) PROVE level' = level
  BY <1>0
<1>1. ASSUME NEW k \in Keys, Admit(k) PROVE Unevicted!Admit(k)
  <2>1. level' = [level EXCEPT ![k] = @ - Cost]
    BY <1>1, LevelAfterAdmit
  <2>2. level[k] >= Cost
    BY <1>1 DEF Admit, Level
  <2>. QED  BY <1>1, <2>1, <2>2 DEF Admit, Unevicted!Admit
<1>2. ASSUME NEW k \in Keys, Reject(k) PROVE Unevicted!Reject(k)
  <2>1. level' = level
    BY <1>0, <1>2, LevelAfterReject
  <2>2. level[k] < Cost
    BY <1>2 DEF Reject, Level
  <2>. QED  BY <1>2, <2>1, <2>2 DEF Reject, Unevicted!Reject
<1>3. CASE TakeCutoff
  <2>1. level' = level
    BY <1>0, <1>3 DEF TakeCutoff, Level, Get, Known, Tokens, NewBucket
  <2>. QED  BY <1>3, <2>1 DEF TakeCutoff, Unevicted!vars
<1>4. CASE Sweep
  <2>1. level' = level
    BY <1>0, <1>4, LevelAfterSweep
  <2>. QED  BY <1>4, <2>1 DEF Sweep, Unevicted!vars
<1>5. CASE Tick
  <2>1. level' = [k \in Keys |-> IF level[k] < Full THEN level[k] + 1 ELSE Full]
    BY <1>5, LevelAfterTick
  <2>2. age' = age + 1 /\ reply' = reply /\ spent' = spent
    BY <1>5 DEF Tick
  <2>3. Unevicted!Tick
    BY <2>1, <2>2 DEF Unevicted!Tick, Unevicted!Full, Full
  <2>. QED  BY <2>3 DEF Unevicted!Next
<1>6. CASE OpenWindow
  <2>1. level' = level
    BY <1>0, <1>6 DEF OpenWindow, Level, Get, Known, Tokens, NewBucket
  <2>2. spent' = [k \in Keys |-> 0] /\ age' = 0 /\ reply' = reply
    BY <1>6 DEF OpenWindow
  <2>3. Unevicted!OpenWindow
    BY <2>1, <2>2 DEF Unevicted!OpenWindow
  <2>. QED  BY <2>3 DEF Unevicted!Next
<1>7. CASE UNCHANGED vars
  <2>1. level' = level
    BY <1>0, <1>7 DEF vars, Level, Get, Known, Tokens, NewBucket
  <2>. QED  BY <1>7, <2>1 DEF vars, Unevicted!vars
<1>. QED  BY <1>1, <1>2, <1>3, <1>4, <1>5, <1>6, <1>7 DEF Next, Allow, Unevicted!Next

(* Limiter answers as buckets that are never evicted would.                *)
THEOREM EvictionIsInvisible == Spec => ImplementsTokenBucket
<1>1. Init => Unevicted!Init
  BY UnevictedInit
<1>2. IInv /\ [Next]_vars => [Unevicted!Next]_(Unevicted!vars)
  BY UnevictedNext
<1>. QED  BY <1>1, <1>2, IInvInit, IInvNext, PTL DEF Spec, ImplementsTokenBucket, Unevicted!Spec

-----------------------------------------------------------------------------
(* Idle buckets go away.  Time has a last moment at which the ticker fired *)
(* (or would have); a tick that does not fire leaves that moment alone.    *)
LastTick(n) == n - (n % Ttl)

LEMMA DivisionIsUnique ==
  ASSUME NEW t \in Nat \ {0}, NEW p \in Int, NEW q \in Int,
         NEW r \in 0..t - 1, NEW s \in 0..t - 1, t * p + r = t * q + s
  PROVE  r = s
<1>1. ASSUME p < q PROVE FALSE
  <2>1. p + 1 <= q
    BY <1>1
  <2>2. t * (p + 1) <= t * q
    BY <2>1
  <2>3. t * (p + 1) = t * p + t
    OBVIOUS
  <2>. QED  BY <2>2, <2>3
<1>2. ASSUME q < p PROVE FALSE
  <2>1. q + 1 <= p
    BY <1>2
  <2>2. t * (q + 1) <= t * p
    BY <2>1
  <2>3. t * (q + 1) = t * q + t
    OBVIOUS
  <2>. QED  BY <2>2, <2>3
<1>3. p = q
  BY <1>1, <1>2
<1>. QED  BY <1>3

LEMMA Remainder ==
  ASSUME NEW n \in Nat, NEW t \in Nat \ {0}
  PROVE  /\ n % t \in 0..t - 1
         /\ (n + 1) % t # 0 => (n + 1) % t = (n % t) + 1
<1>1. /\ n % t \in 0..t - 1 /\ n \div t \in Nat /\ n = t * (n \div t) + (n % t)
      /\ (n + 1) % t \in 0..t - 1 /\ (n + 1) \div t \in Nat
      /\ n + 1 = t * ((n + 1) \div t) + ((n + 1) % t)
  OBVIOUS
<1>. DEFINE p == n \div t
            r == n % t
            q == (n + 1) \div t
            s == (n + 1) % t
<1>2. p \in Int /\ q \in Int /\ r \in 0..t - 1 /\ s \in 0..t - 1 /\ t * p + (r + 1) = t * q + s
  BY <1>1
<1>. HIDE DEF p, q, r, s
<1>3. CASE r + 1 \in 0..t - 1
  <2>1. r + 1 = s
    BY <1>2, <1>3, DivisionIsUnique
  <2>. QED  BY <1>1, <2>1 DEF r, s
<1>4. CASE r + 1 = t
  <2>1. t * p + (r + 1) = t * (p + 1) + 0
    BY <1>2, <1>4
  <2>2. 0 \in 0..t - 1 /\ p + 1 \in Int
    BY <1>2
  <2>3. t * (p + 1) + 0 = t * q + s
    BY <1>2, <2>1
  <2>4. 0 = s
    BY <1>2, <2>2, <2>3, DivisionIsUnique
  <2>. QED  BY <1>1, <2>4 DEF s
<1>. QED  BY <1>2, <1>3, <1>4

LEMMA LastTickType ==
  ASSUME NEW n \in Nat
  PROVE  LastTick(n) \in Int /\ LastTick(n) <= n /\ n - LastTick(n) < Ttl
<1>1. n % Ttl \in 0..Ttl - 1
  BY Remainder, LimiterAssumption
<1>. QED  BY <1>1, LimiterAssumption DEF LastTick

LEMMA LastTickStays ==
  ASSUME NEW n \in Nat, (n + 1) % Ttl # 0
  PROVE  LastTick(n + 1) = LastTick(n)
<1>1. n % Ttl \in 0..Ttl - 1 /\ (n + 1) % Ttl = (n % Ttl) + 1
  BY Remainder, LimiterAssumption
<1>. QED  BY <1>1, LimiterAssumption DEF LastTick

(* What the loop has done about the last tick, at each of its steps.       *)
Seen == \A k \in DOMAIN buckets : buckets[k].last <= buckets[k].lastSeen

Fresh(S) == \A k \in S : buckets[k].lastSeen >= LastTick(now) - Longest

LoopInv ==
  /\ Seen
  /\ ~due /\ sweeping => cutoff >= LastTick(now) - Ttl
  /\ ~due /\ ~sweeping => Fresh(DOMAIN buckets)

LEMMA LongestType == Longest \in Nat /\ Longest >= Ttl /\ Longest >= Full
  BY FullType, LimiterAssumption DEF Longest

LEMMA LoopInit == Init => LoopInv
  BY DEF Init, LoopInv, Seen, Fresh

(* A request leaves a bucket that was seen just now.                       *)
LEMMA LoopPut ==
  ASSUME IInv, LoopInv, NEW k \in Keys, NEW b, b.last <= b.lastSeen, b.lastSeen = now,
         Put(k, b), UNCHANGED <<now, loop_vars>>
  PROVE  LoopInv'
<1>1. now \in Nat
  BY LimiterAssumption DEF IInv, TypeOK
<1>2. now >= LastTick(now) - Longest
  BY <1>1, LastTickType, LongestType
<1>3. Seen'
  BY DEF LoopInv, Seen, Put
<1>4. ASSUME Fresh(DOMAIN buckets) PROVE Fresh(DOMAIN buckets)'
  <2>. SUFFICES ASSUME NEW j \in DOMAIN buckets'
                PROVE  buckets'[j].lastSeen >= (LastTick(now) - Longest)'
    BY DEF Fresh
  <2>1. (LastTick(now) - Longest)' = LastTick(now) - Longest
    BY DEF LastTick, Longest, Full
  <2>2. buckets'[j] = b \/ (j \in DOMAIN buckets /\ buckets'[j] = buckets[j])
    BY DEF Put
  <2>. QED  BY <1>2, <1>4, <2>1, <2>2 DEF Fresh
<1>5. (LastTick(now) - Ttl)' = LastTick(now) - Ttl
  BY DEF LastTick
<1>. QED  BY <1>3, <1>4, <1>5 DEF LoopInv, loop_vars

LEMMA LoopSweep ==
  ASSUME IInv, LoopInv, Sweep
  PROVE  LoopInv'
<1>1. now \in Nat /\ cutoff \in Int
  BY LimiterAssumption DEF IInv, TypeOK
<1>2. UNCHANGED <<now, due, cutoff>> /\ sweeping /\ ~sweeping'
  BY DEF Sweep
<1>3. \A k \in DOMAIN buckets' :
        k \in DOMAIN buckets /\ buckets'[k] = buckets[k] /\ ~Evictable(buckets[k])
  BY DEF Sweep
<1>4. Seen'
  BY <1>3 DEF LoopInv, Seen
<1>5. ASSUME ~due PROVE Fresh(DOMAIN buckets)'
  <2>. SUFFICES ASSUME NEW j \in DOMAIN buckets'
                PROVE  buckets'[j].lastSeen >= (LastTick(now) - Longest)'
    BY DEF Fresh
  <2>1. (LastTick(now) - Longest)' = LastTick(now) - Longest
    BY <1>2 DEF LastTick, Longest, Full
  <2>2. /\ buckets[j].last \in Nat /\ buckets[j].lastSeen \in Nat /\ buckets[j].tokens \in 0..Full
        /\ buckets[j].last <= buckets[j].lastSeen
    BY <1>3, LimiterAssumption DEF IInv, TypeOK, Bucket, LoopInv, Seen
  <2>3. cutoff >= LastTick(now) - Ttl
    BY <1>2, <1>5 DEF LoopInv
  <2>4. LastTick(now) \in Int /\ LastTick(now) <= now
    BY <1>1, LastTickType
  <2>5. CASE ~(buckets[j].lastSeen < cutoff)
    BY <1>1, <1>3, <2>1, <2>2, <2>3, <2>4, <2>5, LongestType, LimiterAssumption
  <2>6. CASE ~(Tokens(buckets[j]) >= Full)
    <3>1. buckets[j].tokens + (now - buckets[j].last) < Full
      BY <1>1, <2>2, <2>6, FullType DEF Tokens
    <3>2. buckets[j].lastSeen >= LastTick(now) - Longest
      BY <1>1, <2>2, <2>4, <3>1, FullType, LongestType
    <3>. QED  BY <1>3, <2>1, <3>2
  <2>. QED  BY <1>3, <2>5, <2>6 DEF Evictable
<1>. QED  BY <1>2, <1>4, <1>5 DEF LoopInv

LEMMA LoopNext == IInv /\ LoopInv /\ [Next]_vars => LoopInv'
<1>. SUFFICES ASSUME IInv, LoopInv, [Next]_vars PROVE LoopInv'
  OBVIOUS
<1>0. now \in Nat
  BY LimiterAssumption DEF IInv, TypeOK
<1>1. ASSUME NEW k \in Keys, Admit(k) PROVE LoopInv'
  <2>. DEFINE b == [tokens |-> Tokens(Get(k)) - Cost, last |-> now, lastSeen |-> now]
  <2>1. b.last <= b.lastSeen /\ b.lastSeen = now
    BY <1>0
  <2>2. Put(k, b) /\ UNCHANGED <<now, loop_vars>>
    BY <1>1 DEF Admit
  <2>. HIDE DEF b
  <2>. QED  BY <2>1, <2>2, LoopPut
<1>2. ASSUME NEW k \in Keys, Reject(k) PROVE LoopInv'
  <2>. DEFINE b == [Get(k) EXCEPT !.lastSeen = now]
  <2>1. b.last <= b.lastSeen /\ b.lastSeen = now
    BY GetType DEF Bucket
  <2>2. Put(k, b) /\ UNCHANGED <<now, loop_vars>>
    BY <1>2 DEF Reject
  <2>. HIDE DEF b
  <2>. QED  BY <2>1, <2>2, LoopPut
<1>3. CASE TakeCutoff
  <2>1. now - Ttl >= LastTick(now) - Ttl
    BY <1>0, LastTickType, LimiterAssumption
  <2>2. Seen'
    BY <1>3 DEF TakeCutoff, LoopInv, Seen
  <2>3. cutoff' >= (LastTick(now) - Ttl)'
    BY <1>3, <2>1 DEF TakeCutoff, LastTick
  <2>. QED  BY <1>3, <2>2, <2>3 DEF TakeCutoff, LoopInv
<1>4. CASE Sweep
  BY <1>4, LoopSweep
<1>5. CASE Tick
  <2>1. Seen'
    BY <1>5 DEF Tick, LoopInv, Seen
  <2>2. CASE (now + 1) % Ttl = 0
    BY <1>5, <2>1, <2>2 DEF Tick, LoopInv
  <2>3. CASE (now + 1) % Ttl # 0
    <3>1. LastTick(now + 1) = LastTick(now)
      BY <1>0, <2>3, LastTickStays
    <3>2. LastTick(now)' = LastTick(now + 1)
      BY <1>5 DEF Tick, LastTick
    <3>3. LastTick(now)' = LastTick(now)
      BY <3>1, <3>2
    <3>4. due' = due /\ UNCHANGED <<buckets, sweeping, cutoff>>
      BY <1>5, <2>3, Zenon DEF Tick, IInv, TypeOK
    <3>5. Longest' = Longest
      BY DEF Longest, Full
    <3>6. Fresh(DOMAIN buckets) => Fresh(DOMAIN buckets)'
      BY <3>3, <3>4, <3>5 DEF Fresh
    <3>. QED  BY <2>1, <3>3, <3>4, <3>6 DEF LoopInv
  <2>. QED  BY <2>2, <2>3
<1>6. CASE OpenWindow \/ UNCHANGED vars
  BY <1>6 DEF OpenWindow, vars, loop_vars, LoopInv, Seen, Fresh, LastTick, Longest, Full
<1>. QED  BY <1>1, <1>2, <1>3, <1>4, <1>5, <1>6 DEF Next, Allow

(* The map forgets the keys that stopped asking: with the last tick dealt  *)
(* with, no bucket is older than a ttl and the longer of ttl and refill.   *)
THEOREM MapForgets == Spec => []IdleBucketsGoAway
<1>1. IInv /\ LoopInv => IdleBucketsGoAway
  <2>. SUFFICES ASSUME IInv, LoopInv, ~due, ~sweeping, NEW k \in DOMAIN buckets
                PROVE  now - buckets[k].lastSeen <= Longest + Ttl
    BY DEF IdleBucketsGoAway
  <2>1. now \in Nat /\ buckets[k].lastSeen \in Nat
    BY LimiterAssumption DEF IInv, TypeOK, Bucket
  <2>2. buckets[k].lastSeen >= LastTick(now) - Longest
    BY DEF LoopInv, Fresh
  <2>. QED  BY <2>1, <2>2, LastTickType, LongestType, LimiterAssumption
<1>. QED  BY <1>1, IInvInit, IInvNext, LoopInit, LoopNext, PTL DEF Spec

=============================================================================
