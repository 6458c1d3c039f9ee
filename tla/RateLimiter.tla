---------------------------- MODULE RateLimiter ----------------------------
(***************************************************************************)
(* ratelimit.Limiter (app/internal/ratelimit/ratelimit.go): a map of token *)
(* buckets, one per subject, created on the first request and evicted by a *)
(* background loop.  Each bucket is a rate.Limiter of golang.org/x/time,   *)
(* which stores credit lazily: the amount at the last admitted request and *)
(* the time of it.                                                         *)
(*                                                                         *)
(* Time is counted in ticks; credit in ticks too, Cost ticks a request.    *)
(* MaxTime bounds the clock.                                               *)
(***************************************************************************)
EXTENDS Integers

CONSTANTS Keys, Burst, Cost, Ttl, MaxTime

ASSUME LimiterAssumption ==
  /\ Burst \in Nat \ {0} /\ Cost \in Nat \ {0}
  /\ Ttl \in Nat \ {0}
  /\ MaxTime \in Nat

VARIABLES
  now,
  buckets,   \* l.buckets: [tokens, last] is the limiter, lastSeen beside it
  due,       \* the one-slot channel of time.Tick(l.ttl) holds a tick
  sweeping,  \* evictLoop has its cutoff and waits for the mutex
  cutoff,
  reply,     \* the last decision: [key, allowed]
  spent, age \* history: credit spent per key since some moment, and since when

loop_vars == <<due, sweeping, cutoff>>
vars == <<now, buckets, loop_vars, reply, spent, age>>

Full == Burst * Cost

Bucket == [tokens : 0..Full, last : 0..MaxTime, lastSeen : 0..MaxTime]

NoReply == [key |-> "none", allowed |-> FALSE]

Init ==
  /\ now = 0
  /\ buckets = [k \in {} |-> 0]
  /\ due = FALSE /\ sweeping = FALSE /\ cutoff = 0
  /\ reply = NoReply
  /\ spent = [k \in Keys |-> 0] /\ age = 0

-----------------------------------------------------------------------------
(* Mutant: credit keeps growing past the burst while nobody asks.          *)
Tokens_Uncapped(b) == b.tokens + (now - b.last)

(* rate.NewLimiter(l.rate, l.burst)                                        *)
NewBucket == [tokens |-> Full, last |-> now, lastSeen |-> now]

(* rate.Limiter.Tokens: what the stored credit has grown to by now.        *)
Tokens(b) ==
  LET grown == b.tokens + (now - b.last)
  IN  IF grown < Full THEN grown ELSE Full

Known(k) == k \in DOMAIN buckets

Get(k) == IF Known(k) THEN buckets[k] ELSE NewBucket

Put(k, b) ==
  buckets' = [j \in DOMAIN buckets \cup {k} |-> IF j = k THEN b ELSE buckets[j]]

(* Mutant: a request that finds credit leaves it as it was.                *)
Admit_KeepsCredit(k) ==
  /\ Tokens(Get(k)) >= Cost
  /\ Put(k, [tokens |-> Tokens(Get(k)), last |-> now, lastSeen |-> now])
  /\ reply' = [key |-> k, allowed |-> TRUE]
  /\ spent' = [spent EXCEPT ![k] = @ + Cost]
  /\ UNCHANGED <<now, loop_vars, age>>

(* Limiter.Allow, under the mutex.  A refused request leaves the limiter   *)
(* as it was, but counts as a sighting all the same.                       *)
Admit(k) ==
  /\ Tokens(Get(k)) >= Cost
  /\ Put(k, [tokens |-> Tokens(Get(k)) - Cost, last |-> now, lastSeen |-> now])
  /\ reply' = [key |-> k, allowed |-> TRUE]
  /\ spent' = [spent EXCEPT ![k] = @ + Cost]
  /\ UNCHANGED <<now, loop_vars, age>>

Reject(k) ==
  /\ Tokens(Get(k)) < Cost
  /\ Put(k, [Get(k) EXCEPT !.lastSeen = now])
  /\ reply' = [key |-> k, allowed |-> FALSE]
  /\ UNCHANGED <<now, loop_vars, spent, age>>

Allow(k) == Admit(k) \/ Reject(k)

-----------------------------------------------------------------------------
(* evictLoop.  The cutoff is taken before the mutex; requests may get in   *)
(* between, and time may pass.                                             *)
TakeCutoff ==
  /\ due /\ ~sweeping
  /\ due' = FALSE /\ sweeping' = TRUE /\ cutoff' = now - Ttl
  /\ UNCHANGED <<now, buckets, reply, spent, age>>

(* Mutant: an idle bucket goes whether or not it has filled up again.      *)
Evictable_WhenIdle(b) == b.lastSeen < cutoff

(* Mutant: the stored credit is compared, which does not grow by itself.   *)
Evictable_StoredTokens(b) == b.lastSeen < cutoff /\ b.tokens >= Full

Evictable(b) == b.lastSeen < cutoff /\ Tokens(b) >= Full

Sweep ==
  /\ sweeping
  /\ sweeping' = FALSE
  /\ buckets' = [k \in {j \in DOMAIN buckets : ~Evictable(buckets[j])} |-> buckets[k]]
  /\ UNCHANGED <<now, due, cutoff, reply, spent, age>>

(* Time.  The ticker keeps one tick for a loop that is late.               *)
Tick ==
  /\ now < MaxTime
  /\ now' = now + 1
  /\ due' = (due \/ (now + 1) % Ttl = 0)
  /\ age' = age + 1
  /\ UNCHANGED <<buckets, sweeping, cutoff, reply, spent>>

(* History only: watch another window of time.                             *)
OpenWindow ==
  /\ spent' = [k \in Keys |-> 0] /\ age' = 0
  /\ UNCHANGED <<now, buckets, loop_vars, reply>>

Next ==
  \/ \E k \in Keys : Allow(k)
  \/ TakeCutoff \/ Sweep
  \/ Tick
  \/ OpenWindow

Spec == Init /\ [][Next]_vars

-----------------------------------------------------------------------------
TypeOK ==
  /\ now \in 0..MaxTime
  /\ DOMAIN buckets \subseteq Keys
  /\ \A k \in DOMAIN buckets : buckets[k] \in Bucket
  /\ due \in BOOLEAN /\ sweeping \in BOOLEAN
  /\ cutoff \in Int
  /\ reply = NoReply \/ reply \in [key : Keys, allowed : BOOLEAN]
  /\ spent \in [Keys -> Nat] /\ age \in Nat

(* The rate the package promises, over every window of time: a key spends  *)
(* at most the burst and what was refilled meanwhile, and what it has left *)
(* counts against that.  Evicting its bucket gives nothing back            *)
(* (ratelimit.go:77), though the bucket it gets next is full.              *)
Level(k) == Tokens(Get(k))

RateBound == \A k \in Keys : spent[k] + Level(k) <= Full + age

(* The map does not grow with every key ever seen (ratelimit.go:47): once  *)
(* the loop has dealt with the last tick, no bucket is left that had the   *)
(* ttl and the time to refill behind it when that tick came.               *)
Longest == IF Ttl < Full THEN Full ELSE Ttl

IdleBucketsGoAway ==
  ~due /\ ~sweeping =>
    \A k \in DOMAIN buckets : now - buckets[k].lastSeen <= Longest + Ttl

(* Limiter behaves as one bucket per key that is never evicted: every      *)
(* request gets the answer it would have got without evictLoop.            *)
Unevicted == INSTANCE TokenBucket WITH level <- [k \in Keys |-> Level(k)]

ImplementsTokenBucket == Unevicted!Spec

=============================================================================
