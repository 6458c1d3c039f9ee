---------------------------- MODULE TokenBucket ----------------------------
(***************************************************************************)
(* What ratelimit.Limiter promises each identity: one bucket that holds at *)
(* most Burst requests' worth of credit, starts full, refills for ever at  *)
(* one request per Cost ticks and is never reset.  There is no map, no     *)
(* eviction and no clock arithmetic here; RateLimiter implements this.     *)
(*                                                                         *)
(* Credit is counted in ticks: a request costs Cost of them.               *)
(***************************************************************************)
EXTENDS Integers

CONSTANTS Keys, Burst, Cost

VARIABLES
  level,     \* credit of each key
  reply,     \* the last decision: [key, allowed]
  spent,     \* credit each key has spent in the window being watched
  age        \* how long that window has been open

vars == <<level, reply, spent, age>>

Full == Burst * Cost

NoReply == [key |-> "none", allowed |-> FALSE]

Init ==
  /\ level = [k \in Keys |-> Full]
  /\ reply = NoReply
  /\ spent = [k \in Keys |-> 0]
  /\ age = 0

Admit(k) ==
  /\ level[k] >= Cost
  /\ level' = [level EXCEPT ![k] = @ - Cost]
  /\ spent' = [spent EXCEPT ![k] = @ + Cost]
  /\ reply' = [key |-> k, allowed |-> TRUE]
  /\ UNCHANGED age

Reject(k) ==
  /\ level[k] < Cost
  /\ reply' = [key |-> k, allowed |-> FALSE]
  /\ UNCHANGED <<level, spent, age>>

Tick ==
  /\ level' = [k \in Keys |-> IF level[k] < Full THEN level[k] + 1 ELSE Full]
  /\ age' = age + 1
  /\ UNCHANGED <<reply, spent>>

(* Start watching another window of time.                                  *)
OpenWindow ==
  /\ spent' = [k \in Keys |-> 0]
  /\ age' = 0
  /\ UNCHANGED <<level, reply>>

Next == (\E k \in Keys : Admit(k) \/ Reject(k)) \/ Tick \/ OpenWindow

Spec == Init /\ [][Next]_vars

=============================================================================
