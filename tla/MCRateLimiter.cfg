CONSTANTS
  alice = alice
  bob = bob
  Keys <- MCKeys
  Burst = 2
  Cost = 2
  Ttl = 2
  MaxTime = 7
SYMMETRY Symmetry
SPECIFICATION Spec
INVARIANTS TypeOK RateBound IdleBucketsGoAway
PROPERTIES ImplementsTokenBucket
