--------------------------- MODULE MCRateLimiter ---------------------------
EXTENDS RateLimiter, TLC

CONSTANTS alice, bob
MCKeys   == {alice, bob}
Symmetry == Permutations(Keys)

=============================================================================
