----------------------------- MODULE MCListings -----------------------------
EXTENDS Listings, TLC

CONSTANTS r1, r2, r3

MCRows   == {r1, r2, r3}
Symmetry == Permutations(MCRows)

=============================================================================
