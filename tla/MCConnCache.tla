---------------------------- MODULE MCConnCache -----------------------------
EXTENDS ConnCache

CONSTANTS a1, g1, g2, c1, c2, c3

TwoPullersOfOne == [c \in {g1, g2} |-> a1]
=============================================================================
