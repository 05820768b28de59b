--------------------------- MODULE MCMembership -----------------------------
EXTENDS Membership

CONSTANTS n1, n2

\* Never behind the subject, whose heartbeats are at most 2.
FastWall == [n \in {n1, n2} |-> {3}]
=============================================================================
