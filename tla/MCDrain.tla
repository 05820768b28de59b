------------------------------ MODULE MCDrain -------------------------------
EXTENDS Drain

\* One load on each side of every limit.
Loads == { [cpu |-> 89, mem |-> 89, disk |-> 2000], [cpu |-> 90, mem |-> 89, disk |-> 2000],
           [cpu |-> 89, mem |-> 90, disk |-> 2000], [cpu |-> 89, mem |-> 89, disk |-> 1999] }
=============================================================================
