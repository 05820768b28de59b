--------------------------- MODULE MCReplication ---------------------------
(***************************************************************************)
(* Small instances of Replication.  Node ids sort as their letters do.     *)
(***************************************************************************)
EXTENDS Replication, FiniteSetsExt

NodeRank == [a |-> 1, b |-> 2, c |-> 3]

\* "api/x" sorts by x; of two epochs of one agent, random strings, the later
\* one may well sort below the earlier.
MCOwnerAbove(o, p) == \/ NodeRank[o.node] > NodeRank[p.node]
                      \/ o.node = p.node /\ o.epoch < p.epoch

\* A checksum without collisions: one bit per <<key, hlc>>.
MCRowChecksum(S) ==
  MapThenSumSet(LAMBDA v : 2^((NodeRank[v[1]] - 1) * 9 + v[2].ts * 3 + v[2].seq), S)
MCEventChecksum(S) ==
  MapThenSumSet(LAMBDA v : 2^((NodeRank[v[1]] - 1) * 3 + v[2] - 1), S)

\* Who pulls from whom.
MutualPeers == [n \in Node |-> Node \ {n}]
RingPeers   == [a |-> {"b"}, b |-> {"c"}, c |-> {"a"}]
OneWayPeers == [n \in Node |-> IF n = "b" THEN {"a"} ELSE {}]

\* Wall-clock readings.  A node without readings never takes a timestamp: it
\* only pulls and serves.
FrozenWall  == [n \in Node |-> IF n = "a" THEN {1} ELSE {}]
OneTickWall == [n \in Node |-> {1}]
UnevenWall  == [n \in Node |-> IF n = "a" THEN {1, 2} ELSE {1}]
WriterWall  == [n \in Node |-> IF n = "a" THEN {1, 2, 3} ELSE {}]
SkewedWall  == [a |-> {}, b |-> {2}, c |-> {1}]

\* Membership events.
Leaves     == {<<"leave", n>> : n \in Node}
AllReports == {<<"leave", "b">>, <<"join", "b">>, <<"update", "b">>}
=============================================================================
