----------------------------- MODULE Broadcast ------------------------------
(***************************************************************************)
(* What the event log promises, without stores, clocks, watermarks, pulls  *)
(* or crashes: a node numbers its own events 1, 2, 3, ... and every node   *)
(* gathers events that some node knows, and forgets none.                  *)
(***************************************************************************)
EXTENDS Naturals

CONSTANT Node
VARIABLE known      \* known[n]: the events node n has in its log

Numbers(n) == {e.seq : e \in {f \in known[n] : f.runner = n}}

Init == known = [n \in Node |-> {}]

\* Node n adds one event of its own, with the number after its last.
Emit(n) ==
  \E e \in known'[n] :
    /\ e.runner = n /\ e.seq \in Nat \ {0}
    /\ Numbers(n) = 1..(e.seq - 1)
    /\ known' = [known EXCEPT ![n] = @ \cup {e}]

\* Node n learns any number of events, each known to somebody.
Learn(n) ==
  /\ known[n] \subseteq known'[n]
  /\ \A e \in known'[n] : \E p \in Node : e \in known[p]
  /\ known' = [known EXCEPT ![n] = known'[n]]

Next == \E n \in Node : Emit(n) \/ Learn(n)

Spec == Init /\ [][Next]_known
=============================================================================
