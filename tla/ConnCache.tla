----------------------------- MODULE ConnCache ------------------------------
(***************************************************************************)
(* The connection cache of internal/transport/client.go.  Pulls of the     *)
(* engine's goroutines share one gRPC connection per address; conn() looks *)
(* at its state under the client's mutex and replaces it when it looks     *)
(* broken.  The mutex guards the map, not the connections: gRPC changes    *)
(* their state at any moment, also between conn()'s look and its Close,    *)
(* and a replaced connection may be in use by another pull.                *)
(***************************************************************************)
EXTENDS Naturals, FiniteSets

CONSTANTS
  Addr,       \* sync addresses
  Caller,     \* goroutines that pull
  PeerOf,     \* PeerOf[c]: the address caller c pulls from, round after round
  Conn,       \* connections that may be made
  None,       \* no connection
  MaxOutages  \* bound: how often servers go away

ConnCacheAssumption ==
  /\ PeerOf \in [Caller -> Addr]
  /\ None \notin Conn /\ None \notin Caller
  /\ MaxOutages \in Nat

VARIABLES
  conns,     \* the map: address to connection
  lock,      \* who holds the mutex
  state,     \* gRPC's state of every connection
  target,    \* the address a connection dials
  pull,      \* where each caller's Pull stands
  up,        \* the servers that answer
  outages,   \* how often a server went away
  closed     \* the daemon has called Close

cacheVars == <<conns, lock, state, target, pull, up, outages, closed>>

NoPull == [pc |-> "idle", conn |-> None]
States == {"idle", "connecting", "ready", "failure", "shutdown"}
Broken(cc) == state[cc] \in {"failure", "shutdown"}
Used(cc) == \E c \in Caller : pull[c].pc = "rpc" /\ pull[c].conn = cc

\* A connection nobody knows any more is as good as one not made yet.
Fresh(cc) == state[cc] = "shutdown" /\ ~Used(cc) /\ \A a \in Addr : conns[a] # cc

TypeOK ==
  /\ conns \in [Addr -> Conn \cup {None}]
  /\ lock \in Caller \cup {None}
  /\ state \in [Conn -> States]
  /\ target \in [Conn -> Addr \cup {None}]
  /\ pull \in [Caller -> [pc : {"idle", "look", "replace", "rpc", "ok", "failed"},
                          conn : Conn \cup {None}]]
  /\ up \subseteq Addr
  /\ outages \in Nat
  /\ closed \in BOOLEAN

CacheInit ==
  /\ conns = [a \in Addr |-> None]
  /\ lock = None
  /\ state = [cc \in Conn |-> "shutdown"]
  /\ target = [cc \in Conn |-> None]
  /\ pull = [c \in Caller |-> NoPull]
  /\ up \in SUBSET Addr
  /\ outages = 0
  /\ closed = FALSE

-----------------------------------------------------------------------------
(* Pull: conn() under the mutex, then the call with its timeout. *)

Lock(c) ==
  /\ pull[c].pc \in {"idle", "ok", "failed"} /\ lock = None
  /\ lock' = c
  /\ pull' = [pull EXCEPT ![c] = [pc |-> "look", conn |-> None]]
  /\ UNCHANGED <<conns, state, target, up, outages, closed>>

Call(c, cc) == pull' = [pull EXCEPT ![c] = [pc |-> "rpc", conn |-> cc]]

\* GetState, and the decision: use the connection, or go on to replace it.
Look(c) ==
  LET cc == conns[PeerOf[c]] IN
  /\ pull[c].pc = "look"
  /\ IF cc # None /\ ~Broken(cc)
     THEN Call(c, cc) /\ lock' = None
     ELSE pull' = [pull EXCEPT ![c] = [pc |-> "replace", conn |-> cc]] /\ UNCHANGED lock
  /\ UNCHANGED <<conns, state, target, up, outages, closed>>

Shut(cc) == IF cc = None THEN state ELSE [state EXCEPT ![cc] = "shutdown"]

\* Close and delete what is there, and a new connection, which dials only
\* when it is first used.
Replace(c) ==
  LET a == PeerOf[c] IN
  /\ pull[c].pc = "replace"
  /\ \E new \in Conn :
       /\ Fresh(new)
       /\ state' = [Shut(pull[c].conn) EXCEPT ![new] = "idle"]
       /\ target' = [target EXCEPT ![new] = a]
       /\ conns' = [conns EXCEPT ![a] = new]
       /\ Call(c, new)
  /\ lock' = None
  /\ UNCHANGED <<up, outages, closed>>

\* NewClient refuses the address: the old connection is gone all the same.
ReplaceFails(c) ==
  LET a == PeerOf[c] IN
  /\ pull[c].pc = "replace"
  /\ state' = Shut(pull[c].conn)
  /\ conns' = [conns EXCEPT ![a] = None]
  /\ pull' = [pull EXCEPT ![c] = [pc |-> "failed", conn |-> None]]
  /\ lock' = None
  /\ UNCHANGED <<target, up, outages, closed>>

Answered(c) ==
  /\ pull[c].pc = "rpc" /\ state[pull[c].conn] = "ready" /\ PeerOf[c] \in up
  /\ pull' = [pull EXCEPT ![c] = [pc |-> "ok", conn |-> None]]
  /\ UNCHANGED <<conns, lock, state, target, up, outages, closed>>

\* A call on a broken connection fails at once, any call when its time is up.
PullFails(c) ==
  /\ pull[c].pc = "rpc"
  /\ pull' = [pull EXCEPT ![c] = [pc |-> "failed", conn |-> None]]
  /\ UNCHANGED <<conns, lock, state, target, up, outages, closed>>

\* Client.Close, when the daemon stops; pulls that are still under way go on.
Close ==
  /\ lock = None /\ ~closed
  /\ closed' = TRUE
  /\ state' = [cc \in Conn |-> IF \E a \in Addr : conns[a] = cc THEN "shutdown" ELSE state[cc]]
  /\ conns' = [a \in Addr |-> None]
  /\ UNCHANGED <<lock, target, pull, up, outages>>

-----------------------------------------------------------------------------
(* gRPC: an idle connection dials when a call uses it; a dial succeeds or    *)
(* fails with the server; a failed one is tried again; a lost one is idle.   *)

Goes(cc, from, to) == state[cc] = from /\ state' = [state EXCEPT ![cc] = to]

Transport(cc) ==
  /\ \/ Used(cc) /\ Goes(cc, "idle", "connecting")
     \/ target[cc] \in up /\ Goes(cc, "connecting", "ready")
     \/ target[cc] \notin up /\ Goes(cc, "connecting", "failure")
     \/ Goes(cc, "failure", "connecting")
     \/ target[cc] \notin up /\ Goes(cc, "ready", "idle")
  /\ UNCHANGED <<conns, lock, target, pull, up, outages, closed>>

ServerDown(a) ==
  /\ a \in up /\ outages < MaxOutages
  /\ up' = up \ {a}
  /\ outages' = outages + 1
  /\ UNCHANGED <<conns, lock, state, target, pull, closed>>

ServerUp(a) ==
  /\ a \notin up
  /\ up' = up \cup {a}
  /\ UNCHANGED <<conns, lock, state, target, pull, outages, closed>>

ConnStep(c) == Look(c) \/ Replace(c)

CacheNext == \/ \E c \in Caller : Lock(c) \/ ConnStep(c) \/ ReplaceFails(c) \/ Answered(c) \/ PullFails(c)
        \/ \E cc \in Conn : Transport(cc)
        \/ \E a \in Addr : ServerDown(a) \/ ServerUp(a)
        \/ Close

CacheSpec == CacheInit /\ [][CacheNext]_cacheVars

(* The engine pulls round after round; Go's mutex and scheduler starve       *)
(* nobody; gRPC goes on dialling while it is used; and a server that answers *)
(* does not miss every deadline.  Failures, timeouts and outages are free.   *)
CacheFairness ==
  /\ \A c \in Caller : SF_cacheVars(Lock(c)) /\ WF_cacheVars(Look(c)) /\ SF_cacheVars(Replace(c)) /\ SF_cacheVars(Answered(c))
  /\ \A c \in Caller : WF_cacheVars(PullFails(c))
  /\ \A cc \in Conn : SF_cacheVars(Transport(cc))

CacheFairSpec == CacheSpec /\ CacheFairness

-----------------------------------------------------------------------------
\* No connection is lost: one that conn() made and nobody closed is in the map
\* under the address it dials, so the next pull reuses it and Close reaches
\* it, whatever gRPC does to it between conn()'s look and its decision, and
\* however many pulls find the same connection broken.
NoConnectionLost ==
  \A cc \in Conn : state[cc] # "shutdown" => target[cc] \in Addr /\ conns[target[cc]] = cc

\* A closed or broken connection is no dead end: when its server stays up, the
\* pulls from it succeed again and again, although another pull may close the
\* connection under a call that is using it.
PullsRecover ==
  [](~closed) => \A c \in Caller : <>[](PeerOf[c] \in up) => []<>(pull[c].pc = "ok")
=============================================================================
