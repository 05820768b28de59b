-------------------------- MODULE ComponentProofs ---------------------------
(***************************************************************************)
(* The safety properties of four components that share no state: the       *)
(* client's connection cache, the agent's drain decision, the CLI's        *)
(* certificate files and the burial of a dead node's row, each for every   *)
(* value of its constants.                                                 *)
(***************************************************************************)
EXTENDS ConnCache, Drain, Certs, Membership, TLAPS

-----------------------------------------------------------------------------
(* The client's map loses no connection, for every number of addresses,    *)
(* pulls, connections and outages.                                         *)

\* Between its look and its decision a pull holds the mutex, and the map still
\* holds the connection it looked at.
MutexInv ==
  \A c \in Caller :
    /\ pull[c].pc \in {"look", "replace"} => lock = c
    /\ pull[c].pc = "replace" => pull[c].conn = conns[PeerOf[c]]

\* A connection is in the map under no address but the one it dials.
MapInv == \A a \in Addr : conns[a] # None => target[conns[a]] = a

ConnInv == TypeOK /\ MutexInv /\ MapInv /\ NoConnectionLost

\* A new client: the map is empty and no connection is open.
LEMMA ConnInit ==
  ASSUME ConnCacheAssumption
  PROVE  CacheInit => ConnInv
<1> SUFFICES ASSUME CacheInit PROVE ConnInv
  BY Zenon
<1>1. TypeOK
  BY Zenon DEF ConnCacheAssumption, CacheInit, TypeOK, States, NoPull
<1>2. MutexInv
  BY Zenon DEF CacheInit, MutexInv, NoPull
<1>3. MapInv /\ NoConnectionLost
  BY Zenon DEF CacheInit, MapInv, NoConnectionLost
<1> QED
  BY <1>1, <1>2, <1>3 DEF ConnInv

\* conn() with the mutex: it closes what the map holds and puts the new
\* connection in its place.
LEMMA ReplaceKeeps ==
  ASSUME ConnCacheAssumption, ConnInv, NEW c \in Caller, Replace(c)
  PROVE  ConnInv'
<1> USE DEF ConnCacheAssumption
<1> DEFINE a == PeerOf[c]
<1>1. PICK new \in Conn : /\ Fresh(new)
                          /\ state' = [Shut(pull[c].conn) EXCEPT ![new] = "idle"]
                          /\ target' = [target EXCEPT ![new] = a]
                          /\ conns' = [conns EXCEPT ![a] = new]
                          /\ Call(c, new)
  BY Zenon DEF Replace
<1>2. pull[c].pc = "replace" /\ pull[c].conn = conns[a] /\ lock = c /\ a \in Addr
  BY Zenon DEF Replace, ConnInv, MutexInv
<1>3. TypeOK'
  BY Zenon, <1>1, <1>2 DEF ConnInv, TypeOK, Replace, Shut, Call, States
<1>4. MutexInv'
  BY <1>1, <1>2, <1>3 DEF ConnInv, TypeOK, MutexInv, Replace, Call
<1>5. MapInv'
  BY Zenon, <1>1, <1>2, <1>3 DEF ConnInv, TypeOK, MapInv, Fresh
<1>6. NoConnectionLost'
  BY <1>1, <1>2, <1>3 DEF ConnInv, TypeOK, NoConnectionLost, MapInv, Fresh, Shut
<1> QED
  BY Zenon, <1>3, <1>4, <1>5, <1>6 DEF ConnInv

\* NewClient refuses: the broken connection leaves the map as it is closed.
LEMMA ReplaceFailsKeeps ==
  ASSUME ConnCacheAssumption, ConnInv, NEW c \in Caller, ReplaceFails(c)
  PROVE  ConnInv'
<1> USE DEF ConnCacheAssumption
<1>2. pull[c].pc = "replace" /\ pull[c].conn = conns[PeerOf[c]] /\ lock = c /\ PeerOf[c] \in Addr
  BY Zenon DEF ReplaceFails, ConnInv, MutexInv
<1>3. TypeOK'
  BY Zenon, <1>2 DEF ConnInv, TypeOK, ReplaceFails, Shut, States
<1>4. MutexInv'
  BY <1>2, <1>3 DEF ConnInv, TypeOK, MutexInv, ReplaceFails
<1>5. MapInv'
  BY Zenon, <1>2, <1>3 DEF ConnInv, TypeOK, MapInv, ReplaceFails
<1>6. NoConnectionLost'
  BY <1>2, <1>3 DEF ConnInv, TypeOK, NoConnectionLost, MapInv, Shut, ReplaceFails
<1> QED
  BY Zenon, <1>3, <1>4, <1>5, <1>6 DEF ConnInv

\* The steps that leave the map alone and change no connection's state.
LEMMA PullKeeps ==
  ASSUME ConnCacheAssumption, ConnInv, NEW c \in Caller, Lock(c) \/ Look(c) \/ Answered(c) \/ PullFails(c)
  PROVE  ConnInv'
<1> USE DEF ConnCacheAssumption
<1>1. UNCHANGED <<conns, state, target, up, outages, closed>>
  BY Zenon DEF Lock, Look, Answered, PullFails
<1>2. TypeOK'
  BY <1>1 DEF ConnInv, TypeOK, Lock, Look, Answered, PullFails, Call
<1>3. MutexInv'
  <2>1. CASE Lock(c)
    BY Zenon, <2>1, <1>1, <1>2 DEF ConnInv, TypeOK, MutexInv, Lock
  <2>2. CASE Look(c)
    BY <2>2, <1>1, <1>2 DEF ConnInv, TypeOK, MutexInv, Look, Call
  <2>3. CASE Answered(c) \/ PullFails(c)
    BY <2>3, <1>1, <1>2 DEF ConnInv, TypeOK, MutexInv, Answered, PullFails
  <2> QED
    BY Zenon, <2>1, <2>2, <2>3
<1> QED
  BY Zenon, <1>1, <1>2, <1>3 DEF ConnInv, MapInv, NoConnectionLost

\* Close empties the map and shuts all that was in it.
LEMMA CloseKeeps ==
  ASSUME ConnCacheAssumption
  PROVE  ConnInv /\ Close => ConnInv'
<1> SUFFICES ASSUME ConnInv, Close PROVE ConnInv'
  BY Zenon
<1> USE DEF ConnCacheAssumption
<1>1. TypeOK'
  BY Zenon DEF ConnInv, TypeOK, Close, States
<1>2. MutexInv'
  BY Zenon, <1>1 DEF ConnInv, TypeOK, MutexInv, Close
<1>3. MapInv' /\ NoConnectionLost'
  BY Zenon, <1>1 DEF ConnInv, TypeOK, MapInv, NoConnectionLost, Close
<1> QED
  BY Zenon, <1>1, <1>2, <1>3 DEF ConnInv

\* gRPC moves a connection from state to state and never opens a closed one.
LEMMA TransportKeeps ==
  ASSUME ConnCacheAssumption, ConnInv, NEW cc \in Conn, Transport(cc)
  PROVE  ConnInv'
<1> USE DEF ConnCacheAssumption
<1>1. /\ UNCHANGED <<conns, lock, target, pull, up, outages, closed>>
      /\ \E s \in States \ {"shutdown"} : state' = [state EXCEPT ![cc] = s]
      /\ state[cc] # "shutdown"
  BY Zenon DEF Transport, Goes, States
<1>2. TypeOK'
  BY <1>1 DEF ConnInv, TypeOK
<1>3. NoConnectionLost'
  BY Zenon, <1>1, <1>2 DEF ConnInv, TypeOK, NoConnectionLost
<1> QED
  BY Zenon, <1>1, <1>2, <1>3 DEF ConnInv, MutexInv, MapInv

\* A server that goes or comes touches nothing of the client.
LEMMA ServerKeeps ==
  ASSUME ConnCacheAssumption, ConnInv, NEW a \in Addr, ServerDown(a) \/ ServerUp(a)
  PROVE  ConnInv'
<1>1. TypeOK'
  BY DEF ConnInv, TypeOK, ServerDown, ServerUp
<1> QED
  BY Zenon, <1>1 DEF ConnInv, MutexInv, MapInv, NoConnectionLost, ServerDown, ServerUp

\* No connection is lost, whatever the number of peers and of rounds that pull
\* at once: because conn() keeps the mutex from its look at a connection to
\* the moment the map holds another.
THEOREM NoConnectionIsLost ==
  ASSUME ConnCacheAssumption
  PROVE  CacheSpec => []NoConnectionLost
<1>1. ConnInv /\ [CacheNext]_cacheVars => ConnInv'
  <2> SUFFICES ASSUME ConnInv, [CacheNext]_cacheVars PROVE ConnInv'
    BY Zenon
  <2>1. CASE \E c \in Caller : Lock(c) \/ ConnStep(c) \/ ReplaceFails(c) \/ Answered(c) \/ PullFails(c)
    BY Zenon, <2>1, PullKeeps, ReplaceKeeps, ReplaceFailsKeeps DEF ConnStep
  <2>2. CASE \E cc \in Conn : Transport(cc)
    BY <2>2, TransportKeeps
  <2>3. CASE \E a \in Addr : ServerDown(a) \/ ServerUp(a)
    BY Zenon, <2>3, ServerKeeps
  <2>4. CASE Close
    BY <2>4, CloseKeeps
  <2>5. CASE UNCHANGED cacheVars
    BY Zenon, <2>5 DEF cacheVars, ConnInv, TypeOK, MutexInv, MapInv, NoConnectionLost
  <2> QED
    BY Zenon, <2>1, <2>2, <2>3, <2>4, <2>5 DEF CacheNext
<1> QED
  BY <1>1, ConnInit, PTL DEF CacheSpec, ConnInv

-----------------------------------------------------------------------------
(* The agent drains after a full run of hot readings and comes back after  *)
(* a full run of normal ones, for every threshold, load and set of broken  *)
(* sensors.                                                                *)

DrainType ==
  /\ high \in Nat /\ normal \in Nat /\ draining \in BOOLEAN
  /\ past \in Seq(BOOLEAN) /\ Len(past) <= Threshold
  /\ restarts \in Nat

\* c counts the readings v at the end of the ticks t, all of them.
Counts(c, t, v) ==
  /\ c \in 0..Len(t)
  /\ \A i \in 1..Len(t) : i > Len(t) - c => t[i] = v
  /\ c < Len(t) => t[Len(t) - c] # v

\* The counters are the lengths of the runs the history ends with, and a full
\* run has been acted on.
DrainInv ==
  /\ DrainType
  /\ Counts(high, past, TRUE) /\ Counts(normal, past, FALSE)
  /\ \A hot \in BOOLEAN : Run(past, hot) => draining = hot

\* The history of a tick: its reading at the end, the older ones before it.
Kept(t, r) == LET u == Append(t, r) IN IF Len(u) > Threshold THEN Tail(u) ELSE u

KeptLen(t) == IF Len(t) < Threshold THEN Len(t) + 1 ELSE Threshold

\* Up to the threshold a history grows; from there on it forgets its oldest tick.
LEMMA KeptFacts ==
  ASSUME DrainAssumption, NEW t \in Seq(BOOLEAN), Len(t) <= Threshold, NEW r \in BOOLEAN
  PROVE  /\ Kept(t, r) \in Seq(BOOLEAN)
         /\ Len(Kept(t, r)) = KeptLen(t)
         /\ KeptLen(t) \in Nat \ {0} /\ KeptLen(t) <= Threshold
         /\ Kept(t, r)[KeptLen(t)] = r
         /\ \A i \in 1..KeptLen(t) - 1 : Kept(t, r)[i] = t[i + Len(t) + 1 - KeptLen(t)]
<1> DEFINE u == Append(t, r)
<1>0. Len(t) \in Nat /\ Threshold \in Nat \ {0}
  BY DEF DrainAssumption
<1>1. u \in Seq(BOOLEAN) /\ Len(u) = Len(t) + 1 /\ u[Len(t) + 1] = r /\ \A i \in 1..Len(t) : u[i] = t[i]
  OBVIOUS
<1>2. CASE Len(t) < Threshold
  <2>1. Kept(t, r) = u /\ KeptLen(t) = Len(t) + 1
    BY <1>0, <1>1, <1>2 DEF Kept, KeptLen
  <2> QED
    BY <1>0, <1>1, <1>2, <2>1
<1>3. CASE Len(t) = Threshold
  <2>1. Kept(t, r) = Tail(u) /\ KeptLen(t) = Threshold
    BY <1>0, <1>1, <1>3 DEF Kept, KeptLen
  <2>2. Tail(u) \in Seq(BOOLEAN) /\ Len(Tail(u)) = Threshold /\ \A i \in 1..Threshold : Tail(u)[i] = u[i + 1]
    BY <1>0, <1>1, <1>3
  <2> QED
    BY <1>0, <1>1, <1>3, <2>1, <2>2
<1> QED
  BY <1>0, <1>2, <1>3

\* A reading that goes on with a run lengthens its count, up to the threshold.
LEMMA CountGoesOn ==
  ASSUME DrainAssumption, NEW t \in Seq(BOOLEAN), Len(t) <= Threshold, NEW r \in BOOLEAN, NEW c \in Nat,
         NEW v \in BOOLEAN, Counts(c, t, v), r = v
  PROVE  Counts(Saturated(c + 1), Kept(t, r), v)
<1> DEFINE k == Kept(t, r)
           n == KeptLen(t)
           s == Saturated(c + 1)
<1>0. Len(t) \in Nat /\ Threshold \in Nat \ {0} /\ c <= Len(t)
  BY DEF DrainAssumption, Counts
<1>1. /\ k \in Seq(BOOLEAN) /\ Len(k) = n /\ k[n] = r
      /\ \A i \in 1..n-1 : k[i] = t[i + Len(t) + 1 - n]
  BY KeptFacts, Zenon
<1>n. n \in Nat \ {0} /\ n <= Threshold
  BY KeptFacts, Zenon
<1>2. \/ n = Len(t) + 1 /\ s = c + 1
      \/ n = Threshold /\ Len(t) = Threshold /\ c < Threshold /\ s = c + 1
      \/ n = Threshold /\ Len(t) = Threshold /\ c = Threshold /\ s = Threshold
  BY <1>0 DEF Saturated, KeptLen
<1> HIDE DEF k, n, s
<1>3. s \in 0..n
  BY <1>0, <1>n, <1>2
<1>4. ASSUME NEW i \in 1..n, i > n - s PROVE k[i] = v
  <2>1. CASE i = n
    BY Zenon, <1>1, <2>1
  <2>2. CASE i < n
    <3>1. i + Len(t) + 1 - n \in 1..Len(t) /\ i + Len(t) + 1 - n > Len(t) - c /\ i \in 1..n-1
      BY <1>0, <1>n, <1>2, <1>4, <2>2
    <3>2. t[i + Len(t) + 1 - n] = v
      BY Zenon, <3>1 DEF Counts
    <3> QED
      BY Zenon, <1>1, <3>1, <3>2
  <2> QED
    BY <1>n, <2>1, <2>2
<1>5. ASSUME s < n PROVE k[n - s] # v
  <2>0. s = c + 1 /\ c < Len(t) /\ n - s \in 1..n-1
    BY <1>0, <1>n, <1>2, <1>5
  <2>1. (n - s) + Len(t) + 1 - n = Len(t) - c
    BY <1>0, <1>n, <2>0
  <2>2. k[n - s] = t[Len(t) - c]
    BY Zenon, <1>1, <2>0, <2>1
  <2> QED
    BY Zenon, <2>0, <2>2 DEF Counts
<1> QED
  BY Zenon, <1>1, <1>3, <1>4, <1>5 DEF Counts, k, s

\* A reading that breaks a run leaves nothing to count.
LEMMA CountEnds ==
  ASSUME DrainAssumption, NEW t \in Seq(BOOLEAN), Len(t) <= Threshold, NEW r \in BOOLEAN,
         NEW v \in BOOLEAN, r # v
  PROVE  Counts(0, Kept(t, r), v)
<1> DEFINE k == Kept(t, r)
<1>1. k \in Seq(BOOLEAN) /\ Len(k) = KeptLen(t) /\ KeptLen(t) \in Nat \ {0} /\ k[KeptLen(t)] = r
  BY KeptFacts
<1> HIDE DEF k
<1>2. Counts(0, k, v)
  BY <1>1 DEF Counts
<1> QED
  BY <1>2 DEF k

\* A count reaches the threshold exactly when the history is a full run.
LEMMA FullRun ==
  ASSUME DrainAssumption, NEW t \in Seq(BOOLEAN), Len(t) <= Threshold, NEW c \in Nat, NEW v \in BOOLEAN, Counts(c, t, v)
  PROVE  c >= Threshold <=> Run(t, v)
<1> USE DEF DrainAssumption
<1>1. ASSUME c >= Threshold PROVE Run(t, v)
  BY <1>1 DEF Counts, Run
<1>2. ASSUME Run(t, v) PROVE c >= Threshold
  <2>1. SUFFICES ASSUME c < Threshold PROVE FALSE
    OBVIOUS
  <2>2. Len(t) - c \in 1..Threshold /\ Len(t) = Threshold
    BY <1>2, <2>1 DEF Run, Counts
  <2> QED
    BY <1>2, <2>1, <2>2 DEF Run, Counts
<1> QED
  BY Zenon, <1>1, <1>2

\* A history is not both a full run of hot readings and one of normal ones.
LEMMA OneRun ==
  ASSUME DrainAssumption, NEW t \in Seq(BOOLEAN), Run(t, TRUE), Run(t, FALSE)
  PROVE  FALSE
BY DEF DrainAssumption, Run

\* What Step and a Step whose Put fails do to the counters and the decision.
LEMMA TickKeeps ==
  ASSUME DrainAssumption, DrainInv, Tick
  PROVE  DrainInv' /\ (draining' # draining => Run(past', draining'))
<1> DEFINE r == Hot(Snapshot)
<1>1. r \in BOOLEAN
  BY DEF Hot
<1>2. past' = Kept(past, r)
  BY Zenon DEF Tick, Remember, Kept
<1>3. past' \in Seq(BOOLEAN) /\ Len(past') <= Threshold
  BY <1>1, <1>2, KeptFacts DEF DrainAssumption, DrainInv, DrainType
<1> HIDE DEF r
<1>4. /\ high' = IF r THEN Saturated(high + 1) ELSE 0
      /\ normal' = IF r THEN 0 ELSE Saturated(normal + 1)
  BY Zenon DEF Tick, Count, r
<1>5. high' \in Nat /\ normal' \in Nat
  BY <1>4 DEF DrainAssumption, Saturated, DrainInv, DrainType
<1>6. Counts(high', past', TRUE) /\ Counts(normal', past', FALSE)
  <2>1. CASE r = TRUE
    BY <1>1, <1>2, <1>4, <2>1, CountGoesOn, CountEnds, Zenon DEF DrainInv, DrainType
  <2>2. CASE r = FALSE
    BY <1>1, <1>2, <1>4, <2>2, CountGoesOn, CountEnds, Zenon DEF DrainInv, DrainType
  <2> QED
    BY <1>1, <2>1, <2>2, Zenon
<1>7. (high' >= Threshold <=> Run(past', TRUE)) /\ (normal' >= Threshold <=> Run(past', FALSE))
  BY <1>3, <1>5, <1>6, FullRun, Zenon
<1>8. draining' = IF Run(past', TRUE) THEN TRUE ELSE IF Run(past', FALSE) THEN FALSE ELSE draining
  BY <1>7, Zenon DEF Tick, Decide
<1>9. ~(Run(past', TRUE) /\ Run(past', FALSE))
  BY <1>3, OneRun, Zenon
<1>10. draining \in BOOLEAN
  BY Zenon DEF DrainInv, DrainType
<1>11. /\ draining' \in BOOLEAN
       /\ \A hot \in BOOLEAN : Run(past', hot) => draining' = hot
       /\ draining' # draining => Run(past', draining')
  BY <1>8, <1>9, <1>10, Zenon
<1>12. restarts' \in Nat
  BY Zenon DEF Tick, DrainInv, DrainType
<1> QED
  BY <1>3, <1>5, <1>6, <1>11, <1>12, Zenon DEF DrainInv, DrainType

\* A history that has just begun is no run.
LEMMA NoRun ==
  ASSUME DrainAssumption
  PROVE  /\ <<>> \in Seq(BOOLEAN) /\ Len(<<>>) = 0
         /\ \A v \in BOOLEAN : ~Run(<<>>, v) /\ Counts(0, <<>>, v)
BY DEF DrainAssumption, Run, Counts

\* Each step keeps the invariant and does what DrainsAfterAFullRun says.
LEMMA DrainStep ==
  ASSUME DrainAssumption, DrainInv, [DrainNext]_drainVars
  PROVE  /\ DrainInv'
         /\ draining' # draining /\ restarts' = restarts => Run(past', draining')
<1>1. CASE Step \/ StepFails
  BY <1>1, TickKeeps DEF Step, StepFails
<1>2. CASE Restart
  <2>1. high' = 0 /\ normal' = 0 /\ draining' = FALSE /\ past' = <<>> /\ restarts' = restarts + 1
    BY <1>2 DEF Restart, NewAgent
  <2>a. draining' \in BOOLEAN /\ past' \in Seq(BOOLEAN)
    BY <2>1, NoRun, Zenon
  <2>b. Len(past') <= Threshold /\ high' \in Nat /\ normal' \in Nat
    BY <2>1, NoRun DEF DrainAssumption
  <2>2. DrainType' /\ restarts' # restarts
    BY <2>1, <2>a, <2>b DEF DrainInv, DrainType
  <2>3. Counts(high', past', TRUE) /\ Counts(normal', past', FALSE)
    BY <2>1, NoRun, Zenon
  <2>4. \A hot \in BOOLEAN : ~Run(past', hot)
    BY <2>1, NoRun
  <2> QED
    BY <2>2, <2>3, <2>4, Zenon DEF DrainInv
<1>3. CASE LoadChanges \/ SensorChanges \/ Start \/ UNCHANGED drainVars
  <2>1. UNCHANGED <<high, normal, draining, past, restarts>>
    BY Zenon, <1>3 DEF LoadChanges, SensorChanges, Start, drainVars
  <2> QED
    BY <2>1, Zenon DEF DrainInv, DrainType, Counts, Run
<1> QED
  BY Zenon, <1>1, <1>2, <1>3 DEF DrainNext

\* For every threshold: the agent changes its mind only after a full run of
\* equal readings since its start, and has made up its mind after one.
THEOREM DrainsAfterFullRuns ==
  ASSUME DrainAssumption
  PROVE  DrainSpec => DrainsAfterAFullRun
<1>1. DrainInit => DrainInv
  <2> SUFFICES ASSUME DrainInit PROVE DrainInv
    OBVIOUS
  <2>1. high = 0 /\ normal = 0 /\ draining = FALSE /\ past = <<>> /\ restarts = 0
    BY Zenon DEF DrainInit
  <2>a. draining \in BOOLEAN /\ past \in Seq(BOOLEAN)
    BY <2>1, NoRun, Zenon
  <2>b. Len(past) <= Threshold /\ high \in Nat /\ normal \in Nat /\ restarts \in Nat
    BY <2>1, NoRun DEF DrainAssumption
  <2>2. DrainType
    BY <2>a, <2>b DEF DrainType
  <2>3. Counts(high, past, TRUE) /\ Counts(normal, past, FALSE)
    BY <2>1, NoRun, Zenon
  <2>4. \A hot \in BOOLEAN : ~Run(past, hot)
    BY <2>1, NoRun
  <2> QED
    BY <2>2, <2>3, <2>4, Zenon DEF DrainInv
<1>2. DrainInv /\ [DrainNext]_drainVars => DrainInv'
  BY DrainStep
<1>3. DrainInv /\ [DrainNext]_drainVars =>
        [ /\ draining' # draining /\ restarts' = restarts => Run(past', draining')
          /\ \A hot \in BOOLEAN : Run(past', hot) => draining' = hot ]_drainVars
  BY DrainStep, Zenon DEF DrainInv
<1> QED
  BY <1>1, <1>2, <1>3, PTL DEF DrainSpec, DrainsAfterAFullRun

-----------------------------------------------------------------------------
(* A certificate that ca issue has reported verifies, for every set of     *)
(* nodes and every number of commands, wherever earlier ones were cut off. *)

CertFile == [pub : Nat, by : Nat]
Pcs == {"idle", "truncateCrt", "writeCrt", "truncateKey", "writeKey"}

CertType ==
  /\ crt \in [Name -> CertFile \cup {Missing, Torn}]
  /\ key \in [Name -> Nat \cup {Missing, Torn}]
  /\ keys \in Nat /\ issued \in Name
  /\ cmd \in [pc : Pcs, name : Name, pair : Nat, cert : CertFile \cup {Missing}]

\* A running command holds a certificate of its own key; one that issues for
\* a node signed it with the CA's key, which nothing changes meanwhile, and
\* has its certificate on disk before it comes to the key.
CommandInv ==
  cmd.pc # "idle" =>
    /\ issued = CA
    /\ cmd.cert \in CertFile /\ cmd.cert.pub = cmd.pair
    /\ cmd.name \in Node =>
         /\ LoadCA /\ cmd.cert.by = key[CA]
         /\ cmd.pc \in {"truncateKey", "writeKey"} => crt[cmd.name] = cmd.cert

IdleInv == cmd.pc = "idle" => cmd = NoCmd

CertInv == CertType /\ CommandInv /\ IdleInv /\ IssuedVerifies

\* No file, no command.
LEMMA CertInit ==
  ASSUME CertsAssumption
  PROVE  CertsInit => CertInv
<1> SUFFICES ASSUME CertsInit PROVE CertInv
  OBVIOUS
<1>1. CertType
  BY Zenon DEF CertsInit, CertType, Name, NoCmd, Pcs
<1>2. CommandInv /\ IdleInv /\ IssuedVerifies
  BY Zenon DEF CertsAssumption, CertsInit, CommandInv, IdleInv, IssuedVerifies, NoCmd
<1> QED
  BY <1>1, <1>2 DEF CertInv

\* A command starts only when none is running.
LEMMA StartKeeps ==
  ASSUME CertsAssumption, CertInv, CaInit \/ \E n \in Node : CaIssue(n)
  PROVE  CertInv'
<1> USE DEF CertsAssumption
<1>1. CASE CaInit
  <2>1. CertType'
    BY <1>1 DEF CertInv, CertType, CaInit, Generate, Certificate, CertFile, Pcs, Name
  <2>2. CommandInv' /\ IdleInv' /\ IssuedVerifies'
    BY Zenon, <1>1, <2>1 DEF CertInv, CertType, CommandInv, IdleInv, IssuedVerifies, CaInit,
         Generate, Certificate, CertFile, NoCmd
  <2> QED
    BY <2>1, <2>2 DEF CertInv
<1>2. ASSUME NEW n \in Node, CaIssue(n) PROVE CertInv'
  <2>0. key[CA] \in Nat
    BY Zenon, <1>2 DEF CertInv, CertType, CaIssue, LoadCA, Readable, Name
  <2>1. CertType'
    BY <1>2, <2>0 DEF CertInv, CertType, CaIssue, Generate, Certificate, CertFile, Pcs, Name
  <2>2. CommandInv' /\ IdleInv' /\ IssuedVerifies'
    BY Zenon, <1>2, <2>0, <2>1 DEF CertInv, CertType, CommandInv, IdleInv, IssuedVerifies, CaIssue,
         LoadCA, Generate,
                            Certificate, CertFile, NoCmd
  <2> QED
    BY <2>1, <2>2 DEF CertInv
<1> QED
  BY <1>1, <1>2

\* The writes of a command touch the files of its own name.
LEMMA WriteKeeps ==
  ASSUME CertsAssumption, CertInv, TruncateCrt \/ WriteCrt \/ TruncateKey
  PROVE  CertInv'
<1> USE DEF CertsAssumption
<1>0. cmd.pc # "idle" /\ cmd.name \in Name /\ cmd.cert \in CertFile /\ issued = CA
  BY Zenon DEF CertInv, CertType, CommandInv, TruncateCrt, WriteCrt, TruncateKey, Proceeds
<1>1. CertType'
  BY <1>0 DEF CertInv, CertType, TruncateCrt, WriteCrt, TruncateKey, Proceeds, Pcs
<1>2. IdleInv' /\ IssuedVerifies'
  BY <1>0, <1>1 DEF CertInv, CertType, IdleInv, IssuedVerifies, TruncateCrt, WriteCrt, TruncateKey,
       Proceeds, NoCmd
<1>3. CommandInv'
  BY <1>0, <1>1 DEF CertInv, CertType, CommandInv, LoadCA, Readable, TruncateCrt, WriteCrt,
       TruncateKey, Proceeds, Name
<1> QED
  BY <1>1, <1>2, <1>3 DEF CertInv

\* The last write completes the pair.
LEMMA FinishKeeps ==
  ASSUME CertsAssumption
  PROVE  CertInv /\ WriteKey => CertInv'
<1> SUFFICES ASSUME CertInv, WriteKey PROVE CertInv'
  OBVIOUS
<1> USE DEF CertsAssumption
<1>0. cmd.pc = "writeKey" /\ cmd' = NoCmd /\ cmd.name \in Name /\ cmd.pair \in Nat
  BY Zenon DEF CertInv, CertType, WriteKey, Proceeds
<1>1. CertType'
  BY Zenon, <1>0 DEF CertInv, CertType, WriteKey, NoCmd, Pcs, Name
<1>2. CommandInv' /\ IdleInv'
  BY Zenon, <1>0 DEF CommandInv, IdleInv, NoCmd
<1>3. IssuedVerifies'
  BY Zenon, <1>0, <1>1 DEF CertInv, CertType, CommandInv, IssuedVerifies, LoadCA, Readable,
       WriteKey, Name, CertFile
<1> QED
  BY <1>1, <1>2, <1>3 DEF CertInv

\* A command that is cut off reports nothing.
LEMMA StopKeeps ==
  ASSUME CertsAssumption
  PROVE  CertInv /\ Stop => CertInv'
<1> SUFFICES ASSUME CertInv, Stop PROVE CertInv'
  BY Zenon
<1>0. issued = CA /\ cmd' = NoCmd /\ UNCHANGED <<crt, key, keys, issued>>
  BY Zenon DEF CertInv, CommandInv, IdleInv, Stop
<1>1. CertType'
  BY Zenon, <1>0 DEF CertInv, CertType, NoCmd, Pcs, Name
<1>2. CommandInv' /\ IdleInv' /\ IssuedVerifies'
  BY Zenon, <1>0 DEF CertsAssumption, CommandInv, IdleInv, IssuedVerifies, NoCmd
<1> QED
  BY <1>1, <1>2 DEF CertInv

\* What ca issue reports as done verifies under the CA certificate on disk,
\* however many ca init and ca issue were cut off before it, and where.
THEOREM IssuedAlwaysVerifies ==
  ASSUME CertsAssumption
  PROVE  CertsSpec => []IssuedVerifies
<1>1. CertInv /\ [CertsNext]_certVars => CertInv'
  <2> SUFFICES ASSUME CertInv, [CertsNext]_certVars PROVE CertInv'
    OBVIOUS
  <2>1. CASE UNCHANGED certVars
    BY Zenon, <2>1 DEF certVars, CertInv, CertType, CommandInv, IdleInv, IssuedVerifies, LoadCA
  <2> QED
    BY Zenon, <2>1, StartKeeps, WriteKeeps, FinishKeeps, StopKeeps DEF CertsNext
<1> QED
  BY <1>1, CertInit, PTL DEF CertsSpec, CertInv

-----------------------------------------------------------------------------
(* A dead node's row is buried and stays buried, for every number of       *)
(* watchers, channel capacity and number of heartbeats, flaps and restarts.*)

Copies == [hlc : Nat, dead : BOOLEAN]

\* Every live copy descends from a heartbeat, every tombstone from a handler.
Descends(v) == v # NoCopy => IF v.dead THEN v.hlc > MaxBeat ELSE v.hlc <= MaxBeat

BurialInv ==
  /\ beat \in Nat /\ beat <= MaxBeat
  /\ copy \in [Watcher -> Copies \cup {NoCopy}]
  /\ clock \in [Watcher -> Nat]
  /\ round \in [Watcher -> [pc : {"idle", "apply", "clock"}, copy : Copies \cup {NoCopy}]]
  /\ job \in [Watcher -> [pc : {"idle", "prune"}, hlc : Nat]]
  /\ \A n \in Watcher : /\ Descends(copy[n]) /\ Descends(round[n].copy)
                        /\ round[n].pc # "idle" => round[n].copy # NoCopy
                        /\ job[n].pc = "prune" => job[n].hlc > MaxBeat

\* A heartbeat of the subject is such a live copy.
LEMMA Heartbeats ==
  ASSUME NEW h \in Nat, h <= MaxBeat
  PROVE  Version(h, FALSE) \in Copies /\ Version(h, FALSE) # NoCopy /\ Descends(Version(h, FALSE))
<1> DEFINE v == Version(h, FALSE)
<1>1. v \in Copies /\ v.hlc = h /\ v.dead = FALSE
  BY Zenon DEF Version, Copies
<1> HIDE DEF v
<1>2. v # NoCopy
  BY <1>1, MembershipAssumption, Zenon DEF Copies
<1>3. Descends(v)
  BY <1>1, <1>2 DEF Descends
<1> QED
  BY <1>1, <1>2, <1>3, Zenon DEF v

\* At first there are only heartbeats.
LEMMA BurialInit == MemberInit => BurialInv
<1> SUFFICES ASSUME MemberInit PROVE BurialInv
  OBVIOUS
<1>1. Version(1, FALSE) \in Copies /\ Descends(Version(1, FALSE)) /\ Descends(NoCopy)
  <2>1. 1 \in Nat /\ 1 <= MaxBeat
    BY MembershipAssumption
  <2> QED
    BY <2>1, Heartbeats, Zenon DEF Descends
<1>2. /\ beat \in Nat /\ beat <= MaxBeat /\ clock \in [Watcher -> Nat]
      /\ job \in [Watcher -> [pc : {"idle", "prune"}, hlc : Nat]]
  BY MembershipAssumption DEF MemberInit, NoJob
<1>3. copy \in [Watcher -> Copies \cup {NoCopy}] /\ \A n \in Watcher : Descends(copy[n])
  BY <1>1, Zenon DEF MemberInit
<1>4. /\ round \in [Watcher -> [pc : {"idle", "apply", "clock"}, copy : Copies \cup {NoCopy}]]
      /\ \A n \in Watcher : round[n] = NoRound /\ job[n] = NoJob
  BY Zenon DEF MemberInit, NoRound
<1> QED
  BY <1>1, <1>2, <1>3, <1>4 DEF BurialInv, NoRound, NoJob

\* What a peer or the subject serves, and what a pull leaves in the store.
LEMMA PullsDescend ==
  ASSUME BurialInv, NEW n \in Watcher,
         \/ \E src \in Watcher \cup {Subject} : Answer(n, src)
         \/ Apply(n) \/ RoundFails(n) \/ UpdateClock(n)
  PROVE  BurialInv'
<1>0. /\ beat \in Nat /\ beat <= MaxBeat /\ copy \in [Watcher -> Copies \cup {NoCopy}]
      /\ clock \in [Watcher -> Nat]
      /\ round \in [Watcher -> [pc : {"idle", "apply", "clock"}, copy : Copies \cup {NoCopy}]]
      /\ \A m \in Watcher : /\ Descends(copy[m]) /\ Descends(round[m].copy)
                            /\ round[m].pc # "idle" => round[m].copy # NoCopy
  BY Zenon DEF BurialInv
<1>1. CASE \E src \in Watcher \cup {Subject} : Answer(n, src)
  <2>1. PICK src \in Watcher \cup {Subject} : Answer(n, src)
    BY <1>1
  <2> DEFINE new == [pc |-> "apply", copy |-> Served(src)]
  <2>2. Served(src) \in Copies /\ Descends(Served(src)) /\ Served(src) # NoCopy
    <3>1. CASE src = Subject
      BY <1>0, <3>1, Heartbeats, Zenon DEF Served
    <3>2. CASE src # Subject
      BY Zenon, <1>0, <2>1, <3>2 DEF Served, Answer
    <3> QED
      BY Zenon, <3>1, <3>2
  <2>3. round' = [round EXCEPT ![n] = new] /\ UNCHANGED <<beat, copy, clock, job>>
    BY Zenon, <2>1 DEF Answer
  <2> HIDE DEF new
  <2>4. new \in [pc : {"idle", "apply", "clock"}, copy : Copies \cup {NoCopy}] /\ new.copy = Served(src)
    BY Zenon, <2>2 DEF new
  <2> QED
    BY Zenon, <1>0, <2>2, <2>3, <2>4 DEF BurialInv
<1>2. CASE Apply(n)
  <2>1. round[n].copy \in Copies /\ Descends(round[n].copy) /\ round[n].copy # NoCopy
    BY Zenon, <1>0, <1>2 DEF Apply
  <2>2. copy' = copy \/ copy' = [copy EXCEPT ![n] = round[n].copy]
    BY Zenon, <1>2 DEF Apply
  <2>3. round' = [round EXCEPT ![n].pc = "clock"] /\ UNCHANGED <<beat, clock, job>>
    BY Zenon, <1>2 DEF Apply
  <2>4. copy' \in [Watcher -> Copies \cup {NoCopy}] /\ \A m \in Watcher : Descends(copy'[m])
    BY Zenon, <1>0, <2>1, <2>2
  <2>5. /\ round' \in [Watcher -> [pc : {"idle", "apply", "clock"}, copy : Copies \cup {NoCopy}]]
        /\ \A m \in Watcher : /\ round'[m].copy = round[m].copy
                              /\ round'[m].pc # "idle" => round'[m].copy # NoCopy
    BY <1>0, <2>1, <2>3
  <2> QED
    BY Zenon, <1>0, <2>3, <2>4, <2>5 DEF BurialInv
<1>3. CASE RoundFails(n) \/ UpdateClock(n)
  <2>1. round' = [round EXCEPT ![n] = NoRound] /\ UNCHANGED <<beat, copy, job>>
    BY Zenon, <1>3 DEF RoundFails, UpdateClock
  <2>2. clock' \in [Watcher -> Nat]
    <3>1. CASE RoundFails(n)
      BY Zenon, <1>0, <3>1 DEF RoundFails
    <3>2. CASE UpdateClock(n)
      <4>1. round[n].copy \in Copies
        BY Zenon, <1>0, <3>2 DEF UpdateClock
      <4>2. Larger(clock[n], round[n].copy.hlc) \in Nat
        BY Zenon, <1>0, <4>1 DEF Copies, Larger
      <4> QED
        BY Zenon, <1>0, <3>2, <4>2 DEF UpdateClock
    <3> QED
      BY <1>3, <3>1, <3>2
  <2>3. /\ round' \in [Watcher -> [pc : {"idle", "apply", "clock"}, copy : Copies \cup {NoCopy}]]
        /\ \A m \in Watcher : round'[m] = round[m] \/ round'[m] = NoRound
    BY Zenon, <1>0, <2>1 DEF NoRound
  <2> QED
    BY Zenon, <1>0, <2>1, <2>2, <2>3 DEF BurialInv, NoRound, Descends
<1> QED
  BY <1>1, <1>2, <1>3

\* Every step keeps BurialInv: a handler's HLC is past every heartbeat.
LEMMA BurialStep ==
  ASSUME FastClocks, BurialInv, [MemberNext]_memberVars
  PROVE  BurialInv'
<1>1. ASSUME UNCHANGED <<beat, copy, clock, round, job>> PROVE BurialInv'
  BY <1>1, Zenon DEF BurialInv
<1>2. CASE UNCHANGED memberVars
  BY Zenon, <1>1, <1>2 DEF memberVars
<1>3. CASE Beat
  <2>1. beat' \in Nat /\ beat' <= MaxBeat /\ UNCHANGED <<copy, clock, round, job>>
    BY <1>3, MembershipAssumption DEF Beat, BurialInv
  <2> QED
    BY <2>1, Zenon DEF BurialInv
<1>4. CASE Crash
  BY <1>1, <1>4 DEF Crash
<1>5. ASSUME NEW n \in Watcher, NotifyJoin(n) \/ NotifyLeave(n) \/ NotifyUpdate(n) PROVE BurialInv'
  BY Zenon, <1>1, <1>5 DEF NotifyJoin, NotifyLeave, NotifyUpdate
<1>6. ASSUME NEW n \in Watcher, TakeEvent(n) PROVE BurialInv'
  <2>1. PICK now \in Wall[n] :
          /\ clock' = [clock EXCEPT ![n] = Larger(@ + 1, now)]
          /\ job' = [job EXCEPT ![n] = IF Head(channel[n]) = "leave"
                                       THEN [pc |-> "prune", hlc |-> clock'[n]] ELSE NoJob]
    BY Zenon, <1>6 DEF TakeEvent
  <2>2. now \in Nat /\ now > MaxBeat
    BY Zenon, MembershipAssumption DEF FastClocks
  <2>3. clock' \in [Watcher -> Nat] /\ clock'[n] \in Nat /\ clock'[n] > MaxBeat
    BY <2>1, <2>2, MembershipAssumption DEF BurialInv, Larger
  <2>4. /\ job' \in [Watcher -> [pc : {"idle", "prune"}, hlc : Nat]]
        /\ \A m \in Watcher : job'[m].pc = "prune" => job'[m].hlc > MaxBeat
    BY Zenon, <2>1, <2>3 DEF BurialInv, NoJob
  <2>5. UNCHANGED <<beat, copy, round>>
    BY Zenon, <1>6 DEF TakeEvent
  <2> QED
    BY Zenon, <2>3, <2>4, <2>5 DEF BurialInv
<1>7. ASSUME NEW n \in Watcher, DeleteByNode(n) \/ PruneFails(n) PROVE BurialInv'
  <2> DEFINE new == Version(job[n].hlc, TRUE)
  <2>1. job[n].hlc \in Nat /\ job[n].hlc > MaxBeat
    BY Zenon, <1>7 DEF BurialInv, DeleteByNode, PruneFails
  <2>2. new \in Copies /\ Descends(new)
    BY Zenon, <2>1 DEF Version, Copies, Descends
  <2> HIDE DEF new
  <2>3. /\ copy' = copy \/ copy' = [copy EXCEPT ![n] = new]
        /\ job' = [job EXCEPT ![n] = NoJob] /\ UNCHANGED <<beat, clock, round>>
    BY Zenon, <1>7 DEF DeleteByNode, PruneFails, new
  <2>4. copy' \in [Watcher -> Copies \cup {NoCopy}] /\ \A m \in Watcher : Descends(copy'[m])
    BY <2>2, <2>3 DEF BurialInv
  <2>5. /\ job' \in [Watcher -> [pc : {"idle", "prune"}, hlc : Nat]]
        /\ \A m \in Watcher : job'[m].pc = "prune" => job'[m].hlc > MaxBeat
    BY Zenon, <2>3 DEF BurialInv, NoJob
  <2> QED
    BY Zenon, <2>3, <2>4, <2>5 DEF BurialInv
<1>8. ASSUME NEW n \in Watcher, Relaunch(n) PROVE BurialInv'
  <2>1. /\ clock' = [clock EXCEPT ![n] = 0] /\ round' = [round EXCEPT ![n] = NoRound]
        /\ job' = [job EXCEPT ![n] = NoJob] /\ UNCHANGED <<beat, copy>>
    BY Zenon, <1>8 DEF Relaunch
  <2>2. /\ round' \in [Watcher -> [pc : {"idle", "apply", "clock"}, copy : Copies \cup {NoCopy}]]
        /\ \A m \in Watcher : round'[m] = round[m] \/ round'[m] = NoRound
    BY Zenon, <2>1 DEF BurialInv, NoRound
  <2>3. /\ job' \in [Watcher -> [pc : {"idle", "prune"}, hlc : Nat]]
        /\ \A m \in Watcher : job'[m].pc = "prune" => job'[m].hlc > MaxBeat
    BY Zenon, <2>1 DEF BurialInv, NoJob
  <2>4. clock' \in [Watcher -> Nat]
    BY Zenon, <2>1 DEF BurialInv
  <2> QED
    BY <2>1, <2>2, <2>3, <2>4 DEF BurialInv, NoRound, Descends
<1> QED
  BY Zenon, <1>2, <1>3, <1>4, <1>5, <1>6, <1>7, <1>8, PullsDescend DEF MemberNext

\* In no step does a buried copy come back to life: what a pull puts in its
\* place has a higher HLC, and is a tombstone by that.
LEMMA BuriedStays ==
  ASSUME BurialInv, [MemberNext]_memberVars, NEW m \in Watcher, copy[m] # NoCopy
  PROVE  copy'[m] # NoCopy /\ (~LiveCopy(m) => ~LiveCopy(m)')
<1>1. CASE UNCHANGED copy
  BY <1>1, Zenon DEF LiveCopy
<1>2. ASSUME NEW n \in Watcher, DeleteByNode(n), copy' = [copy EXCEPT ![n] = Version(job[n].hlc, TRUE)]
      PROVE  copy'[m] # NoCopy /\ (~LiveCopy(m) => ~LiveCopy(m)')
  <2> DEFINE new == Version(job[n].hlc, TRUE)
  <2>1. new \in Copies /\ new.dead
    BY Zenon, <1>2 DEF BurialInv, DeleteByNode, Version, Copies
  <2> HIDE DEF new
  <2>2. copy'[m] = copy[m] \/ copy'[m] = new
    BY Zenon, <1>2 DEF BurialInv, new
  <2> QED
    BY Zenon, <2>1, <2>2, MembershipAssumption DEF LiveCopy, Copies
<1>3. ASSUME NEW n \in Watcher, Apply(n),
             copy[n] = NoCopy \/ round[n].copy.hlc > copy[n].hlc, copy' = [copy EXCEPT ![n] = round[n].copy]
      PROVE  copy'[m] # NoCopy /\ (~LiveCopy(m) => ~LiveCopy(m)')
  <2>1. CASE m # n
    BY Zenon, <1>3, <2>1 DEF BurialInv, LiveCopy
  <2>2. CASE m = n
    <3> DEFINE new == round[n].copy
               old == copy[n]
    <3>1. /\ new \in Copies /\ new # NoCopy /\ Descends(new)
          /\ old \in Copies /\ old # NoCopy /\ Descends(old) /\ new.hlc > old.hlc
      BY <1>3, <2>2 DEF BurialInv, Apply
    <3>2. copy'[m] = new /\ copy[m] = old
      BY Zenon, <1>3, <2>2 DEF BurialInv
    <3> HIDE DEF new, old
    <3>3. old.dead => new.dead
      BY <3>1, MembershipAssumption DEF Descends, Copies
    <3> QED
      BY <3>1, <3>2, <3>3, Zenon DEF LiveCopy
  <2> QED
    BY <2>1, <2>2
<1>4. \/ UNCHANGED copy
      \/ \E n \in Watcher : DeleteByNode(n) /\ copy' = [copy EXCEPT ![n] = Version(job[n].hlc, TRUE)]
      \/ \E n \in Watcher : /\ Apply(n)
                            /\ copy[n] = NoCopy \/ round[n].copy.hlc > copy[n].hlc
                            /\ copy' = [copy EXCEPT ![n] = round[n].copy]
  BY Zenon DEF MemberNext, memberVars, Beat, Crash, NotifyJoin, NotifyLeave, NotifyUpdate, TakeEvent,
         DeleteByNode, PruneFails, Apply, RoundFails, UpdateClock, Relaunch, Answer
<1> QED
  BY <1>1, <1>2, <1>3, <1>4, Zenon

\* A row that DeleteByNode has buried stays buried in that store, whatever
\* the peers still serve, where no clock is behind the dead node's.
THEOREM BurialsAreFinal ==
  ASSUME FastClocks
  PROVE  MemberSpec => BurialIsFinal
<1>1. BurialInv /\ [MemberNext]_memberVars => BurialInv'
  BY BurialStep
<1>2. BurialInv /\ [MemberNext]_memberVars =>
        [\A n \in Watcher : copy[n] # NoCopy /\ ~LiveCopy(n)
                            => copy'[n] # NoCopy /\ ~LiveCopy(n)']_memberVars
  BY Zenon, BuriedStays
<1> QED
  BY <1>1, <1>2, BurialInit, PTL DEF MemberSpec, BurialIsFinal

\* Every watcher keeps a copy, no channel is over its capacity.
LeaveInv ==
  /\ channel \in [Watcher -> Seq({"join", "leave", "update"})]
  /\ \A n \in Watcher : Len(channel[n]) <= Cap
  /\ belief \in [Watcher -> {"alive", "dead", "unknown"}]
  /\ missed \in BOOLEAN /\ relaunches \in Nat
  /\ \A n \in Watcher : copy[n] # NoCopy
  /\ BurialIsPending

\* A callback leaves what is in the channel there; its own event joins it, or
\* is missed.
LEMMA TrySendFacts ==
  ASSUME LeaveInv, NEW n \in Watcher, NEW e \in {"join", "leave", "update"}, TrySend(n, e)
  PROVE  /\ channel' \in [Watcher -> Seq({"join", "leave", "update"})]
         /\ \A m \in Watcher : Len(channel'[m]) <= Cap
         /\ missed' \in BOOLEAN /\ (missed => missed')
         /\ \A m \in Watcher : (\E i \in DOMAIN channel[m] : channel[m][i] = "leave")
                               => \E i \in DOMAIN channel'[m] : channel'[m][i] = "leave"
         /\ e = "leave" /\ ~missed' => \E i \in DOMAIN channel'[n] : channel'[n][i] = "leave"
<1>0. /\ channel \in [Watcher -> Seq({"join", "leave", "update"})] /\ missed \in BOOLEAN
      /\ \A m \in Watcher : Len(channel[m]) <= Cap
  BY Zenon DEF LeaveInv
<1>1. missed' = (missed \/ Len(channel[n]) = Cap) /\ Cap \in Nat /\ Len(channel[n]) \in Nat
  BY <1>0, MembershipAssumption DEF TrySend
<1>2. CASE Len(channel[n]) = Cap
  <2>1. ~(Len(channel[n]) < Cap) /\ missed' = TRUE
    <3>1. ~(Len(channel[n]) < Cap)
      BY <1>1, <1>2
    <3> QED
      BY <1>1, <1>2, <3>1, Zenon
  <2>2. channel' = channel
    BY <2>1, Zenon DEF TrySend
  <2> QED
    BY <1>0, <2>1, <2>2, Zenon
<1>3. CASE Len(channel[n]) # Cap
  <2> DEFINE c == channel[n]
             d == Append(c, e)
  <2>1. Len(c) < Cap /\ (missed' <=> missed)
    BY <1>0, <1>1, <1>3
  <2>2. channel' = [channel EXCEPT ![n] = d] /\ missed' \in BOOLEAN
    BY Zenon, <1>0, <1>1, <2>1 DEF TrySend
  <2>3. /\ d \in Seq({"join", "leave", "update"}) /\ Len(d) = Len(c) + 1 /\ Len(d) <= Cap
        /\ \A i \in DOMAIN c : i \in DOMAIN d /\ d[i] = c[i]
        /\ Len(d) \in DOMAIN d /\ d[Len(d)] = e
    BY <1>0, <1>1, <2>1
  <2> HIDE DEF c, d
  <2>4. \A m \in Watcher : channel'[m] = IF m = n THEN d ELSE channel[m]
    BY <1>0, <2>2
  <2>5. channel' \in [Watcher -> Seq({"join", "leave", "update"})] /\ \A m \in Watcher : Len(channel'[m]) <= Cap
    BY <1>0, <2>2, <2>3
  <2>6. \A m \in Watcher : (\E i \in DOMAIN channel[m] : channel[m][i] = "leave")
                           => \E i \in DOMAIN channel'[m] : channel'[m][i] = "leave"
    BY <2>3, <2>4, Zenon DEF c
  <2>7. e = "leave" => \E i \in DOMAIN channel'[n] : channel'[n][i] = "leave"
    BY <2>3, <2>4, Zenon
  <2> QED
    BY <2>1, <2>2, <2>5, <2>6, <2>7, Zenon
<1> QED
  BY Zenon, <1>2, <1>3

\* The handler takes the events in their order: a leave is still in the
\* channel, or it is the one the handler has taken.
LEMMA TakeEventFacts ==
  ASSUME BurialInv, LeaveInv, NEW n \in Watcher, TakeEvent(n)
  PROVE  /\ channel' \in [Watcher -> Seq({"join", "leave", "update"})]
         /\ \A m \in Watcher : Len(channel'[m]) <= Cap
         /\ \A m \in Watcher : Doomed(m) => Doomed(m)'
<1> DEFINE c == channel[n]
           d == Tail(c)
<1>0. /\ channel \in [Watcher -> Seq({"join", "leave", "update"})] /\ c # <<>>
      /\ \A m \in Watcher : Len(channel[m]) <= Cap
      /\ Cap \in Nat /\ job \in [Watcher -> [pc : {"idle", "prune"}, hlc : Nat]]
      /\ job[n].pc = "idle"
  BY Zenon, MembershipAssumption DEF LeaveInv, BurialInv, TakeEvent
<1>1. channel' = [channel EXCEPT ![n] = d]
  BY Zenon DEF TakeEvent
<1>2. /\ d \in Seq({"join", "leave", "update"}) /\ Len(d) <= Cap
      /\ \A i \in DOMAIN c : i = 1 \/ (i - 1 \in DOMAIN d /\ d[i - 1] = c[i])
      /\ Head(c) = c[1]
  BY <1>0
<1>3. \E h : job' = [job EXCEPT ![n] = IF Head(c) = "leave" THEN [pc |-> "prune", hlc |-> h] ELSE NoJob]
  BY Zenon DEF TakeEvent
<1> HIDE DEF c, d
<1>4. \A m \in Watcher : channel'[m] = IF m = n THEN d ELSE channel[m]
  BY <1>0, <1>1
<1>5. /\ channel' \in [Watcher -> Seq({"join", "leave", "update"})]
      /\ \A m \in Watcher : Len(channel'[m]) <= Cap
  BY <1>0, <1>1, <1>2
<1>6. /\ \A m \in Watcher : m # n => job'[m] = job[m]
      /\ Head(c) = "leave" => job'[n].pc = "prune"
  BY <1>0, <1>3
<1>7. ASSUME NEW m \in Watcher, Doomed(m) PROVE Doomed(m)'
  <2>1. CASE m # n
    BY <1>4, <1>6, <1>7, <2>1, Zenon DEF Doomed
  <2>2. CASE m = n
    <3>1. PICK i \in DOMAIN c : c[i] = "leave"
      BY <1>0, <1>7, <2>2, Zenon DEF Doomed, c
    <3>2. CASE i = 1
      BY <1>2, <1>6, <2>2, <3>1, <3>2, Zenon DEF Doomed
    <3>3. CASE i # 1
      <4>1. i - 1 \in DOMAIN d /\ d[i - 1] = "leave" /\ channel'[m] = d
        BY <1>2, <1>4, <2>2, <3>1, <3>3, Zenon
      <4> QED
        BY <4>1, Zenon DEF Doomed
    <3> QED
      BY <3>2, <3>3
  <2> QED
    BY <2>1, <2>2
<1> QED
  BY <1>5, <1>7

\* Every step keeps LeaveInv: a leave stays in the channel until the handler
\* takes it, and in its hands until the copy is buried.
LEMMA LeaveStep ==
  ASSUME BurialInv, LeaveInv, [MemberNext]_memberVars
  PROVE  LeaveInv'
<1> DEFINE Types == /\ channel \in [Watcher -> Seq({"join", "leave", "update"})]
                    /\ \A n \in Watcher : Len(channel[n]) <= Cap
                    /\ belief \in [Watcher -> {"alive", "dead", "unknown"}]
                    /\ missed \in BOOLEAN /\ relaunches \in Nat
           Pending == ~missed /\ relaunches = 0 =>
                        \A n \in Watcher : LiveCopy(n) /\ belief[n] = "dead" => Doomed(n)
<1>0. Types /\ Pending
  BY Zenon DEF LeaveInv, BurialIsPending
<1>1. \A m \in Watcher : copy'[m] # NoCopy /\ (LiveCopy(m)' => LiveCopy(m))
  BY BuriedStays, Zenon DEF LeaveInv
<1>2. ASSUME Types', Pending' PROVE LeaveInv'
  BY <1>1, <1>2, Zenon DEF LeaveInv, BurialIsPending
<1>3. ASSUME UNCHANGED <<belief, missed, relaunches, job, channel>> PROVE LeaveInv'
  <2>1. Types' /\ Pending'
    BY <1>0, <1>1, <1>3, Zenon DEF Doomed
  <2> QED
    BY Zenon, <1>2, <2>1
<1>4. CASE UNCHANGED memberVars \/ Beat \/ Crash
  BY <1>3, <1>4, Zenon DEF memberVars, watch, Beat, Crash
<1>5. ASSUME NEW n \in Watcher, \/ \E src \in Watcher \cup {Subject} : Answer(n, src)
                                \/ Apply(n) \/ RoundFails(n) \/ UpdateClock(n)
      PROVE  LeaveInv'
  BY <1>3, <1>5, Zenon DEF watch, Answer, Apply, RoundFails, UpdateClock
<1>6. ASSUME NEW n \in Watcher, NotifyJoin(n) \/ NotifyLeave(n) \/ NotifyUpdate(n) PROVE LeaveInv'
  <2>1. PICK e \in {"join", "leave", "update"} :
          /\ TrySend(n, e) /\ UNCHANGED <<job, relaunches>>
          /\ \/ e = "join" /\ belief' = [belief EXCEPT ![n] = "alive"]
             \/ e = "leave" /\ belief' = [belief EXCEPT ![n] = "dead"]
             \/ e = "update" /\ belief' = belief
    BY <1>6, Zenon DEF NotifyJoin, NotifyLeave, NotifyUpdate
  <2>2. /\ belief' \in [Watcher -> {"alive", "dead", "unknown"}]
        /\ \A m \in Watcher : belief'[m] = belief[m] \/ (m = n /\ (belief'[m] = "dead" => e = "leave"))
    BY Zenon, <1>0, <2>1
  <2>3. Types' /\ (missed => missed')
    BY <1>0, <2>1, <2>2, TrySendFacts, Zenon
  <2>4. ~missed' => \A m \in Watcher : (Doomed(m) \/ (m = n /\ e = "leave")) => Doomed(m)'
    BY <2>1, TrySendFacts, Zenon DEF Doomed
  <2>5. Pending'
    BY <1>0, <1>1, <2>1, <2>2, <2>3, <2>4, Zenon
  <2> QED
    BY Zenon, <1>2, <2>3, <2>5
<1>7. ASSUME NEW n \in Watcher, TakeEvent(n) PROVE LeaveInv'
  <2>1. UNCHANGED <<belief, missed, relaunches>>
    BY Zenon, <1>7 DEF TakeEvent
  <2>2. Types' /\ \A m \in Watcher : Doomed(m) => Doomed(m)'
    BY <1>0, <1>7, <2>1, TakeEventFacts, Zenon
  <2>3. Pending'
    BY <1>0, <1>1, <2>1, <2>2, Zenon
  <2> QED
    BY Zenon, <1>2, <2>2, <2>3
<1>8. ASSUME NEW n \in Watcher, DeleteByNode(n) PROVE LeaveInv'
  <2>1. UNCHANGED <<belief, channel, missed, relaunches>> /\ job' = [job EXCEPT ![n] = NoJob]
    BY Zenon, <1>8 DEF DeleteByNode, watch
  <2>2. ~LiveCopy(n)'
    <3>1. CASE LiveCopy(n)
      BY Zenon, <1>8, <3>1 DEF DeleteByNode, LiveCopy, Version, BurialInv
    <3>2. CASE ~LiveCopy(n)
      BY <1>1, <3>2
    <3> QED
      BY <3>1, <3>2
  <2>3. \A m \in Watcher : m # n /\ Doomed(m) => Doomed(m)'
    BY Zenon, <2>1 DEF Doomed, BurialInv
  <2>4. Types' /\ Pending'
    BY <1>0, <1>1, <2>1, <2>2, <2>3, Zenon
  <2> QED
    BY Zenon, <1>2, <2>4
<1>9. ASSUME NEW n \in Watcher, PruneFails(n) \/ Relaunch(n) PROVE LeaveInv'
  <2>1. CASE PruneFails(n)
    <3>1. missed' = TRUE /\ UNCHANGED <<belief, channel, relaunches>>
      BY <2>1, Zenon DEF PruneFails
    <3>2. Types' /\ Pending'
      BY <1>0, <3>1, Zenon
    <3> QED
      BY Zenon, <1>2, <3>2
  <2>2. CASE Relaunch(n)
    <3>1. /\ relaunches' = relaunches + 1 /\ UNCHANGED missed
          /\ belief' = [belief EXCEPT ![n] = "unknown"] /\ channel' = [channel EXCEPT ![n] = <<>>]
      BY <2>2, Zenon DEF Relaunch
    <3>2. relaunches' \in Nat /\ relaunches' # 0
      BY <1>0, <3>1
    <3>3. /\ belief' \in [Watcher -> {"alive", "dead", "unknown"}]
          /\ channel' \in [Watcher -> Seq({"join", "leave", "update"})]
          /\ \A m \in Watcher : Len(channel'[m]) <= Cap
      BY <1>0, <3>1, MembershipAssumption
    <3>4. Types' /\ Pending'
      BY <1>0, <3>1, <3>2, <3>3, Zenon
    <3> QED
      BY Zenon, <1>2, <3>4
  <2> QED
    BY <1>9, <2>1, <2>2
<1> QED
  BY <1>4, <1>5, <1>6, <1>7, <1>8, <1>9, Zenon DEF MemberNext

\* Whoever believes the node dead and still holds its live row has the leave
\* in its channel or its handler, where every watcher has met the node and no
\* clock is behind its own.
THEOREM BurialsArePending ==
  ASSUME FastClocks, Met = Watcher
  PROVE  MemberSpec => []BurialIsPending
<1>1. MemberInit => LeaveInv
  <2> SUFFICES ASSUME MemberInit PROVE LeaveInv
    OBVIOUS
  <2>1. \A n \in Watcher : channel[n] = <<"join">> /\ belief[n] = "alive" /\ copy[n] = Version(1, FALSE)
    BY Zenon DEF MemberInit
  <2>2. /\ channel \in [Watcher -> Seq({"join", "leave", "update"})]
        /\ belief \in [Watcher -> {"alive", "dead", "unknown"}]
        /\ missed \in BOOLEAN /\ relaunches \in Nat
    <3>1. <<"join">> \in Seq({"join", "leave", "update"})
      OBVIOUS
    <3> QED
      BY <3>1, Zenon DEF MemberInit
  <2>3. 1 \in Nat /\ 1 <= MaxBeat /\ Len(<<"join">>) <= Cap
    BY MembershipAssumption
  <2>4. \A n \in Watcher : copy[n] # NoCopy
    BY Zenon, <2>1, <2>3, Heartbeats
  <2> QED
    BY Zenon, <2>1, <2>2, <2>3, <2>4 DEF LeaveInv, BurialIsPending
<1>2. BurialInv /\ LeaveInv /\ [MemberNext]_memberVars => BurialInv' /\ LeaveInv'
  BY BurialStep, LeaveStep
<1>3. LeaveInv => BurialIsPending
  BY DEF LeaveInv
<1> QED
  BY <1>1, <1>2, <1>3, BurialInit, PTL DEF MemberSpec
=============================================================================
