# takl in TLA+

takl is a fleet registry: every node runs `takld`, which keeps a SQLite
database of *rows* (runners and their labels) and *events*, writes its own
runner into it, and pulls the rest from its peers. There is no leader. Rows are
last-writer-wins registers ordered by a hybrid logical clock (HLC), with the
owner string as tiebreak; a pull asks for what is above a per-peer *watermark*
and falls back to everything when a checksum differs. This directory models
that machinery and what runs around it (the daemon, gossip, the read API, the
certificate tool), checks it with TLC on small instances and proves every safety
property that holds with TLAPS for every instance.

## The system: inventory

| Part | State | Operations that change state | Where | Module |
|---|---|---|---|---|
| HLC | last timestamp `(ts, seq)` of a process; in memory only | `Tick`, `Update` | `internal/model/hlc.go` | `HLC` |
| Store | tables `rows`, `events_v2`, `watermarks`; durable | `Put`, `Delete`, `DeleteByNode`, `GCTombstones`, `ApplyRemote`, `AppendEvent`, `ApplyEvents`, `SetWatermark` | `internal/engine/store/store.go` | `Store` |
| Agent | epoch, drain counters | `Start`, `Step`, membership handler | `internal/agent/agent.go` | `Replication` (every tick and write), `Drain` (the counters), `Membership` (the handler) |
| Backend stub | none | none (reads the host's sensors) | `internal/backend/stub/stub.go` | `Drain` |
| Label API | none between requests | PUT and DELETE labels | `internal/api/api.go` | `Replication` |
| Read API, placement | none between requests | none | `internal/api/api.go` | `QueryApi`, `Placement` |
| Sync engine | rounds under way | `roundAll`, `RoundOnce`, `gcTombstones` | `internal/engine/sync/sync.go` | `Replication` |
| Sync server | none | none (answers a pull) | `internal/transport/server.go` | `Replication` |
| Sync client | connection per address | `conn`, `Pull`, `Close` | `internal/transport/client.go` | `ConnCache` |
| Membership | SWIM list (library), a channel of 256 events | `trySend` and the callbacks, `Members`, `Shutdown` | `internal/membership` | `Membership`, `Daemon` |
| Configuration, TLS set-up | none | none | `internal/config`, `internal/transport/tls.go` | `Settings` |
| Daemon | goroutines, shutdown order | start, failures, signal, stop | `cmd/takld/main.go` | `Settings`, `Daemon` |
| CLI | certificate and key files | `ca init`, `ca issue` | `cmd/taklctl/main.go` | `Certs` |
| Metrics, version, generated gRPC code | | | | not modelled |

How they interact: agent, membership handler, HTTP handlers and one goroutine
per peer of a sync round share one clock (a mutex) and one store (one
connection, `SetMaxOpenConns(1)`). Each call on either is atomic; nothing spans
two calls. Every writer takes its HLC first and writes later; a pull commits
its rows first and moves the clock later. Across nodes only `Pull` moves data.

What is hard here, and which property watches it:

- a row written with an HLC taken before a peer's pull is born below that
  peer's watermark; rows and events relayed by a third node arrive in any HLC
  order: `RowsConverge`, `EventsConverge`;
- a restart starts the clock at zero, the wall clock may stand still or step
  back: `VersionsAgree`;
- the window between `ApplyRemote` and `clock.Update`: `ClockCoversStore`;
- late, repeated and full answers, lost answers, failures in the middle of a
  round: `WatermarkNeverRegresses`, `PullNeverRegresses`;
- a crash between `AppendEvent`, `ApplyEvents` and `SetWatermark`, numbers from
  `MAX(seq) + 1`: `EventIdentity`, `OwnLogComplete`;
- unconditional local writes: `HigherHLCWins`, `PutMergesLabels`;
- what the checksum does not see: `MatchMeansInSync`;
- the one connection of the pool, held by an open list: `EveryRequestAnswered`,
  `ConnectionHeldByOpenList`; answers put together from several store calls,
  pages read while rows come and go: `AnswersAreReal`, `WalkMissesNothing`;
- a connection that changes state by itself and is shared by pulls:
  `NoConnectionLost`, `PullsRecover`;
- a Leave that is overtaken by a stale row or a Join, or dropped:
  `BurialIsFinal`, `BurialIsPending`, `DeadNodesVanish`;
- counters that reset each other, sensors that fail, Puts that fail:
  `DrainsAfterAFullRun`, `StatusFollowsLoad`;
- deferred calls in reverse order, grace periods, goroutines that fail alone:
  `StoreOutlivesHandlers`, `EndsAsAWhole`;
- settings from three places that decide what peers are told:
  `AdvertisesAHost`;
- a certificate tool cut off between two files: `IssuedVerifies`.

`PROJECT.json` lists the hazards one by one, each at its line.

## Modules

- **`HLC`**: `Compare`/`After`, `Tick`, `Update`, `maxHLC` as operators. A
  clock's state is a timestamp. `Tick(c, now)` takes the wall-clock reading as
  an argument.
- **`Store`** (extends `HLC`): a database's tables as values, each query or
  transaction as an operator. `OwnerAbove` (Go's string order on owners) and
  the two checksums are constants, so the proofs hold for every order and every
  hash. A checksum is kept as the set it hashes and compared through
  `RowChecksum`/`EventChecksum`.
- **`Replication`** (extends `Store`): the fleet. One action per step of each
  goroutine, where a step is one call on clock or store.

  | Variable | Code |
  |---|---|
  | `rows`, `events`, `wm` | the three tables of each node; survive `Restart` |
  | `clock`, `epoch` | the process's `Clock`; the agent's random epoch |
  | `agent` | `Start` (Tick, Put, emit) and `Step` (Tick, Put) with the HLC in hand |
  | `member` | `handleMembershipEvents`: Tick, `DeleteByNode`, emit |
  | `api` | label requests: PUT reads and merges, Ticks, Puts; DELETE Ticks, deletes |
  | `engine` | `Run`: a round, then GC (not after the first round) |
  | `round[n][p]` | `RoundOnce` of n with p: send, serve, `ApplyRemote`, `Update`, `ApplyEvents`, `SetWatermark`, `Update`, or failure |

- **`Broadcast`**: the abstract event log. A node numbers its own events 1, 2,
  3, ... and gathers events that exist; it forgets none. `Replication`
  instantiates it with `known <- events`, and `LogIsBroadcast` says that the
  fleet implements it.
- **`Placement`**: pages, label matching, candidates, scores, rankings and totals
  as operators. A loop that keeps some elements of a list is `Among(list, I)`, the
  elements at the positions in `I`; `MCQueryApi` checks on every run that it
  agrees with `SelectSeq` (`AmongFilters`). **`QueryApi`** (extends it): the read requests as the store calls
  they make. `conn` is the pool's one connection; `req[q]` is a handler with
  what it has read so far; `past` is every content the store has had, so that a
  property can say of which moment an answer is. `Workload` maps the database a
  behaviour starts on to the requests and writes that may follow.
- **`ConnCache`**: `Client`. `conns` and `lock` are the map and its mutex, `state`
  is gRPC's, `pull[c]` is where a caller is: before `conn`, after its look
  (still holding the mutex), in the call, done.
- **`Membership`**: one node's row in the stores of the nodes that watch it.
  `belief` is the memberlist's, `channel` the delegate's bounded channel, `job`
  the handler, `round` a pull. A deletion that fails (the handler only logs it)
  and a round that fails are actions of their own.
- **`Drain`**: `Start` and `Step` over a host's load and its sensors; `past` is a
  history of the last readings.
- **`Settings`**: `config.Default`, `Load`, the flags, and the functions of
  `main.go` over addresses, as operators; **`Daemon`** (extends it): `main` from
  the checks to the exit.
- **`Certs`**: the files of `ca init` and `ca issue`, written one after the other.
- **`MC...`**: constants for the runs and the instances.
- The proofs:

  | Module | Holds |
  |---|---|
  | `StepProofs` | clock and store operators (order, types, `ApplyRemoteIsJoin`); what each goroutine's steps may write (`AgentFrame`, `PullFrame`, ...); `PendingInv` is kept; who may have written a row of the next state |
  | `VersionProofs` | `VersionInv`, `CoverInv` are kept; pulls never regress |
  | `FleetProofs` | `TypeInv` (the theory of finite sets is only needed here), `WatermarksGrow`; `LogInv` is kept; the temporal theorems; the refinement of `Broadcast` |
  | `PageProofs` | what `Among`, a page, the candidates, a ranking, a page of the log and a row with labels merged over it are |
  | `ListProofs` (extends it) | `QueryInv`, and that writes and the steps up to the end of the list keep it |
  | `QueryProofs` (extends it) | that the other steps keep `QueryInv`; the five properties of `QueryApi` |
  | `DaemonProofs` | what the address functions return; `ShutdownInv` is kept; the two properties of `Daemon` |
  | `ComponentProofs` | `ConnCache`, `Drain`, `Certs` and `Membership`, which share no state; their definitions have names of their own (`CacheSpec`, `DrainSpec`, `CertsSpec`, `MemberSpec`, ...) so that one module can be about all four |

### Abstractions

- A payload is a set of facts: a runner's status, or the labels present. Label
  values and a PUT that overwrites a label's value are not distinguished.
- An owner is a node and an epoch: `<node>/<epoch>` for the agent, epoch 0 for
  `api/<node>`. Epochs are drawn at random in the code and never repeat here.
  `LIKE 'id/%'` selects the agent owners of one id; ids with LIKE wildcards are
  left out.
- `Wall[n]` holds the readings the wall clock of n may give, in any order, so it
  may step back. An empty set makes a node that only pulls and serves.
- The request is one step: it reads all watermarks (only this round writes
  them) and all checksums at once. The server's answer is one step over all
  kinds. Label PUT's two reads are one step, and so are the read and the write
  of `Store.Delete` and of `SetWatermark`. The code has single statements
  there, so interleavings inside these steps are not explored.
- A store call that fails leaves the tables as they were: `UNCHANGED` disjuncts
  where the code logs and goes on, `RoundFails` where it gives up the round. A
  failed `Start` stops the daemon, which is `Restart`. A peer missing from the
  provider is a round that fails at its start.
- Membership reports come in any order and any number, also of live nodes. A
  node is told that it has left itself only while it shuts down; this is left
  out. The HLC of a peer's report is taken when the handler reads it.
- `Tables` selects the tables an instance follows, so that a run about rows
  does not carry the events. Followed or not, every goroutine takes every step.
- Bounds: `Wall`, `MaxSeq` (clock), `MaxEpoch` (incarnations), `MaxEvents`.
  When a clock is at its bound `GCTick` lets the engine go on without a
  timestamp, because the loop must not stop for a bound. int64 overflow is out
  of reach of the program.
- `QueryApi`: the rest of the daemon is a `Write` that takes and returns the
  connection in one step. Payloads that do not decode are left out. Loads are
  percent and scores thousandths, so the score formula is exact; the jitter of a
  run is its two extremes, that of the proofs any the code can draw. Counts are
  Go ints: `handleBestRunner` refuses a runner with `AvailableWorkers == 0` only,
  and nothing keeps a configured capacity from being negative, so what
  `PlacementIsSound` says of a chosen runner is that its count is not zero.
- `ConnCache`: a closed connection that nobody refers to may be made again, so
  that finitely many suffice. gRPC's state machine is external: idle, connecting,
  ready, transient failure, shutdown.
- `Membership`: HLCs are numbers and a pull brings the one row, one pull at a time
  per node (concurrent rounds are in `Replication`). The memberlist is a failure
  detector that may be wrong while the subject lives and is right in the end.
- `Drain`: the counters stop at the threshold, above which the code only compares
  them.
- `Settings`: an address is its host. Hosts are empty, a name, or a literal
  unspecified, loopback, IPv4 or IPv6 address; the unspecified address in a
  spelling other than `0.0.0.0` and `::` (which `advertisedAddr` does not
  recognise) is left out.
- `Daemon`: a server counts its calls, up to `MaxCalls`. `os.Exit` and a panic end
  every goroutine at once; so does returning from `main`.
- `Certs`: a key pair is a number, a certificate names its key and its signer's.
  One operator runs one command at a time in one directory.

## Runs

| Run | Instance | What it shows |
|---|---|---|
| `RestartRows` | 2 nodes pulling from each other, a frozen wall clock, 2 incarnations, 2 statuses | `VersionsAgree`, `WatermarkNeverRegresses`, `PullNeverRegresses` |
| `RestartEvents` | 2 nodes, both emitting, 2 incarnations each | `EventIdentity`, `OwnLogComplete`, and the refinement `LogIsBroadcast` |
| `Fleet` | 2 nodes, both tables, reports of every type, GC | `TypeOK`, `ClockCoversStore` |
| `Labels` | a node with agent, label requests and GC, a peer that pulls | `VersionsAgree`, `ClockCoversStore` |
| `RowsConverge` | ring of 3, two writers with skewed clocks, the third relays | liveness of rows |
| `EventsConverge` | the same ring | liveness of events |
| `Reads` | five workloads on three runner ids of two regions, see below; fair | `ConnectionHeldByOpenList`, `EveryRequestAnswered`, `AnswersAreReal`, `PlacementIsSound`, `WalkMissesNothing`, `EventPageIsNewest` |
| `Lifecycle` | a host without a network card, config files that set every address, start every mode or are refused, five sets of flags, 2 calls per server; fair | `AdvertisesAHost`, `StoreOutlivesHandlers`, `EndsAsAWhole` |
| `DeadNodes` | 2 watchers that both hold the row, a channel of 2, 2 heartbeats, one belief taken back, one restart; fair | `BurialIsPending`, `BurialIsFinal`, `DeadNodesVanish` |
| `HigherHLCWins` | leave reports and pulls | violated, see below |
| `MatchMeansInSync` | two label writers in one millisecond | violated |
| `PutMergesLabels` | one node, two requests | violated |

The workloads of `Reads`: *Reading*, one request of any kind against two writes
of runners and labels; *Serving*, two requests at once and a write; *Placing*,
placements by region, by label, with an empty label value and with a filter
without a colon, over six mixes of active, full and draining runners, the jitter
at its extremes; *Walking*, a client going through pages of 1 or of 2 while
runners join or leave, three writes; *Logging*, limits 0 to 2 and three events,
two with one HLC.

`ConnCache`, `Drain` and `Certs` are components on their own, and what matters
most about them is proved for every instance. Each has one instance besides, to
try a change on before proving it again, and for the two liveness properties,
which are out of the prover's reach:

| Instance | Command | Checks |
|---|---|---|
| 2 callers of one address, 3 connections, 2 outages | `tlc -config Pulling.cfg MCConnCache` | `NoConnectionLost`, `PullsRecover` |
| loads one unit on each side of every limit, threshold 5, 1 restart | `tlc -config Draining.cfg MCDrain` | `DrainsAfterAFullRun`, `StatusFollowsLoad` |
| 2 nodes, 6 key pairs | `tlc -config Certificates.cfg MCCerts` | `IssuedVerifies` |

All three pass (22,569, 10,048 and 24,457 states), and each evaluates the
assumption its proofs start from.

Why the bounds are enough for the question each run asks. A frozen clock with
three sequence numbers and two incarnations makes an old and a new incarnation
use the same HLC, which is the case `VersionsAgree` is about. Two statuses make
two payloads under one version visible. Uneven clocks (`UnevenWall`) give one
node a reading the other has not, so pulled rows are ahead of the puller's
clock. In the ring a row with `ts = 1` reaches b, and from b the third node,
after that node's watermark for b stands at 2, so only the checksum fallback
can deliver it: with the fallback removed both liveness runs fail. `Grace` is
at most 2 clock units, which puts the GC cutoff on both sides of zero. The
checksum in the runs has no collisions.

Elsewhere: two callers of one address are the fewest that race for one map entry.
A channel of 2 that starts with the Join of the subject is full after one more
event. A threshold of 5 is the code's. Six key pairs make two CAs and a
certificate of each for both nodes, with commands cut off in between. Three ids make a page
boundary that a joining runner shifts; `WalkMissesNothing` claims nothing of a
walk that does not begin at the start of the list, or during which a runner
disappears. Loads nine and ten points apart are on
both sides of what the jitter can reorder.

Deadlock is checked in `Replication`, and in the instances of `ConnCache` and
`Drain`: also with all clocks at their bound the engines go on. It is not checked
elsewhere. A daemon ends; a slot of `QueryApi` serves one request, or one walk
through the pages, and is done; `Certs` stops when its key pairs are used up, and
`Membership` may come to rest at its bounds.

**Fairness** (`FairSpec`, or `CacheFairSpec`, `DrainFairSpec`, `MemberFairSpec`):

- `Replication`: weak fairness of the engine's loop, which a ticker drives, and
  of each pull under way, which has a deadline; and from some moment on no pull
  fails, without which nothing can be promised. Writes, reports and restarts are
  not forced. Clock bounds end the writing, so the liveness runs say what
  happens once writing stops. They do not cover tombstones, two rows with one
  HLC, or a peer that keeps writing.
- `QueryApi`: a handler that needs nothing goes on; one that waits for the
  connection gets it if it is free again and again. `database/sql` hands a
  returned connection to one of the waiters; that it passes over none of them
  for ever is an assumption about the library.
- `ConnCache`: Go's mutex starves nobody, gRPC goes on dialling while a connection
  is used, a call ends at its deadline, and a server that is up does not miss
  every deadline. Failures and outages are not forced.
- `Membership`: the memberlist finds out that a dead node is dead, and the
  handler goes on. Rounds may fail or stop.
- `Drain`: the ticker goes on and not every Put fails for ever.
- `Daemon`: `main` goes on and its two timers fire. That a call ends is not
  assumed.

`DeadNodesVanish` says what it needs: no dropped event, no failed deletion, no
restart of a watcher (which gets no Leave for a node that died while it was
down), every watcher holding the row from the start (`Met = Watcher`), and
handlers that read a later time than the subject's last heartbeat
(`FastClocks`). Without the last two it fails as well: a watcher can receive the
row after it has handled the Leave, and a Leave whose HLC was taken between
`ApplyRemote` and `clock.Update` can be below the row that it buries, which a
peer then sends again. `FastClocks` also leaves out the subject that was wrongly
believed dead and comes back by going on to beat, which is as it should be.
`BurialIsFinal` needs `FastClocks` alone, `BurialIsPending` needs everything but
the fairness.

### What the documents say and the code does not do

- *"The row with the higher HLC timestamp wins."* (`docs/architecture.md:40`)
  `Put`, `Delete` and `DeleteByNode` do not compare. A Leave handler takes its
  HLC, a pull stores a newer row of that node, `DeleteByNode` replaces it with
  the older HLC (`HigherHLCWins`).
- *"If the checksums match, everything is perfectly in sync."* (`:59`) The
  checksum covers key and HLC of live rows, not owner or payload
  (`MatchMeansInSync`).
- *"set/merge custom labels on a node"* (`README.md:138`) Two concurrent PUTs
  both read, then both write: one label is lost (`PutMergesLabels`).

Other places where the models follow the code and a reader of the documents would
expect something else; no run is about them:

- A checksum mismatch leads to a full answer only if nothing is above the
  watermark and the caller's checksum is not 0 (`docs/architecture.md:60`; the
  guard is `NeedsFull` in `Replication`).
- A missing label reads as the empty string, and a filter without a colon is
  ignored (`docs/architecture.md:86`; `MatchLabels`).
- With gossip on, the default, the configured peers are not used
  (`cmd/takld/main.go:44`; `Daemon` only decides whether the engine runs,
  `Synchronises`, and leaves the list of peers to `Replication`).
- The default sync address 127.0.0.1:8100 is advertised as it is; only an empty
  or wildcard host is replaced (`docs/v2-plan.md:31`; `AdvertisedAddr`).
- A watcher that was down when a node died keeps that node's row
  (`docs/architecture.md:20`; `Relaunch` in `Membership`).
- A disk that cannot be read counts as full (`docs/architecture.md:69`;
  `Snapshot`).
- A tombstone is purged by age, and a peer that has not pulled it by then brings
  the row back (`docs/architecture.md:44`; `GC` steps of `Replication`).
- Event numbers start again at 1 on an empty database, and peers that hold the
  old ones drop the new events (`README.md:140`; `NextSeq`, `ApplyEvents`; a
  replaced database is not an action).

## Proofs

For every finite set of nodes, every peer list, owner order, checksum, set of
wall-clock readings and bound (`StoreAssumption`, `ReplicationAssumption`):

| Theorem | Statement |
|---|---|
| `AfterIsTotalOrder`, `TickIsLater`, `UpdateIsJoin` | the clock's order and its two operations |
| `ApplyRemoteIsJoin` | a batch ends every key at the newer version; twice is once |
| `TypeCorrect` | `Spec => []TypeOK` |
| `WatermarksGrow` | `Spec => WatermarkNeverRegresses` |
| `EventsAreNamed`, `OwnLogsComplete` | `Spec => []EventIdentity`, `Spec => []OwnLogComplete` |
| `VersionsNameContent` | `Spec => []VersionsAgree` |
| `ClocksCoverStores` | `Spec => []ClockCoversStore` |
| `PullsNeverRegress` | `Spec => PullNeverRegresses`, if `OwnerAbove` is asymmetric |
| `LogsBroadcast` | `Spec => LogIsBroadcast`: the fleet's logs implement `Broadcast` |

For every set of addresses, callers and connections (`ConnCacheAssumption`),
every set of loads and every threshold (`DrainAssumption`), every set of nodes
and number of key pairs (`CertsAssumption`; these three are hypotheses of the
theorems), every set of watchers, channel capacity, number of heartbeats, false
alarms and restarts (`MembershipAssumption`):

| Theorem | Statement |
|---|---|
| `NoConnectionIsLost` | `CacheSpec => []NoConnectionLost` |
| `DrainsAfterFullRuns` | `DrainSpec => DrainsAfterAFullRun` |
| `IssuedAlwaysVerifies` | `CertsSpec => []IssuedVerifies` |
| `BurialsAreFinal` | `MemberSpec => BurialIsFinal`, if `FastClocks` |
| `BurialsArePending` | `MemberSpec => []BurialIsPending`, if `FastClocks` and `Met = Watcher` |

For every set of requests, every sequence of runner ids without repetition, every
set of label keys, every jitter from -5 to just under 5 points and every workload
whose databases, writes and requests are well typed (`PlacementAssumption`,
`QueryApiAssumption`: a row stands under its own runner's key, the log is
finite, a missing value is no string):

| Theorem | Statement |
|---|---|
| `ConnectionReturned` | `Spec => []ConnectionHeldByOpenList` |
| `AnswersComeFromTheStore` | `Spec => []AnswersAreReal` |
| `PlacementsAreSound` | `Spec => []PlacementIsSound` |
| `WalksMissNothing` | `Spec => []WalkMissesNothing` |
| `EventPagesComeFromTheLog` | `Spec => []EventPageIsNewest` |

For every set of config files and flags, every answer of the resolver, every list
of interfaces and every bound on calls (`SettingsAssumption`, `DaemonAssumption`,
which gives a file or a flag that sets the advertised address a host to set it
to):

| Theorem | Statement |
|---|---|
| `AdvertisedAddressIsReal` | `Spec => []AdvertisesAHost` |
| `StoreClosedLast` | `Spec => []StoreOutlivesHandlers` |

Inductive invariants:

- `TypeInv` = `TypeOK`, finite logs, and a pull past its answer has something to
  apply. `Latest` of a batch is a timestamp only if the batch is finite and not
  empty; that is where types depend on control.
- `LatestInv`, which `TypeInv` implies: a batch in hand has a latest HLC. It
  keeps the theory of finite sets out of the other modules.
- `LogInv`: every event, stored *or in flight*, is in its emitter's own log,
  where seq is a key without gaps. So a pull never brings a node an event of
  its own that it lacks, and `MAX(seq) + 1` is fresh in the whole fleet.
- `PendingInv`: an HLC in a goroutine's hand is at or below the clock.
- `VersionInv`: over `Versions`, the live rows in stores and in flight. What
  carries an agent's current epoch is older than the HLC the agent is about to
  write with; of a node's label versions in its first life none has the HLC of
  a request still to be written, and no two such requests share one. Older
  epochs write no more.
- `CoverInv`: in a node's first life each row is at or below the clock, or at
  or below a row of a batch whose clock update is still to come.
- The refinement needs no more than `LogInv`: an `AppendEvent` is `Emit`, because
  the node's own numbers have no gap and its log lacks nothing it has emitted;
  `ApplyEvents` is `Learn`, because what is in flight is in its emitter's log;
  every other step leaves the logs alone, a restart included.
- `ConnInv`: a caller between its look and its decision holds the mutex, and the
  map still holds what it looked at; a connection is in the map under no address
  but its own. That `conn` keeps the mutex over both is what the proof rests on.
- `DrainInv`: each counter is the length of the run of equal readings the history
  ends with, which takes two facts, that the last readings are equal and that
  the one before them is not; and a full run has been acted on.
- `CertInv`: a running `ca issue` was signed with the key of the CA's certificate,
  which nothing changes while it runs, and its certificate is on disk before its
  key is written.
- `BurialInv`: every copy of the row, in a store *or in a pull under way*, is
  either alive with an HLC that a heartbeat of the subject can have, or a
  tombstone with one above them all (`Descends`), as is the HLC that a handler is
  about to write. A merge takes the higher HLC, so nothing alive can replace a
  tombstone; that the answer in flight is covered is what makes this hold when it
  was served before the burial and arrives after it.
- `LeaveInv`: each watcher holds a copy, no channel is over its capacity, and
  `BurialIsPending`. A Leave stays in the channel until the handler takes it
  (`TakeEventFacts`), the handler holds it until
  `DeleteByNode` makes the copy a tombstone, and by `BurialIsFinal` that copy does
  not become alive again.
- `QueryInv` says of each request, at each of its steps, what it has read so far.
  An answer's rows and labels come from several store calls with writes between
  them, so the invariant names the moment: while the list is open, what was
  scanned and what is left in the cursor make up the rows of one moment `i`
  (`ScanOf`); afterwards the items are those rows, and an item before `next` has
  the labels of a moment between `i` and now over its own, unless their lookup
  failed (`MergeOf`). That ids do not repeat within a list is what lets `lost`
  speak of one row. Writes only add moments, so they keep all of this.
  For the walk, positions matter: as long as nobody disappears a runner's rank
  among the live ones can only grow (`RankMonotonic`). So a runner that was there
  from the first is in a page already given, or its rank is above the offset
  (`Ahead`); once the page is open it is in the page or beyond it, and then the
  page is full (`Beyond`); an answer that is not full has nobody beyond it
  (`Complete`). `WalkMissesNothing` alone says nothing of requests still under
  way, from which the next answer follows. TLC finds no violation of `QueryInv` in
  the instance of `Reads`.
- `ShutdownInv`: the order of the deferred calls. A server that `main` has stopped
  has no calls left or has run out of grace, takes no new ones, and both are
  stopped before `main` gets as far as `st.Close`; until `main` listens neither
  server is on. `AdvertisesAHost` needs no more than that the settings never
  change after `Init`: it is a lemma about the address functions.

Only model-checked: the liveness properties (`RowsConverge`, `EventsConverge`,
`EveryRequestAnswered`, `EndsAsAWhole`, `DeadNodesVanish`, `PullsRecover`,
`StatusFollowsLoad`; fairness is out of the prover's reach) and the violations.
The sums of `ClusterTotals` are folds, about which a proof would need induction
over the list; no property is about them. `NoConnectionLost`, `DrainsAfterAFullRun` and
`IssuedVerifies` are proved and have no run beyond the instances above.

## Not modelled

- Generated gRPC code, metrics, version: no behaviour of their own that anything
  here depends on.
- The CLI's query commands and `keygen`: they print what they get.
- `healthz`, the text of `/metrics`, the pprof endpoints and their token check.
- JSON, YAML, SQL and PEM as formats; payloads that do not decode.
- A node that starts again on a new database under its old name.
- Libraries: SWIM, gRPC, TLS and SQLite appear as what the code relies on.
- The XOR of the checksum: the runs use one without collisions, the proofs hold
  for any, and `MatchMeansInSync` is about what no such checksum sees.
- Convergence of a fleet in which a node keeps writing, or in which two writers
  share an HLC. In the second case `MatchMeansInSync` ends in two stores that
  differ under equal checksums.
