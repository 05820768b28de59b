---------------------------- MODULE Replication ----------------------------
(***************************************************************************)
(* A fleet of takld nodes: each has a store, a hybrid logical clock, an    *)
(* agent that reports the node's runner (internal/agent/agent.go), an HTTP *)
(* API that writes labels (internal/api/api.go), and a sync engine that    *)
(* pulls from its peers (internal/engine/sync/sync.go) what their Pull     *)
(* handler serves (internal/transport/server.go).                          *)
(*                                                                         *)
(* Every goroutine takes its HLC from the clock in one step and writes the *)
(* store in a later one; a pull applies its rows in one transaction and    *)
(* moves the clock in a later step.  What happens between those steps is   *)
(* what this module is about.                                              *)
(***************************************************************************)
EXTENDS Store

CONSTANTS
  Peers,       \* Peers[n]: whom node n pulls from (the peer provider)
  Req,         \* HTTP requests a node serves at the same time
  Status,      \* runner statuses a Step may report, "active" among them
  Label,       \* labels a request may set
  Reports,     \* membership events <<type, node>> SWIM may deliver
  Tables,      \* the tables an instance follows, of {"rows", "events"}
  Grace,       \* age, in clock units, at which a tombstone is collected
  Wall,        \* bound: Wall[n], the readings of node n's wall clock
  MaxSeq,      \* bound: highest sequence number a clock reaches
  MaxEpoch,    \* bound: incarnations of one node
  MaxEvents    \* bound: events one node emits for membership reports

ASSUME ReplicationAssumption ==
  /\ Peers \in [Node -> SUBSET Node]
  /\ Status \subseteq Attr /\ "active" \in Status /\ Label \subseteq Attr
  /\ Reports \subseteq {"join", "leave", "update"} \X Node
  /\ Wall \in [Node -> SUBSET Nat]
  /\ Grace \in Nat /\ MaxSeq \in Nat /\ MaxEpoch \in Nat /\ MaxEvents \in Nat

VARIABLES
  rows, events, wm,   \* the tables of each node's database; survive a crash
  clock,              \* each node's Clock
  epoch,              \* each agent's epoch; a restart draws a new one
  agent, member,      \* the agent loop and the membership handler
  api,                \* label requests being served
  engine,             \* the engine's loop: rounds and tombstone GC
  round               \* RoundOnce of each node with each of its peers

durable  == <<rows, events, wm>>
handlers == <<agent, member, api>>
pulls    == <<engine, round>>
vars     == <<rows, events, wm, clock, epoch, agent, member, api, engine, round>>

WmKind == Kind \cup {"event"}

\* The goroutines of a process that has just started, or between two jobs.
NewAgent     == [pc |-> "boot", hlc |-> Zero]
NoReport(n)  == [pc |-> "idle", type |-> "joined", about |-> n, hlc |-> Zero]
NoRequest(n) == [pc |-> "idle", id |-> n, payload |-> {}, hlc |-> Zero]
NewEngine    == [pc |-> "firstRound", min |-> 0]
NoRound      == [pc |-> "done", sums |-> [k \in Kind |-> {}], evSum |-> {},
                 batch |-> EmptyTable, evs |-> {}]

\* roundAll: a RoundOnce for each peer.
NewRounds(n) == [p \in Node |-> IF p \in Peers[n] THEN [NoRound EXCEPT !.pc = "start"]
                                                 ELSE NoRound]

AgentState   == [pc : {"boot", "startPut", "startEmit", "ready", "stepPut"}, hlc : Timestamp]
MemberState  == [pc : {"idle", "prune", "emit"}, type : {"joined", "left"},
                 about : Node, hlc : Timestamp]
RequestState == [pc : {"idle", "merged", "put", "delete"}, id : Node,
                 payload : SUBSET Attr, hlc : Timestamp]
EngineState  == [pc : {"firstRound", "rest", "round", "gc"}, min : Nat]
RoundState   == [pc : {"done", "failed", "start", "sent", "applyRows", "updateRows",
                       "applyEvents", "setWatermark", "updateEvents"},
                 sums : [Kind -> SUBSET (Node \X Timestamp)],
                 evSum : SUBSET (Node \X Nat \X Timestamp),
                 batch : Table, evs : SUBSET Event]

\* Every variable has the shape the code gives it; in particular no cutoff of
\* the tombstone GC is negative (gcTombstones' ts > grace).
TypeOK ==
  /\ rows \in [Node -> Table]
  /\ events \in [Node -> SUBSET Event]
  /\ wm \in [Node -> [Node -> [WmKind -> Timestamp]]]
  /\ clock \in [Node -> Timestamp]
  /\ epoch \in [Node -> Nat \ {0}]
  /\ agent \in [Node -> AgentState]
  /\ member \in [Node -> MemberState]
  /\ api \in [Node -> [Req -> RequestState]]
  /\ engine \in [Node -> EngineState]
  /\ round \in [Node -> [Node -> RoundState]]

Init ==
  /\ rows = [n \in Node |-> EmptyTable]
  /\ events = [n \in Node |-> {}]
  /\ wm = [n \in Node |-> [p \in Node |-> [k \in WmKind |-> Zero]]]
  /\ clock = [n \in Node |-> Zero]
  /\ epoch = [n \in Node |-> 1]
  /\ agent = [n \in Node |-> NewAgent]
  /\ member = [n \in Node |-> NoReport(n)]
  /\ api = [n \in Node |-> [q \in Req |-> NoRequest(n)]]
  /\ engine = [n \in Node |-> NewEngine]
  /\ round = [n \in Node |-> NewRounds(n)]

\* A write to a table the instance does not follow leaves no trace.
Follow(table, new, old) == IF table \in Tables THEN new ELSE old

\* The timestamps Clock.Tick can return at node n, whatever its wall clock reads.
Stamps(n) == {h \in {Tick(clock[n], now) : now \in Wall[n]} : h.seq <= MaxSeq}

-----------------------------------------------------------------------------
(* The agent: Start, then Step on every tick of its timer.  A Start that      *)
(* fails stops the whole daemon: that is Restart, below.                     *)

AgentTick(n) ==
  \E h \in Stamps(n) :
    /\ agent[n].pc \in {"boot", "ready"}
    /\ clock' = [clock EXCEPT ![n] = h]
    /\ agent' = [agent EXCEPT ![n] = [pc |-> IF @.pc = "boot" THEN "startPut" ELSE "stepPut",
                                      hlc |-> h]]
    /\ UNCHANGED <<durable, epoch, member, api, pulls>>

PutRunner(n, status) ==
  rows' = [rows EXCEPT ![n] =
    Follow("rows", Put(@, <<"runner", n>>, AgentOwner(n, epoch[n]), agent[n].hlc, {status}), @)]

StartPut(n) ==
  /\ agent[n].pc = "startPut"
  /\ PutRunner(n, "active")
  /\ agent' = [agent EXCEPT ![n].pc = "startEmit"]
  /\ UNCHANGED <<events, wm, clock, epoch, member, api, pulls>>

StartEmit(n) ==
  /\ agent[n].pc = "startEmit"
  /\ events' = [events EXCEPT ![n] =
       Follow("events", AppendEvent(@, n, "joined", n, agent[n].hlc), @)]
  /\ agent' = [agent EXCEPT ![n] = [pc |-> "ready", hlc |-> Zero]]
  /\ UNCHANGED <<rows, wm, clock, epoch, member, api, pulls>>

\* A failed Put of a Step is logged and forgotten.
StepPut(n) ==
  /\ agent[n].pc = "stepPut"
  /\ \/ \E s \in Status : PutRunner(n, s)
     \/ UNCHANGED rows
  /\ agent' = [agent EXCEPT ![n] = [pc |-> "ready", hlc |-> Zero]]
  /\ UNCHANGED <<events, wm, clock, epoch, member, api, pulls>>

-----------------------------------------------------------------------------
(* The membership handler: a goroutine of the agent that Start precedes.  A  *)
(* report is whatever SWIM believes, also of a peer that is alive; a running *)
(* node is not told that it has left itself.                                 *)

Started(n) == agent[n].pc \in {"ready", "stepPut"}

MemberTick(n) ==
  \E h \in Stamps(n), r \in Reports :
    /\ Started(n) /\ member[n].pc = "idle"
    /\ r # <<"leave", n>>
    /\ Cardinality(SeqsOf(events[n], n)) < MaxEvents
    /\ clock' = [clock EXCEPT ![n] = h]
    /\ member' = [member EXCEPT ![n] =
         CASE r[1] = "join"   -> [pc |-> "emit", type |-> "joined", about |-> r[2], hlc |-> h]
           [] r[1] = "leave"  -> [pc |-> "prune", type |-> "left", about |-> r[2], hlc |-> h]
           [] r[1] = "update" -> @]
    /\ UNCHANGED <<durable, epoch, agent, api, pulls>>

\* A failed DeleteByNode is logged; the event is emitted all the same.
MemberPrune(n) ==
  /\ member[n].pc = "prune"
  /\ \/ rows' = [rows EXCEPT ![n] = DeleteByNode(@, member[n].about, member[n].hlc)]
     \/ UNCHANGED rows
  /\ member' = [member EXCEPT ![n].pc = "emit"]
  /\ UNCHANGED <<events, wm, clock, epoch, agent, api, pulls>>

MemberEmit(n) ==
  /\ member[n].pc = "emit"
  /\ \/ events' = [events EXCEPT ![n] =
          Follow("events", AppendEvent(@, n, member[n].type, member[n].about, member[n].hlc), @)]
     \/ UNCHANGED events
  /\ member' = [member EXCEPT ![n] = NoReport(n)]
  /\ UNCHANGED <<rows, wm, clock, epoch, agent, api, pulls>>

-----------------------------------------------------------------------------
(* The label handlers.  PUT reads the runner and the labels, merges, takes   *)
(* its HLC and writes; nothing holds the row in between.                     *)

PutLabelsRead(n, q) ==
  \E id \in Node, incoming \in SUBSET Label :
    LET key == <<"meta", id>> IN
    /\ api[n][q].pc = "idle"
    /\ Live(rows[n], <<"runner", id>>)
    /\ api' = [api EXCEPT ![n][q] =
         [pc |-> "merged", id |-> id, hlc |-> Zero,
          payload |-> incoming \cup (IF Live(rows[n], key) THEN rows[n][key].payload ELSE {})]]
    /\ UNCHANGED <<durable, clock, epoch, agent, member, pulls>>

PutLabelsTick(n, q) ==
  \E h \in Stamps(n) :
    /\ api[n][q].pc = "merged"
    /\ clock' = [clock EXCEPT ![n] = h]
    /\ api' = [api EXCEPT ![n][q].pc = "put", ![n][q].hlc = h]
    /\ UNCHANGED <<durable, epoch, agent, member, pulls>>

PutLabels(n, q) ==
  LET a == api[n][q] IN
    /\ a.pc = "put"
    /\ \/ rows' = [rows EXCEPT ![n] = Put(@, <<"meta", a.id>>, ApiOwner(n), a.hlc, a.payload)]
       \/ UNCHANGED rows
    /\ api' = [api EXCEPT ![n][q] = NoRequest(n)]
    /\ UNCHANGED <<events, wm, clock, epoch, agent, member, pulls>>

DeleteLabelsTick(n, q) ==
  \E h \in Stamps(n), id \in Node :
    /\ api[n][q].pc = "idle"
    /\ clock' = [clock EXCEPT ![n] = h]
    /\ api' = [api EXCEPT ![n][q] = [pc |-> "delete", id |-> id, hlc |-> h, payload |-> {}]]
    /\ UNCHANGED <<durable, epoch, agent, member, pulls>>

DeleteLabels(n, q) ==
  LET a == api[n][q] IN
    /\ a.pc = "delete"
    /\ \/ rows' = [rows EXCEPT ![n] = Delete(@, <<"meta", a.id>>, ApiOwner(n), a.hlc)]
       \/ UNCHANGED rows
    /\ api' = [api EXCEPT ![n][q] = NoRequest(n)]
    /\ UNCHANGED <<events, wm, clock, epoch, agent, member, pulls>>

-----------------------------------------------------------------------------
(* The server's answer to a pull: per kind the rows after the watermark, or  *)
(* those after the zero watermark when there are none, the caller sent a     *)
(* checksum and it differs.                                                  *)

NeedsFull_Never(len, reqChk, chk) == FALSE

NeedsFull(len, reqChk, chk) == len = 0 /\ reqChk # 0 /\ reqChk # chk

ServeRows(t, marks, sums) ==
  LET Full(k) == NeedsFull(Cardinality(KeysOf(ChangesSince(t, k, marks[k]))),
                           RowChecksum(sums[k]), RowChecksum(Summary(t, k)))
      Mark(k) == IF Full(k) THEN Zero ELSE marks[k]
  IN [key \in Key |-> ChangesSince(t, key[1], Mark(key[1]))[key]]

ServeEvents(log, mark, sum) ==
  IF NeedsFull(Cardinality(EventsSince(log, mark)), EventChecksum(sum),
               EventChecksum(EventSummary(log)))
  THEN EventsSince(log, Zero) ELSE EventsSince(log, mark)

-----------------------------------------------------------------------------
(* The engine: a round with every peer at once, and when all have returned,  *)
(* garbage collection (not after the first).                                 *)

AllReturned(n) == \A p \in Node : round[n][p].pc \in {"done", "failed"}

RoundAll(n) ==
  /\ engine[n].pc \in {"firstRound", "rest"} /\ AllReturned(n)
  /\ engine' = [engine EXCEPT ![n].pc = "round"]
  /\ round' = [round EXCEPT ![n] = NewRounds(n)]
  /\ UNCHANGED <<durable, clock, epoch, handlers>>

GCMin_NoFloor(ts) == ts - Grace

GCMin(ts) == IF ts > Grace THEN ts - Grace ELSE 0

\* The last disjunct only keeps the loop alive when the clock is at its bound.
GCTick(n) ==
  /\ engine[n].pc = "round" /\ AllReturned(n)
  /\ \/ \E h \in Stamps(n) :
          /\ clock' = [clock EXCEPT ![n] = h]
          /\ engine' = [engine EXCEPT ![n] = [pc |-> "gc", min |-> GCMin(h.ts)]]
     \/ /\ Stamps(n) = {}
        /\ engine' = [engine EXCEPT ![n].pc = "rest"]
        /\ UNCHANGED clock
  /\ UNCHANGED <<durable, epoch, handlers, round>>

\* gcTombstones ignores the error of a failed GCTombstones.
GC(n) ==
  /\ engine[n].pc = "gc"
  /\ \/ rows' = [rows EXCEPT ![n] = GCTombstones(@, [ts |-> engine[n].min, seq |-> 0])]
     \/ UNCHANGED rows
  /\ engine' = [engine EXCEPT ![n] = [pc |-> "rest", min |-> 0]]
  /\ UNCHANGED <<events, wm, clock, epoch, handlers, round>>

-----------------------------------------------------------------------------
(* RoundOnce(n, p).  The request carries wm[n][p], which only this round     *)
(* writes, and the checksums of n's tables at this moment; a checksum is     *)
(* kept as the set it hashes.                                                *)

AfterRows(evs) == IF evs = {} THEN "done" ELSE "applyEvents"

SendPull(n, p) ==
  /\ round[n][p].pc = "start"
  /\ round' = [round EXCEPT ![n][p] =
       [NoRound EXCEPT !.pc = "sent", !.sums = [k \in Kind |-> Summary(rows[n], k)],
                       !.evSum = EventSummary(events[n])]]
  /\ UNCHANGED <<durable, clock, epoch, handlers, engine>>

ServePull(n, p) ==
  LET r     == round[n][p]
      batch == ServeRows(rows[p], wm[n][p], r.sums)
      evs   == ServeEvents(events[p], wm[n][p]["event"], r.evSum)
      next  == IF KeysOf(batch) # {} THEN "applyRows" ELSE AfterRows(evs)
  IN /\ r.pc = "sent"
     /\ round' = [round EXCEPT ![n][p] = [NoRound EXCEPT !.pc = next, !.batch = batch, !.evs = evs]]
     /\ UNCHANGED <<durable, clock, epoch, handlers, engine>>

\* ApplyRemote: rows and row watermarks in one transaction.
ApplyRows(n, p) ==
  LET batch == round[n][p].batch IN
    /\ round[n][p].pc = "applyRows"
    /\ rows' = [rows EXCEPT ![n] = ApplyRemote(@, batch)]
    /\ wm' = [wm EXCEPT ![n][p] = [k \in WmKind |-> AdvanceWatermark(@[k], HLCs(batch, {k}))]]
    /\ round' = [round EXCEPT ![n][p].pc = "updateRows"]
    /\ UNCHANGED <<events, clock, epoch, handlers, engine>>

UpdateFromRows(n, p) ==
  LET r == round[n][p] IN
    /\ r.pc = "updateRows"
    /\ clock' = [clock EXCEPT ![n] = Update(@, Latest(HLCs(r.batch, Kind)))]
    /\ round' = [round EXCEPT ![n][p] = [NoRound EXCEPT !.pc = AfterRows(r.evs), !.evs = r.evs]]
    /\ UNCHANGED <<durable, epoch, handlers, engine>>

ApplyLog(n, p) ==
  /\ round[n][p].pc = "applyEvents"
  /\ events' = [events EXCEPT ![n] = ApplyEvents(@, round[n][p].evs)]
  /\ round' = [round EXCEPT ![n][p].pc = "setWatermark"]
  /\ UNCHANGED <<rows, wm, clock, epoch, handlers, engine>>

EventHLCs(evs) == {e.hlc : e \in evs}

SetEventWatermark(n, p) ==
  /\ round[n][p].pc = "setWatermark"
  /\ wm' = [wm EXCEPT ![n][p]["event"] = AdvanceWatermark(@, EventHLCs(round[n][p].evs))]
  /\ round' = [round EXCEPT ![n][p].pc = "updateEvents"]
  /\ UNCHANGED <<rows, events, clock, epoch, handlers, engine>>

UpdateFromEvents(n, p) ==
  /\ round[n][p].pc = "updateEvents"
  /\ clock' = [clock EXCEPT ![n] = Update(@, Latest(EventHLCs(round[n][p].evs)))]
  /\ round' = [round EXCEPT ![n][p] = NoRound]
  /\ UNCHANGED <<durable, epoch, handlers, engine>>

\* A timeout, a lost message, a peer that is down, or a failed store call
\* ends the round; the two clock updates cannot fail.
RoundFails(n, p) ==
  /\ round[n][p].pc \in {"start", "sent", "applyRows", "applyEvents", "setWatermark"}
  /\ round' = [round EXCEPT ![n][p] = [NoRound EXCEPT !.pc = "failed"]]
  /\ UNCHANGED <<durable, clock, epoch, handlers, engine>>

-----------------------------------------------------------------------------
\* The process dies and is started again on the same database.
Restart(n) ==
  /\ epoch[n] < MaxEpoch
  /\ epoch' = [epoch EXCEPT ![n] = @ + 1]
  /\ clock' = [clock EXCEPT ![n] = Zero]
  /\ agent' = [agent EXCEPT ![n] = NewAgent]
  /\ member' = [member EXCEPT ![n] = NoReport(n)]
  /\ api' = [api EXCEPT ![n] = [q \in Req |-> NoRequest(n)]]
  /\ engine' = [engine EXCEPT ![n] = NewEngine]
  /\ round' = [round EXCEPT ![n] = NewRounds(n)]
  /\ UNCHANGED durable

AgentStep(n)  == AgentTick(n) \/ StartPut(n) \/ StartEmit(n) \/ StepPut(n)
MemberStep(n) == MemberTick(n) \/ MemberPrune(n) \/ MemberEmit(n)
ApiStep(n, q) == \/ PutLabelsRead(n, q) \/ PutLabelsTick(n, q) \/ PutLabels(n, q)
                 \/ DeleteLabelsTick(n, q) \/ DeleteLabels(n, q)
EngineStep(n) == RoundAll(n) \/ GCTick(n) \/ GC(n)
PullStep(n, p) == \/ SendPull(n, p) \/ ServePull(n, p) \/ ApplyRows(n, p) \/ UpdateFromRows(n, p)
                  \/ ApplyLog(n, p) \/ SetEventWatermark(n, p) \/ UpdateFromEvents(n, p)

Next == \E n \in Node :
          \/ AgentStep(n) \/ MemberStep(n) \/ EngineStep(n) \/ Restart(n)
          \/ \E q \in Req : ApiStep(n, q)
          \/ \E p \in Peers[n] : PullStep(n, p) \/ RoundFails(n, p)

Spec == Init /\ [][Next]_vars

\* The engine's loop and a pull that has begun go on by themselves, and from
\* some moment on no pull fails.  Nothing forces a write, a report or a crash.
Fairness ==
  /\ \A n \in Node : WF_vars(EngineStep(n)) /\ \A p \in Peers[n] : WF_vars(PullStep(n, p))
  /\ <>[][\A n \in Node : \A p \in Peers[n] : ~RoundFails(n, p)]_vars

FairSpec == Spec /\ Fairness

-----------------------------------------------------------------------------
(* Properties. *)

\* Two replicas that hold a live row of one key under the same owner and HLC
\* hold the same payload: newer() cannot tell such rows apart and no pull
\* would ever reconcile them.  Agent rows carry an epoch, so this survives
\* restarts; label rows do not, so it is claimed while their writer has not
\* been restarted (agent.go owner, Clock.Tick, Put).
VersionsAgree ==
  \A n, p \in Node, key \in Key :
    LET r == rows[n][key]
        s == rows[p][key]
    IN /\ Live(rows[n], key) /\ Live(rows[p], key)
       /\ r.owner = s.owner /\ r.hlc = s.hlc
       /\ r.owner.epoch > 0 \/ epoch[r.owner.node] = 1
       => r.payload = s.payload

\* Until its first restart a node's clock is at or above every row in its
\* store, except between the commit of a pulled batch and the clock update
\* that follows it (RoundOnce): outside that window its next write is newer
\* than anything it holds.
ClockCoversStore ==
  \A n \in Node :
    epoch[n] = 1 /\ (\A p \in Node : round[n][p].pc # "updateRows")
    => \A key \in KeysOf(rows[n]) : AtMost(rows[n][key].hlc, clock[n])

\* A watermark never moves down, whatever a full resend carries and whenever
\* the node is restarted (ApplyRemote, SetWatermark).
WatermarkNeverRegresses ==
  [][\A n, p \in Node, k \in WmKind : AtMost(wm[n][p][k], wm'[n][p][k])]_vars

\* Applying what a peer sent never drops a row nor replaces it by an older
\* version, however late the answer is applied (ApplyRemote).
PullNeverRegresses ==
  [][\A n \in Node, key \in Key :
       round'[n] # round[n] /\ rows[n][key] # NoRow
       => rows'[n][key] # NoRow /\ ~Newer(rows[n][key], rows'[n][key])]_vars

\* A (runner, seq) names one event in the whole fleet: ON CONFLICT DO NOTHING
\* in ApplyEvents never discards a different event.
EventIdentity ==
  \A n, p \in Node : \A e \in events[n], f \in events[p] :
    e.runner = f.runner /\ e.seq = f.seq => e = f

\* Every event of a runner, wherever it has spread, is in that runner's own
\* log, and there the sequence numbers have no gap: a restart never makes a
\* node forget or renumber what it told others (AppendEvent).
OwnLogComplete ==
  \A n \in Node :
    /\ \A e \in events[n] : e \in events[e.runner]
    /\ SeqsOf(events[n], n) = 1..Cardinality(SeqsOf(events[n], n))

Log == INSTANCE Broadcast WITH known <- events

\* The event log of the fleet implements Broadcast: through crashes, resends,
\* late answers and clocks that go back, a node only ever numbers its own next
\* event or gathers events that exist, and it forgets none (AppendEvent,
\* ApplyEvents, RoundOnce).
LogIsBroadcast == Log!Spec

LiveView(t) == {<<key, t[key]>> : key \in {k \in Key : Live(t, k)}}

\* Once writing stops, every replica ends up with the same live rows: what
\* the watermarks skip, the checksum comparison finds (Pull, RoundOnce).  The
\* run claims it for runner rows of different HLCs; MatchMeansInSync below shows
\* what equal HLCs do to it.
RowsConverge == <>[](\A n, p \in Node : LiveView(rows[n]) = LiveView(rows[p]))

\* Every event reaches every node.
EventsConverge == <>[](\A n, p \in Node : events[n] = events[p])

-----------------------------------------------------------------------------
(* What the documents say and the code does not do. *)

\* docs/architecture.md: "The row with the higher HLC timestamp wins."
HigherHLCWins ==
  [][\A n \in Node, key \in Key :
       rows[n][key] # NoRow /\ rows'[n][key] # NoRow => AtMost(rows[n][key].hlc, rows'[n][key].hlc)]_vars

\* docs/architecture.md: "If the checksums match, everything is perfectly in sync."
MatchMeansInSync ==
  \A n, p \in Node, k \in Kind :
    RowChecksum(Summary(rows[n], k)) = RowChecksum(Summary(rows[p], k))
    => \A id \in Node : LET key == <<k, id>> IN
         Live(rows[n], key) /\ Live(rows[p], key) => rows[n][key] = rows[p][key]

\* README.md: "set/merge custom labels on a node": a PUT keeps the labels it
\* does not mention.
PutMergesLabels ==
  [][\A n \in Node, q \in Req :
       LET key == <<"meta", api[n][q].id>> IN
       PutLabels(n, q) /\ Live(rows[n], key) => rows[n][key].payload \subseteq rows'[n][key].payload]_vars

=============================================================================
