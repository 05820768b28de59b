----------------------------- MODULE StepProofs -----------------------------
(***************************************************************************)
(* What the clock and the store's queries and transactions return and      *)
(* preserve, for every timestamp, table, log and batch; then what the steps*)
(* of Replication do to the state, for every set of nodes, every peer list,*)
(* every order of owners, every checksum function and every bound; then the*)
(* writers of the fleet: the HLCs a node's goroutines hold, and where a row*)
(* of a store, or of a batch on its way, may come from.                    *)
(***************************************************************************)
EXTENDS Replication, TLAPS

\* HLC.After is a strict total order: of two different timestamps exactly one
\* is later, and lateness is transitive.
THEOREM AfterIsTotalOrder ==
  /\ \A h \in Timestamp : ~After(h, h)
  /\ \A h, o \in Timestamp : h = o \/ After(h, o) \/ After(o, h)
  /\ \A h, o, r \in Timestamp : After(h, o) /\ After(o, r) => After(h, r)
BY DEF After, Timestamp

\* AtMost, the negation of HLC.After, is a total preorder with Zero at the bottom.
LEMMA AtMostFacts ==
  /\ \A h \in Timestamp : AtMost(h, h)
  /\ \A h, o, r \in Timestamp : AtMost(h, o) /\ AtMost(o, r) => AtMost(h, r)
  /\ \A h, o, r \in Timestamp : AtMost(h, o) /\ After(r, o) => After(r, h)
  /\ \A h, o \in Timestamp : AtMost(h, o) /\ AtMost(o, h) => h = o
  /\ \A h \in Timestamp : AtMost(Zero, h)
  /\ Zero \in Timestamp
BY DEF AtMost, After, Timestamp, Zero

\* Clock.Tick returns a timestamp later than the clock whatever the wall
\* clock reads, a reading from the past included.
THEOREM TickIsLater ==
  ASSUME NEW c \in Timestamp, NEW now \in Nat
  PROVE  Tick(c, now) \in Timestamp /\ After(Tick(c, now), c)
BY DEF Tick, After, Timestamp

\* Clock.Update leaves the clock at or above both its old value and the
\* timestamp it was shown, and invents nothing.
THEOREM UpdateIsJoin ==
  ASSUME NEW c \in Timestamp, NEW o \in Timestamp
  PROVE  /\ Update(c, o) \in {c, o}
         /\ AtMost(c, Update(c, o)) /\ AtMost(o, Update(c, o))
BY DEF Update, AtMost, After, Timestamp

\* Put and Delete map tables to tables.
LEMMA RowWrites ==
  ASSUME NEW t \in Table, NEW key \in Key, NEW owner \in Owner,
         NEW hlc \in Timestamp, NEW payload \in SUBSET Attr
  PROVE  /\ Put(t, key, owner, hlc, payload) \in Table
         /\ Delete(t, key, owner, hlc) \in Table
<1>1. Put(t, key, owner, hlc, payload) \in Table
  BY DEF Put, Table, Row
<1>2. Delete(t, key, owner, hlc) \in Table
  BY DEF Delete, Table, Row
<1> QED
  BY <1>1, <1>2

\* DeleteByNode maps tables to tables.
LEMMA DeleteByNodeType ==
  ASSUME NEW t \in Table, NEW m, NEW hlc \in Timestamp
  PROVE  DeleteByNode(t, m, hlc) \in Table
BY Zenon DEF DeleteByNode, Live, Table, Row

\* GCTombstones maps tables to tables.
LEMMA GCTombstonesType ==
  ASSUME NEW t \in Table, NEW min
  PROVE  GCTombstones(t, min) \in Table
BY DEF GCTombstones, Table

\* ApplyRemote maps a table and a batch to a table.
LEMMA ApplyRemoteType ==
  ASSUME NEW t \in Table, NEW batch \in Table
  PROVE  ApplyRemote(t, batch) \in Table
BY DEF ApplyRemote, Table

\* ApplyRemote is a join: every key it was sent ends at a version that is
\* neither older than the one held nor older than the one received, so
\* applying a batch twice, or late, changes nothing more.
THEOREM ApplyRemoteIsJoin ==
  ASSUME NEW t \in Table, NEW batch \in Table, NEW key \in Key,
         \A o, p \in Owner : ~(OwnerAbove(o, p) /\ OwnerAbove(p, o))
  PROVE  LET u == ApplyRemote(t, batch) IN
         /\ u[key] \in {t[key], batch[key]}
         /\ t[key] # NoRow => u[key] # NoRow /\ ~Newer(t[key], u[key])
         /\ batch[key] # NoRow => u[key] # NoRow /\ ~Newer(batch[key], u[key])
         /\ ApplyRemote(u, batch) = u
<1> DEFINE u == ApplyRemote(t, batch)
<1>1. \A k \in Key : u[k] = IF batch[k] # NoRow /\ (t[k] = NoRow \/ Newer(batch[k], t[k]))
                            THEN batch[k] ELSE t[k]
  BY DEF ApplyRemote
<1>2. \A a, b \in Row : ~(Newer(a, b) /\ Newer(b, a)) /\ ~Newer(a, a)
  BY DEF Newer, After, Row, Timestamp
<1>3. \A k \in Key : (t[k] # NoRow => t[k] \in Row) /\ (batch[k] # NoRow => batch[k] \in Row)
  BY DEF Table
<1>4. \A k \in Key : ApplyRemote(u, batch)[k] = u[k]
  <2>1. \A k \in Key : ApplyRemote(u, batch)[k] =
          IF batch[k] # NoRow /\ (u[k] = NoRow \/ Newer(batch[k], u[k])) THEN batch[k] ELSE u[k]
    BY DEF ApplyRemote
  <2> HIDE DEF u
  <2> QED
    BY <1>1, <1>2, <1>3, <2>1
<1>5. ApplyRemote(u, batch) = u
  <2>1. u = [k \in Key |-> u[k]] /\ ApplyRemote(u, batch) = [k \in Key |-> ApplyRemote(u, batch)[k]]
    BY DEF ApplyRemote
  <2> HIDE DEF u
  <2> QED
    BY <1>4, <2>1
<1> HIDE DEF u
<1>6. /\ u[key] \in {t[key], batch[key]}
      /\ t[key] # NoRow => u[key] # NoRow /\ ~Newer(t[key], u[key])
      /\ batch[key] # NoRow => u[key] # NoRow /\ ~Newer(batch[key], u[key])
  BY <1>1, <1>2, <1>3
<1> QED
  BY <1>5, <1>6 DEF u

\* The HLCs of a batch are timestamps.
LEMMA HLCsType ==
  ASSUME NEW batch \in Table, NEW kinds
  PROVE  HLCs(batch, kinds) \in SUBSET Timestamp
BY DEF HLCs, KeysOf, Table, Row

-----------------------------------------------------------------------------

\* A pull that is past its answer has something to apply, and what it applies
\* is finite: Latest is then the latest of a batch.
PullOK(r) ==
  /\ IsFiniteSet(r.evs)
  /\ r.pc \in {"applyRows", "updateRows"} => KeysOf(r.batch) # {}
  /\ r.pc \in {"applyEvents", "setWatermark", "updateEvents"} => r.evs # {}

FiniteLogs == \A n \in Node : IsFiniteSet(events[n])
PullsOK    == \A n, p \in Node : PullOK(round[n][p])

TypeInv == TypeOK /\ FiniteLogs /\ PullsOK

\* A batch in hand has a latest HLC, the one RoundOnce shows the clock.
LatestInv ==
  \A n, p \in Node :
    /\ round[n][p].pc \in {"applyRows", "updateRows"} =>
         LET S == HLCs(round[n][p].batch, Kind)
         IN  Latest(S) \in Timestamp /\ \A h \in S : AtMost(h, Latest(S))
    /\ round[n][p].pc \in {"applyEvents", "setWatermark", "updateEvents"} =>
         LET S == EventHLCs(round[n][p].evs)
         IN  Latest(S) \in Timestamp /\ \A h \in S : AtMost(h, Latest(S))

\* A RoundOnce that is not under way has the type of a round and nothing to apply.
LEMMA NoRoundType ==
  /\ EmptyTable \in Table
  /\ NoRound \in RoundState /\ NoRound.pc = "done" /\ NoRound.evs = {} /\ NoRound.batch = EmptyTable
<1>1. EmptyTable \in Table
  BY DEF EmptyTable, Table
<1> QED
  BY <1>1 DEF NoRound, RoundState

\* A step of pull (n, p) touches one record of round.
LEMMA PullStepType ==
  ASSUME TypeOK, PullsOK, NEW n \in Node, NEW p \in Node, NEW r \in RoundState, PullOK(r),
         round' = [round EXCEPT ![n][p] = r]
  PROVE  round' \in [Node -> [Node -> RoundState]] /\ PullsOK'
<1>1. round \in [Node -> [Node -> RoundState]]
  BY Zenon DEF TypeOK, RoundState
<1>2. round' \in [Node -> [Node -> RoundState]]
  BY <1>1
<1>3. \A m, o \in Node : round'[m][o] = IF m = n /\ o = p THEN r ELSE round[m][o]
  BY <1>1
<1> QED
  BY <1>2, <1>3 DEF PullsOK

\* What Clock.Tick returns is a timestamp and later than the clock.
LEMMA StampFacts ==
  ASSUME TypeOK, NEW n \in Node, NEW h \in Stamps(n)
  PROVE  h \in Timestamp /\ After(h, clock[n])
<1>1. PICK now \in Wall[n] : h = Tick(clock[n], now)
  BY DEF Stamps
<1>2. clock[n] \in Timestamp /\ now \in Nat
  BY <1>1, ReplicationAssumption DEF TypeOK
<1> QED
  BY <1>1, <1>2, TickIsLater

\* What the server sends: rows of its table and events of its log, no others.
LEMMA ServedFromStore ==
  ASSUME NEW t \in Table, NEW marks, NEW sums, NEW log \in SUBSET Event, NEW mark, NEW sum
  PROVE  /\ ServeRows(t, marks, sums) \in Table
         /\ \A key \in Key : ServeRows(t, marks, sums)[key] \in {t[key], NoRow}
         /\ ServeEvents(log, mark, sum) \subseteq log
<1>1. \A key \in Key : ServeRows(t, marks, sums)[key] \in {t[key], NoRow}
  BY DEF ServeRows, ChangesSince
<1>2. ServeRows(t, marks, sums) \in Table
  BY <1>1, Zenon DEF ServeRows, Table
<1>3. ServeEvents(log, mark, sum) \subseteq log
  BY DEF ServeEvents, EventsSince
<1> QED
  BY <1>1, <1>2, <1>3

\* What Checksum and ChecksumEvents hash has the type a request carries.
LEMMA SummaryType ==
  ASSUME NEW t \in Table, NEW k \in Kind, NEW log \in SUBSET Event
  PROVE  /\ Summary(t, k) \in SUBSET (Node \X Timestamp)
         /\ EventSummary(log) \in SUBSET (Node \X Nat \X Timestamp)
<1>1. \A key \in Key : Live(t, key) => key[2] \in Node /\ t[key].hlc \in Timestamp
  BY DEF Live, Table, Row, Key
<1>2. \A e \in log : e.runner \in Node /\ e.seq \in Nat /\ e.hlc \in Timestamp
  BY DEF Event
<1>3. Summary(t, k) \in SUBSET (Node \X Timestamp)
  BY <1>1 DEF Summary
<1>4. EventSummary(log) \in SUBSET (Node \X Nat \X Timestamp)
  BY <1>2 DEF EventSummary
<1> QED
  BY <1>3, <1>4

\* What each step of a pull makes of its record.
LEMMA PullFields ==
  ASSUME TypeInv, NEW n \in Node, NEW p \in Node
  PROVE  LET r == round[n][p]
             u == round'[n][p]
             Others == \A o, q \in Node : (o = n /\ q = p) \/ round'[o][q] = round[o][q]
         IN /\ ServePull(n, p) =>
                 /\ Others /\ u.pc # "updateRows"
                 /\ u.batch = ServeRows(rows[p], wm[n][p], r.sums)
                 /\ u.evs = ServeEvents(events[p], wm[n][p]["event"], r.evSum)
            /\ ApplyRows(n, p) =>
                 Others /\ u.pc = "updateRows" /\ u.batch = r.batch /\ u.evs = r.evs
            /\ UpdateFromRows(n, p) =>
                 Others /\ u.pc # "updateRows" /\ u.batch = EmptyTable /\ u.evs = r.evs
            /\ ApplyLog(n, p) \/ SetEventWatermark(n, p) =>
                 Others /\ u.pc # "updateRows" /\ u.batch = r.batch /\ u.evs = r.evs
            /\ SendPull(n, p) \/ UpdateFromEvents(n, p) \/ RoundFails(n, p) =>
                 Others /\ u.pc # "updateRows" /\ u.batch = EmptyTable /\ u.evs = {}
<1> DEFINE r == round[n][p]
           u == round'[n][p]
           Others == \A o, q \in Node : (o = n /\ q = p) \/ round'[o][q] = round[o][q]
<1>0. round \in [Node -> [Node -> RoundState]] /\ r \in RoundState
  BY DEF TypeInv, TypeOK
<1>1. ASSUME NEW new, round' = [round EXCEPT ![n][p] = new] PROVE Others /\ u = new
  BY <1>0, <1>1
<1>3. \A evs : AfterRows(evs) # "updateRows"
  BY DEF AfterRows
<1>4. ASSUME ServePull(n, p)
      PROVE  /\ Others /\ u.pc # "updateRows"
             /\ u.batch = ServeRows(rows[p], wm[n][p], r.sums)
             /\ u.evs = ServeEvents(events[p], wm[n][p]["event"], r.evSum)
  <2> DEFINE batch == ServeRows(rows[p], wm[n][p], r.sums)
             evs   == ServeEvents(events[p], wm[n][p]["event"], r.evSum)
             next  == IF KeysOf(batch) # {} THEN "applyRows" ELSE AfterRows(evs)
             new   == [NoRound EXCEPT !.pc = next, !.batch = batch, !.evs = evs]
  <2>1. round' = [round EXCEPT ![n][p] = new]
    BY <1>4 DEF ServePull
  <2>2. next # "updateRows"
    BY <1>3
  <2> HIDE DEF next, batch, evs
  <2>3. new.pc = next /\ new.batch = batch /\ new.evs = evs
    BY NoRoundType DEF RoundState
  <2> HIDE DEF new, u, Others
  <2>4. Others /\ u = new
    BY <1>1, <2>1, Zenon
  <2> QED
    BY <2>2, <2>3, <2>4, Zenon DEF batch, evs
<1>5. ASSUME NEW pc, round' = [round EXCEPT ![n][p].pc = pc]
      PROVE  Others /\ u.pc = pc /\ u.batch = r.batch /\ u.evs = r.evs
  BY <1>0, <1>5, Zenon DEF RoundState
<1>6. ASSUME UpdateFromRows(n, p)
      PROVE  Others /\ u.pc # "updateRows" /\ u.batch = EmptyTable /\ u.evs = r.evs
  <2> DEFINE new == [NoRound EXCEPT !.pc = AfterRows(r.evs), !.evs = r.evs]
  <2>1. round' = [round EXCEPT ![n][p] = new]
    BY <1>6 DEF UpdateFromRows
  <2>2. new.pc = AfterRows(r.evs) /\ new.batch = EmptyTable /\ new.evs = r.evs
    BY NoRoundType DEF RoundState
  <2> HIDE DEF new, u, Others
  <2>3. Others /\ u = new
    BY <1>1, <2>1, Zenon
  <2> QED
    BY <1>3, <2>2, <2>3
<1>7. ASSUME SendPull(n, p)
      PROVE  Others /\ u.pc # "updateRows" /\ u.batch = EmptyTable /\ u.evs = {}
  <2> DEFINE sums == [k \in Kind |-> Summary(rows[n], k)]
  <2> DEFINE new == [NoRound EXCEPT !.pc = "sent", !.sums = sums, !.evSum = EventSummary(events[n])]
  <2>1. round' = [round EXCEPT ![n][p] = new]
    BY <1>7 DEF SendPull
  <2> HIDE DEF sums
  <2>2. new.pc = "sent" /\ new.batch = EmptyTable /\ new.evs = {}
    BY NoRoundType DEF RoundState
  <2> HIDE DEF new, u, Others
  <2>3. Others /\ u = new
    BY <1>1, <2>1, Zenon
  <2> QED
    BY <2>2, <2>3
<1>8. ASSUME UpdateFromEvents(n, p) \/ RoundFails(n, p)
      PROVE  Others /\ u.pc # "updateRows" /\ u.batch = EmptyTable /\ u.evs = {}
  <2>1. round' = [round EXCEPT ![n][p] = NoRound] \/ round' = [round EXCEPT ![n][p] = [NoRound EXCEPT !.pc = "failed"]]
    BY <1>8 DEF UpdateFromEvents, RoundFails
  <2>2. CASE round' = [round EXCEPT ![n][p] = NoRound]
    BY <1>1, <2>2, NoRoundType, Zenon
  <2>3. CASE round' = [round EXCEPT ![n][p] = [NoRound EXCEPT !.pc = "failed"]]
    <3> DEFINE new == [NoRound EXCEPT !.pc = "failed"]
    <3>1. new.pc = "failed" /\ new.batch = EmptyTable /\ new.evs = {}
      BY NoRoundType DEF RoundState
    <3> HIDE DEF new, u, Others
    <3>2. Others /\ u = new
      BY <1>1, <2>3, Zenon DEF new
    <3> QED
      BY <3>1, <3>2
  <2> QED
    BY <2>1, <2>2, <2>3, Zenon
<1>9. ASSUME ApplyRows(n, p)
      PROVE  Others /\ u.pc = "updateRows" /\ u.batch = r.batch /\ u.evs = r.evs
  BY <1>5, <1>9, Zenon DEF ApplyRows
<1>10. ASSUME ApplyLog(n, p) \/ SetEventWatermark(n, p)
       PROVE  Others /\ u.pc # "updateRows" /\ u.batch = r.batch /\ u.evs = r.evs
  BY <1>5, <1>10 DEF ApplyLog, SetEventWatermark
<1> HIDE DEF r, u, Others
<1> QED
  BY <1>4, <1>6, <1>7, <1>8, <1>9, <1>10, Zenon DEF r, u, Others

\* A step of pull (n, p) leaves the other pulls alone and keeps its batch,
\* drops it, or has just been sent one; ApplyRemote keeps it for the clock.
LEMMA PullBatch ==
  ASSUME TypeInv, NEW n \in Node, NEW p \in Node, PullStep(n, p) \/ RoundFails(n, p)
  PROVE  /\ \A o, q \in Node : (o = n /\ q = p) \/ round'[o][q] = round[o][q]
         /\ ServePull(n, p) \/ round'[n][p].batch \in {round[n][p].batch, EmptyTable}
         /\ ApplyRows(n, p) => /\ round'[n][p].pc = "updateRows"
                               /\ round'[n][p].batch = round[n][p].batch
<1>1. CASE ServePull(n, p)
  BY <1>1, PullFields, Zenon
<1>2. CASE ApplyRows(n, p)
  BY <1>2, PullFields, Zenon
<1>3. CASE UpdateFromRows(n, p)
  BY <1>3, PullFields, Zenon
<1>4. CASE ApplyLog(n, p) \/ SetEventWatermark(n, p)
  BY <1>4, PullFields, Zenon
<1>5. CASE SendPull(n, p) \/ UpdateFromEvents(n, p) \/ RoundFails(n, p)
  BY <1>5, PullFields, Zenon
<1>6. ApplyRows(n, p) => round'[n][p].pc = "updateRows" /\ round'[n][p].batch = round[n][p].batch
  BY PullFields, Zenon
<1> QED
  BY <1>1, <1>2, <1>3, <1>4, <1>5, <1>6, Zenon DEF PullStep

\* A step of the fleet is a step of one goroutine of one node.
LEMMA NextCases ==
  Next => \E n \in Node : \/ AgentStep(n) \/ MemberStep(n) \/ EngineStep(n) \/ Restart(n)
                          \/ \E q \in Req : ApiStep(n, q)
                          \/ \E p \in Node : PullStep(n, p) \/ RoundFails(n, p)
BY ReplicationAssumption DEF Next

\* What each goroutine of a daemon leaves alone, and which of its steps may
\* write the clock, the rows, the log and the watermarks.
LEMMA AgentFrame ==
  ASSUME NEW n \in Node, AgentStep(n)
  PROVE  /\ UNCHANGED <<wm, epoch, member, api, engine, round>>
         /\ StartPut(n) \/ StepPut(n) \/ UNCHANGED rows
         /\ StartEmit(n) \/ UNCHANGED events
         /\ AgentTick(n) \/ UNCHANGED clock
<1>1. CASE AgentTick(n)
  BY <1>1, Zenon DEF AgentTick, durable, pulls
<1>2. CASE StartPut(n)
  BY <1>2 DEF StartPut, pulls
<1>3. CASE StartEmit(n)
  BY <1>3 DEF StartEmit, pulls
<1>4. CASE StepPut(n)
  BY <1>4 DEF StepPut, pulls
<1> QED
  BY <1>1, <1>2, <1>3, <1>4, Zenon DEF AgentStep

\* The same of the membership handler.
LEMMA MemberFrame ==
  ASSUME NEW n \in Node, MemberStep(n)
  PROVE  /\ UNCHANGED <<wm, epoch, agent, api, engine, round>>
         /\ MemberPrune(n) \/ UNCHANGED rows
         /\ MemberEmit(n) \/ UNCHANGED events
         /\ MemberTick(n) \/ UNCHANGED clock
<1>1. CASE MemberTick(n)
  BY <1>1, Zenon DEF MemberTick, durable, pulls
<1>2. CASE MemberPrune(n)
  BY <1>2 DEF MemberPrune, pulls
<1>3. CASE MemberEmit(n)
  BY <1>3 DEF MemberEmit, pulls
<1> QED
  BY <1>1, <1>2, <1>3 DEF MemberStep

\* The same of the label handlers.
LEMMA ApiFrame ==
  ASSUME NEW n \in Node, NEW q \in Req, ApiStep(n, q)
  PROVE  /\ UNCHANGED <<events, wm, epoch, agent, member, engine, round>>
         /\ PutLabels(n, q) \/ DeleteLabels(n, q) \/ UNCHANGED rows
         /\ (\E h \in Stamps(n) : clock' = [clock EXCEPT ![n] = h]) \/ UNCHANGED clock
         /\ \E a : api' = [api EXCEPT ![n][q] = a]
<1>1. CASE PutLabelsRead(n, q)
  BY <1>1, Zenon DEF PutLabelsRead, durable, pulls
<1>2. CASE PutLabelsTick(n, q)
  <2>1. PICK h \in Stamps(n) : /\ clock' = [clock EXCEPT ![n] = h]
                               /\ api' = [api EXCEPT ![n][q].pc = "put", ![n][q].hlc = h]
    BY <1>2, Zenon DEF PutLabelsTick
  <2>2. api' = [api EXCEPT ![n][q] = [[api[n][q] EXCEPT !.pc = "put"] EXCEPT !.hlc = h]]
    BY <2>1, Zenon
  <2> QED
    BY <1>2, <2>1, <2>2, Zenon DEF PutLabelsTick, durable, pulls
<1>3. CASE PutLabels(n, q)
  BY <1>3, Zenon DEF PutLabels, pulls
<1>4. CASE DeleteLabelsTick(n, q)
  BY <1>4, Zenon DEF DeleteLabelsTick, durable, pulls
<1>5. CASE DeleteLabels(n, q)
  BY <1>5, Zenon DEF DeleteLabels, pulls
<1> QED
  BY <1>1, <1>2, <1>3, <1>4, <1>5, Zenon DEF ApiStep

\* The same of the engine's loop.
LEMMA EngineFrame ==
  ASSUME NEW n \in Node, EngineStep(n)
  PROVE  /\ UNCHANGED <<events, wm, epoch, agent, member, api>>
         /\ GC(n) \/ UNCHANGED rows
         /\ RoundAll(n) \/ UNCHANGED round
         /\ (\E h \in Stamps(n) : clock' = [clock EXCEPT ![n] = h]) \/ UNCHANGED clock
<1>1. CASE RoundAll(n)
  BY <1>1 DEF RoundAll, durable, handlers
<1>2. CASE GCTick(n)
  BY <1>2 DEF GCTick, durable, handlers
<1>3. CASE GC(n)
  BY <1>3 DEF GC, handlers
<1> QED
  BY <1>1, <1>2, <1>3, Zenon DEF EngineStep

\* The same of a pull.
LEMMA PullFrame ==
  ASSUME NEW n \in Node, NEW p \in Node, PullStep(n, p) \/ RoundFails(n, p)
  PROVE  /\ UNCHANGED <<epoch, agent, member, api, engine>>
         /\ ApplyRows(n, p) \/ UNCHANGED rows
         /\ ApplyLog(n, p) \/ UNCHANGED events
         /\ ApplyRows(n, p) \/ SetEventWatermark(n, p) \/ UNCHANGED wm
         /\ UpdateFromRows(n, p) \/ UpdateFromEvents(n, p) \/ UNCHANGED clock
<1>1. CASE SendPull(n, p)
  BY <1>1 DEF SendPull, durable, handlers
<1>2. CASE ServePull(n, p)
  BY <1>2 DEF ServePull, durable, handlers
<1>3. CASE ApplyRows(n, p)
  BY <1>3, Zenon DEF ApplyRows, handlers
<1>4. CASE UpdateFromRows(n, p)
  BY <1>4 DEF UpdateFromRows, durable, handlers
<1>5. CASE ApplyLog(n, p)
  BY <1>5 DEF ApplyLog, handlers
<1>6. CASE SetEventWatermark(n, p)
  BY <1>6 DEF SetEventWatermark, handlers
<1>7. CASE UpdateFromEvents(n, p)
  BY <1>7 DEF UpdateFromEvents, durable, handlers
<1>8. CASE RoundFails(n, p)
  BY <1>8 DEF RoundFails, durable, handlers
<1> QED
  BY <1>1, <1>2, <1>3, <1>4, <1>5, <1>6, <1>7, <1>8, Zenon DEF PullStep

-----------------------------------------------------------------------------
(* The writers. *)

Writing(n) == agent[n].pc \in {"startPut", "stepPut"}

\* What one step may do to the goroutines of node m: its clock grows unless m
\* restarts, and an HLC a goroutine is about to write with is either the one
\* it already had or fresher than the clock was.
LEMMA LocalStep ==
  ASSUME TypeInv, LatestInv, [Next]_vars, NEW m \in Node
  PROVE  /\ \/ epoch'[m] = epoch[m] /\ AtMost(clock[m], clock'[m])
            \/ /\ epoch'[m] = epoch[m] + 1 /\ agent'[m] = NewAgent /\ member'[m] = NoReport(m)
               /\ \A q \in Req : api'[m][q] = NoRequest(m)
         /\ \/ agent'[m].hlc \in {agent[m].hlc, Zero} /\ (Writing(m)' => agent'[m] = agent[m])
            \/ After(agent'[m].hlc, clock[m]) /\ agent'[m].hlc = clock'[m]
         /\ member'[m].hlc \in {member[m].hlc, Zero, clock'[m]}
         /\ \/ \A q \in Req : /\ api'[m][q].hlc \in {api[m][q].hlc, Zero}
                              /\ api'[m][q].pc = "put" => api'[m][q] = api[m][q]
            \/ \E q \in Req : /\ After(api'[m][q].hlc, clock[m]) /\ api'[m][q].hlc = clock'[m]
                              /\ \A s \in Req \ {q} : api'[m][s] = api[m][s]
<1> DEFINE ClockOK == \/ epoch'[m] = epoch[m] /\ AtMost(clock[m], clock'[m])
                      \/ /\ epoch'[m] = epoch[m] + 1 /\ agent'[m] = NewAgent
                         /\ member'[m] = NoReport(m) /\ \A q \in Req : api'[m][q] = NoRequest(m)
           AgentOK == \/ agent'[m].hlc \in {agent[m].hlc, Zero} /\ (Writing(m)' => agent'[m] = agent[m])
                      \/ After(agent'[m].hlc, clock[m]) /\ agent'[m].hlc = clock'[m]
           MemberOK == member'[m].hlc \in {member[m].hlc, Zero, clock'[m]}
           ApiOK == \/ \A q \in Req : /\ api'[m][q].hlc \in {api[m][q].hlc, Zero}
                                      /\ api'[m][q].pc = "put" => api'[m][q] = api[m][q]
                    \/ \E q \in Req : /\ After(api'[m][q].hlc, clock[m]) /\ api'[m][q].hlc = clock'[m]
                                      /\ \A s \in Req \ {q} : api'[m][s] = api[m][s]
<1>0. TypeOK /\ clock \in [Node -> Timestamp] /\ epoch \in [Node -> Nat \ {0}]
      /\ agent \in [Node -> AgentState] /\ member \in [Node -> MemberState]
      /\ api \in [Node -> [Req -> RequestState]]
  BY DEF TypeInv, TypeOK
<1>1. ASSUME agent'[m] = agent[m] PROVE AgentOK
  BY <1>1
<1>2. ASSUME member'[m] = member[m] PROVE MemberOK
  BY <1>2
<1>3. ASSUME api'[m] = api[m] PROVE ApiOK
  BY <1>3
<1>4. ASSUME clock'[m] = clock[m], epoch'[m] = epoch[m] PROVE ClockOK
  BY <1>0, <1>4, AtMostFacts, Zenon
<1>5. ASSUME NEW n \in Node, NEW h \in Stamps(n), clock' = [clock EXCEPT ![n] = h], UNCHANGED epoch
      PROVE  ClockOK /\ (m = n => After(h, clock[m]) /\ clock'[m] = h)
  BY <1>0, <1>5, StampFacts, AtMostFacts DEF AtMost, After, Timestamp
<1> HIDE DEF ClockOK, AgentOK, MemberOK, ApiOK
<1>6. CASE UNCHANGED vars
  BY <1>1, <1>2, <1>3, <1>4, <1>6, Zenon DEF vars, ClockOK, AgentOK, MemberOK, ApiOK
<1>7. CASE Next
  <2>1. PICK n \in Node : \/ AgentStep(n) \/ MemberStep(n) \/ EngineStep(n) \/ Restart(n)
                          \/ \E q \in Req : ApiStep(n, q)
                          \/ \E p \in Node : PullStep(n, p) \/ RoundFails(n, p)
    BY <1>7, NextCases
  <2>2. CASE AgentStep(n)
    <3>1. MemberOK /\ ApiOK
      BY <1>2, <1>3, <2>2, AgentFrame
    <3>2. CASE AgentTick(n)
      <4>1. PICK h \in Stamps(n) : /\ clock' = [clock EXCEPT ![n] = h] /\ UNCHANGED epoch
              /\ agent' = [agent EXCEPT ![n] = [pc |-> IF @.pc = "boot" THEN "startPut" ELSE "stepPut",
                                                hlc |-> h]]
        BY <3>2, Zenon DEF AgentTick
      <4>2. ClockOK
        BY <1>5, <4>1, Zenon
      <4>3. ASSUME m = n PROVE AgentOK
        BY <1>0, <1>5, <4>1, <4>3, Zenon DEF AgentOK
      <4>4. ASSUME m # n PROVE AgentOK
        BY <1>0, <1>1, <4>1, <4>4
      <4> QED
        BY <3>1, <4>2, <4>3, <4>4, Zenon DEF ClockOK, AgentOK, MemberOK, ApiOK
    <3>3. CASE StartPut(n) \/ StartEmit(n) \/ StepPut(n)
      <4>1. agent'[m].hlc \in {agent[m].hlc, Zero} /\ (Writing(m)' => agent'[m] = agent[m])
        BY <1>0, <3>3 DEF StartPut, StartEmit, StepPut, Writing, AgentState
      <4>2. ClockOK
        BY <1>4, <3>3, Zenon DEF StartPut, StartEmit, StepPut
      <4> QED
        BY <3>1, <4>1, <4>2, Zenon DEF ClockOK, AgentOK, MemberOK, ApiOK
    <3> QED
      BY <2>2, <3>2, <3>3, Zenon DEF AgentStep
  <2>3. CASE MemberStep(n)
    <3>1. AgentOK /\ ApiOK
      BY <1>1, <1>3, <2>3, MemberFrame
    <3>2. CASE MemberTick(n)
      <4>1. PICK h \in Stamps(n), r \in Reports :
              /\ clock' = [clock EXCEPT ![n] = h] /\ UNCHANGED epoch
              /\ member' = [member EXCEPT ![n] =
                   CASE r[1] = "join"   -> [pc |-> "emit", type |-> "joined", about |-> r[2], hlc |-> h]
                     [] r[1] = "leave"  -> [pc |-> "prune", type |-> "left", about |-> r[2], hlc |-> h]
                     [] r[1] = "update" -> @]
        BY <3>2, Zenon DEF MemberTick
      <4>2. ClockOK
        BY <1>5, <4>1, Zenon
      <4>3. r[1] \in {"join", "leave", "update"}
        BY <4>1, ReplicationAssumption
      <4>4. MemberOK
        BY <1>0, <4>1, <4>3, Zenon DEF MemberOK
      <4> QED
        BY <3>1, <4>2, <4>4, Zenon DEF ClockOK, AgentOK, MemberOK, ApiOK
    <3>3. CASE MemberPrune(n) \/ MemberEmit(n)
      <4>1. member'[m].hlc \in {member[m].hlc, Zero}
        BY <1>0, <3>3 DEF MemberPrune, MemberEmit, MemberState, NoReport
      <4>2. ClockOK
        BY <1>4, <3>3 DEF MemberPrune, MemberEmit
      <4> QED
        BY <3>1, <4>1, <4>2, Zenon DEF ClockOK, AgentOK, MemberOK, ApiOK
    <3> QED
      BY <2>3, <3>2, <3>3, Zenon DEF MemberStep
  <2>4. CASE EngineStep(n)
    <3>1. AgentOK /\ MemberOK /\ ApiOK
      BY <1>1, <1>2, <1>3, <2>4, EngineFrame
    <3>2. ClockOK
      BY <1>4, <1>5, <2>4, EngineFrame
    <3> QED
      BY <3>1, <3>2, Zenon DEF ClockOK, AgentOK, MemberOK, ApiOK
  <2>5. CASE Restart(n)
    <3>1. CASE m # n
      <4>1. /\ agent'[m] = agent[m] /\ member'[m] = member[m] /\ api'[m] = api[m]
            /\ clock'[m] = clock[m] /\ epoch'[m] = epoch[m]
        BY <1>0, <2>5, <3>1 DEF Restart
      <4> QED
        BY <1>1, <1>2, <1>3, <1>4, <4>1, Zenon DEF ClockOK, AgentOK, MemberOK, ApiOK
    <3>2. CASE m = n
      <4>1. /\ agent'[m] = NewAgent /\ member'[m] = NoReport(m) /\ epoch'[m] = epoch[m] + 1
            /\ \A q \in Req : api'[m][q] = NoRequest(m)
        BY <1>0, <2>5, <3>2 DEF Restart
      <4>2. ClockOK
        BY <4>1 DEF ClockOK
      <4>3. AgentOK /\ MemberOK
        BY <4>1 DEF AgentOK, MemberOK, NewAgent, NoReport, Writing
      <4>4. ApiOK
        BY <4>1 DEF ApiOK, NoRequest
      <4> QED
        BY <4>2, <4>3, <4>4, Zenon DEF ClockOK, AgentOK, MemberOK, ApiOK
    <3> QED
      BY <3>1, <3>2, Zenon
  <2>6. ASSUME NEW q \in Req, ApiStep(n, q)
        PROVE  ClockOK /\ AgentOK /\ MemberOK /\ ApiOK
    <3>1. AgentOK /\ MemberOK
      BY <1>1, <1>2, <2>6, ApiFrame
    <3>2. ClockOK
      BY <1>4, <1>5, <2>6, ApiFrame
    <3>3. ASSUME m # n PROVE api'[m] = api[m]
      BY <1>0, <2>6, <3>3, ApiFrame
    <3>4. ASSUME m = n PROVE \A s \in Req \ {q} : api'[m][s] = api[m][s]
      BY <1>0, <2>6, <3>4, ApiFrame
    <3>5. ASSUME m = n
          PROVE  \/ api'[m][q].hlc = Zero /\ api'[m][q].pc # "put"
                 \/ After(api'[m][q].hlc, clock[m]) /\ api'[m][q].hlc = clock'[m]
      <4>1. CASE PutLabelsRead(n, q)
        BY <1>0, <3>5, <4>1 DEF PutLabelsRead
      <4>2. CASE PutLabelsTick(n, q)
        <5>1. PICK h \in Stamps(n) :
                /\ clock' = [clock EXCEPT ![n] = h] /\ UNCHANGED epoch
                /\ api' = [api EXCEPT ![n][q].pc = "put", ![n][q].hlc = h]
          BY <4>2, Zenon DEF PutLabelsTick
        <5>2. api'[n][q].hlc = h
          BY <1>0, <5>1 DEF RequestState
        <5> QED
          BY <1>5, <3>5, <5>1, <5>2, Zenon
      <4>3. CASE DeleteLabelsTick(n, q)
        <5>1. PICK h \in Stamps(n), id \in Node :
                /\ clock' = [clock EXCEPT ![n] = h] /\ UNCHANGED epoch
                /\ api' = [api EXCEPT ![n][q] = [pc |-> "delete", id |-> id, hlc |-> h, payload |-> {}]]
          BY <4>3, Zenon DEF DeleteLabelsTick
        <5>2. api'[n][q].hlc = h
          BY <1>0, <5>1, Zenon
        <5> QED
          BY <1>5, <3>5, <5>1, <5>2, Zenon
      <4>4. CASE PutLabels(n, q) \/ DeleteLabels(n, q)
        BY <1>0, <3>5, <4>4 DEF PutLabels, DeleteLabels, NoRequest
      <4> QED
        BY <2>6, <4>1, <4>2, <4>3, <4>4, Zenon DEF ApiStep
    <3>6. ApiOK
      <4>1. CASE m # n
        BY <1>3, <3>3, <4>1
      <4>2. CASE m = n
        BY <3>4, <3>5, <4>2, Zenon DEF ApiOK
      <4> QED
        BY <4>1, <4>2
    <3> QED
      BY <3>1, <3>2, <3>6
  <2>7. ASSUME NEW p \in Node, PullStep(n, p) \/ RoundFails(n, p)
        PROVE  ClockOK /\ AgentOK /\ MemberOK /\ ApiOK
    <3>1. /\ AgentOK /\ MemberOK /\ ApiOK /\ epoch' = epoch
      BY <1>1, <1>2, <1>3, <2>7, PullFrame
    <3>2. CASE UpdateFromRows(n, p)
      <4>1. Latest(HLCs(round[n][p].batch, Kind)) \in Timestamp
        BY <3>2, Zenon DEF UpdateFromRows, LatestInv
      <4>2. AtMost(clock[n], Update(clock[n], Latest(HLCs(round[n][p].batch, Kind))))
        BY <1>0, <4>1, UpdateIsJoin
      <4> QED
        BY <1>0, <3>1, <3>2, <4>2, AtMostFacts, Zenon DEF UpdateFromRows, ClockOK, AgentOK, MemberOK, ApiOK
    <3>3. CASE UpdateFromEvents(n, p)
      <4>1. Latest(EventHLCs(round[n][p].evs)) \in Timestamp
        BY <3>3, Zenon DEF UpdateFromEvents, LatestInv
      <4>2. AtMost(clock[n], Update(clock[n], Latest(EventHLCs(round[n][p].evs))))
        BY <1>0, <4>1, UpdateIsJoin
      <4> QED
        BY <1>0, <3>1, <3>3, <4>2, AtMostFacts, Zenon DEF UpdateFromEvents, ClockOK, AgentOK, MemberOK, ApiOK
    <3>4. CASE ~UpdateFromRows(n, p) /\ ~UpdateFromEvents(n, p)
      <4>1. clock' = clock
        BY <2>7, <3>4, PullFrame
      <4> QED
        BY <1>4, <3>1, <4>1
    <3> QED
      BY <3>2, <3>3, <3>4
  <2> QED
    BY <2>1, <2>2, <2>3, <2>4, <2>5, <2>6, <2>7, Zenon DEF ClockOK, AgentOK, MemberOK, ApiOK
<1> QED
  BY <1>6, <1>7, Zenon

\* No goroutine holds an HLC above its node's clock.
PendingInv ==
  \A n \in Node : /\ AtMost(agent[n].hlc, clock[n])
                  /\ AtMost(member[n].hlc, clock[n])
                  /\ \A q \in Req : AtMost(api[n][q].hlc, clock[n])

\* No goroutine holds an HLC when the daemons start.
LEMMA PendingInvInit == Init => PendingInv
<1> SUFFICES ASSUME Init PROVE PendingInv
  OBVIOUS
<1>1. \A n \in Node : /\ agent[n].hlc = Zero /\ member[n].hlc = Zero /\ clock[n] = Zero
                      /\ \A q \in Req : api[n][q].hlc = Zero
  BY DEF Init, NewAgent, NoReport, NoRequest
<1> QED
  BY <1>1, AtMostFacts DEF PendingInv

\* Every step keeps PendingInv: a goroutine's HLC comes from Clock.Tick, and
\* clocks only grow until a restart ends all goroutines.
LEMMA PendingInvStep ==
  ASSUME TypeInv, TypeInv', LatestInv, PendingInv, [Next]_vars
  PROVE  PendingInv'
<1> SUFFICES ASSUME NEW m \in Node
             PROVE  /\ AtMost(agent'[m].hlc, clock'[m])
                    /\ AtMost(member'[m].hlc, clock'[m])
                    /\ \A q \in Req : AtMost(api'[m][q].hlc, clock'[m])
  BY DEF PendingInv
<1>1. /\ clock[m] \in Timestamp /\ clock'[m] \in Timestamp
      /\ agent[m].hlc \in Timestamp /\ member[m].hlc \in Timestamp
      /\ \A q \in Req : api[m][q].hlc \in Timestamp
  BY DEF TypeInv, TypeOK, AgentState, MemberState, RequestState
<1>2. /\ AtMost(agent[m].hlc, clock[m]) /\ AtMost(member[m].hlc, clock[m])
      /\ \A q \in Req : AtMost(api[m][q].hlc, clock[m])
  BY DEF PendingInv
<1>3. CASE AtMost(clock[m], clock'[m])
  <2>1. /\ AtMost(agent[m].hlc, clock'[m]) /\ AtMost(member[m].hlc, clock'[m])
        /\ AtMost(Zero, clock'[m]) /\ AtMost(clock'[m], clock'[m])
        /\ \A q \in Req : AtMost(api[m][q].hlc, clock'[m])
    <3>1. \A t \in Timestamp : AtMost(t, clock[m]) => AtMost(t, clock'[m])
      BY <1>1, <1>3, AtMostFacts
    <3>2. AtMost(Zero, clock'[m]) /\ AtMost(clock'[m], clock'[m])
      BY <1>1, AtMostFacts
    <3> QED
      BY <1>1, <1>2, <3>1, <3>2, Zenon
  <2>2. /\ agent'[m].hlc \in {agent[m].hlc, Zero, clock'[m]}
        /\ member'[m].hlc \in {member[m].hlc, Zero, clock'[m]}
        /\ \A q \in Req : api'[m][q].hlc \in {api[m][q].hlc, Zero, clock'[m]}
    BY LocalStep, Zenon
  <2> QED
    BY <2>1, <2>2, Zenon
<1>4. CASE /\ agent'[m] = NewAgent /\ member'[m] = NoReport(m)
           /\ \A q \in Req : api'[m][q] = NoRequest(m)
  <2>1. AtMost(Zero, clock'[m])
    BY <1>1, AtMostFacts
  <2> QED
    BY <1>4, <2>1 DEF NewAgent, NoReport, NoRequest
<1> QED
  BY <1>3, <1>4, LocalStep, Zenon

-----------------------------------------------------------------------------
(* Where a row of the next state comes from. *)
AgentWrites(n, key, r) ==
  /\ StartPut(n) \/ StepPut(n)
  /\ key = <<"runner", n>> /\ r = rows'[n][key]
  /\ r.owner = AgentOwner(n, epoch[n]) /\ r.hlc = agent[n].hlc

ApiWrites(n, q, key, r) ==
  /\ PutLabels(n, q)
  /\ key = <<"meta", api[n][q].id>> /\ r = rows'[n][key]
  /\ r.owner = ApiOwner(n) /\ r.hlc = api[n][q].hlc

Buries(n, r) == r.tomb /\ (r.hlc = member[n].hlc \/ \E q \in Req : r.hlc = api[n][q].hlc)

\* Where a row found in a store after a step comes from: it was there, a pull
\* brought it, a tombstone was made of it, or an agent or a label request wrote it.
LEMMA RowOrigin ==
  ASSUME TypeInv, [Next]_vars, NEW m \in Node, NEW key \in Key, rows'[m][key] # NoRow
  PROVE  LET r == rows'[m][key] IN
         \/ r = rows[m][key]
         \/ \E p \in Node : ApplyRows(m, p) /\ r = round[m][p].batch[key]
         \/ AgentWrites(m, key, r)
         \/ \E q \in Req : ApiWrites(m, q, key, r)
         \/ Buries(m, r)
<1> DEFINE r == rows'[m][key]
           Goal == \/ r = rows[m][key]
                   \/ \E p \in Node : ApplyRows(m, p) /\ r = round[m][p].batch[key]
                   \/ AgentWrites(m, key, r)
                   \/ \E q \in Req : ApiWrites(m, q, key, r)
                   \/ Buries(m, r)
<1>0. rows \in [Node -> Table] /\ \A n \in Node : rows[n] \in Table /\ DOMAIN rows[n] = Key
  BY DEF TypeInv, TypeOK, Table
<1>1. ASSUME rows' = rows PROVE Goal
  BY <1>1
<1>2. ASSUME NEW n \in Node, n # m, NEW t, rows' = [rows EXCEPT ![n] = t] PROVE Goal
  BY <1>0, <1>2, Zenon
<1>3. ASSUME NEW n \in Node, n = m, NEW t, rows' = [rows EXCEPT ![n] = t] PROVE r = t[key]
  BY <1>0, <1>3
<1> HIDE DEF Goal
<1>4. CASE UNCHANGED vars
  BY <1>1, <1>4, Zenon DEF vars, Goal
<1>5. CASE Next
  <2>1. PICK n \in Node : \/ AgentStep(n) \/ MemberStep(n) \/ EngineStep(n) \/ Restart(n)
                          \/ \E q \in Req : ApiStep(n, q)
                          \/ \E p \in Node : PullStep(n, p) \/ RoundFails(n, p)
    BY <1>5, NextCases
  <2>2. CASE AgentStep(n)
    <3>1. ASSUME NEW s, PutRunner(n, s), StartPut(n) \/ StepPut(n) PROVE Goal
      <4> DEFINE new == [owner |-> AgentOwner(n, epoch[n]), hlc |-> agent[n].hlc, tomb |-> FALSE,
                         payload |-> {s}]
                 t   == IF "rows" \in Tables THEN [rows[n] EXCEPT ![<<"runner", n>>] = new] ELSE rows[n]
      <4>1. rows' = [rows EXCEPT ![n] = t]
        BY <3>1, Zenon DEF PutRunner, Follow, Put
      <4>2. new.owner = AgentOwner(n, epoch[n]) /\ new.hlc = agent[n].hlc
        OBVIOUS
      <4>3. t[key] = rows[n][key] \/ (key = <<"runner", n>> /\ t[key] = new)
        BY <1>0, Zenon
      <4> HIDE DEF new, t
      <4>4. CASE n = m
        <5>1. r = t[key]
          BY <1>3, <4>1, <4>4, Zenon
        <5> QED
          BY <3>1, <4>2, <4>3, <4>4, <5>1, Zenon DEF Goal, AgentWrites
      <4> QED
        BY <1>2, <4>1, <4>4, Zenon
    <3>2. CASE StartPut(n)
      BY <3>1, <3>2, Zenon DEF StartPut, Goal
    <3>3. CASE StepPut(n)
      BY <1>1, <3>1, <3>3, Zenon DEF StepPut, Goal
    <3>4. CASE UNCHANGED rows
      BY <1>1, <3>4
        <3> QED
      BY <2>2, <3>2, <3>3, <3>4, AgentFrame, Zenon
  <2>3. CASE MemberStep(n)
    <3> DEFINE t == DeleteByNode(rows[n], member[n].about, member[n].hlc)
    <3>1. rows' = rows \/ rows' = [rows EXCEPT ![n] = t]
      BY <2>3, MemberFrame DEF MemberPrune
    <3>2. t[key] = rows[n][key] \/ (t[key].tomb /\ t[key].hlc = member[n].hlc)
      <4>1. CASE Live(rows[n], key)
        <5>1. rows[n][key] \in Row
          BY <1>0, <4>1 DEF Live, Table
        <5> DEFINE new == [rows[n][key] EXCEPT !.hlc = member[n].hlc, !.tomb = TRUE]
        <5>2. new.tomb /\ new.hlc = member[n].hlc
          BY <5>1 DEF Row
        <5>3. t[key] \in {rows[n][key], new}
          BY DEF DeleteByNode
        <5> QED
          BY <5>2, <5>3, Zenon
      <4>2. CASE ~Live(rows[n], key)
        BY <4>2 DEF DeleteByNode
      <4> QED
        BY <4>1, <4>2, Zenon
    <3> HIDE DEF t
    <3>3. CASE n = m /\ rows' = [rows EXCEPT ![n] = t]
      <4>1. r = t[key]
        BY <1>3, <3>3, Zenon
      <4> QED
        BY <3>2, <3>3, <4>1, Zenon DEF Goal, Buries
    <3> QED
      BY <1>1, <1>2, <3>1, <3>3, Zenon DEF Goal
  <2>4. CASE EngineStep(n)
    <3> DEFINE t == GCTombstones(rows[n], [ts |-> engine[n].min, seq |-> 0])
    <3>1. rows' = rows \/ rows' = [rows EXCEPT ![n] = t]
      BY <2>4, EngineFrame, Zenon DEF GC
    <3>2. t[key] \in {rows[n][key], NoRow}
      BY DEF GCTombstones
    <3> HIDE DEF t
    <3>3. CASE n = m /\ rows' = [rows EXCEPT ![n] = t]
      <4>1. r = t[key]
        BY <1>3, <3>3, Zenon
      <4> QED
        BY <3>2, <3>3, <4>1, Zenon DEF Goal
    <3> QED
      BY <1>1, <1>2, <3>1, <3>3, Zenon DEF Goal
  <2>5. CASE Restart(n)
    BY <1>1, <2>5, Zenon DEF Restart, durable, Goal
  <2>6. ASSUME NEW q \in Req, ApiStep(n, q) PROVE Goal
    <3> DEFINE a   == api[n][q]
               k   == <<"meta", a.id>>
               put == [owner |-> ApiOwner(n), hlc |-> a.hlc, tomb |-> FALSE, payload |-> a.payload]
               del == [owner |-> ApiOwner(n), hlc |-> a.hlc, tomb |-> TRUE,
                       payload |-> IF rows[n][k] = NoRow THEN {} ELSE rows[n][k].payload]
    <3>1. \/ rows' = rows
          \/ PutLabels(n, q) /\ rows' = [rows EXCEPT ![n] = [rows[n] EXCEPT ![k] = put]]
          \/ rows' = [rows EXCEPT ![n] = [rows[n] EXCEPT ![k] = del]]
      BY <2>6, ApiFrame, Zenon DEF PutLabels, DeleteLabels, Put, Delete
    <3>2. put.owner = ApiOwner(n) /\ put.hlc = a.hlc /\ del.tomb /\ del.hlc = a.hlc
      BY Zenon
    <3>3. ASSUME NEW new PROVE [rows[n] EXCEPT ![k] = new][key] = rows[n][key]
                               \/ (key = k /\ [rows[n] EXCEPT ![k] = new][key] = new)
      BY <1>0, Zenon
    <3> HIDE DEF put, del, k
    <3>4. CASE n = m /\ PutLabels(n, q) /\ rows' = [rows EXCEPT ![n] = [rows[n] EXCEPT ![k] = put]]
      <4>1. r = [rows[n] EXCEPT ![k] = put][key]
        BY <1>3, <3>4, Zenon
      <4>2. r = rows[n][key] \/ (key = k /\ r = put)
        BY <3>3, <4>1, Zenon
      <4> QED
        BY <3>2, <3>4, <4>2, Zenon DEF Goal, ApiWrites, k
    <3>5. CASE n = m /\ rows' = [rows EXCEPT ![n] = [rows[n] EXCEPT ![k] = del]]
      <4>1. r = [rows[n] EXCEPT ![k] = del][key]
        BY <1>3, <3>5, Zenon
      <4>2. r = rows[n][key] \/ (key = k /\ r = del)
        BY <3>3, <4>1, Zenon
      <4> QED
        BY <3>2, <3>5, <4>2, Zenon DEF Goal, Buries
    <3> QED
      BY <1>1, <1>2, <3>1, <3>4, <3>5
  <2>7. ASSUME NEW p \in Node, PullStep(n, p) \/ RoundFails(n, p) PROVE Goal
    <3> DEFINE t == ApplyRemote(rows[n], round[n][p].batch)
    <3>1. rows' = rows \/ (ApplyRows(n, p) /\ rows' = [rows EXCEPT ![n] = t])
      <4>1. rows' = rows \/ ApplyRows(n, p)
        BY <2>7, PullFrame
      <4> QED
        BY <4>1, Zenon DEF ApplyRows
    <3>2. t[key] \in {rows[n][key], round[n][p].batch[key]}
      BY DEF ApplyRemote
    <3> HIDE DEF t
    <3>3. CASE n = m /\ ApplyRows(n, p) /\ rows' = [rows EXCEPT ![n] = t]
      <4>1. r = t[key]
        BY <1>3, <3>3, ZenonT(30)
      <4> QED
        BY <3>2, <3>3, <4>1, Zenon DEF Goal
    <3> QED
      BY <1>1, <1>2, <3>1, <3>3
  <2> QED
    BY <2>1, <2>2, <2>3, <2>4, <2>5, <2>6, <2>7, Zenon DEF Goal
<1> QED
  BY <1>4, <1>5, Zenon DEF Goal

\* A row in flight was in flight before or is a row of some store.
LEMMA BatchOrigin ==
  ASSUME TypeInv, [Next]_vars, NEW m \in Node, NEW o \in Node, NEW key \in Key,
         round'[m][o].batch[key] # NoRow
  PROVE  round'[m][o].batch[key] \in {round[m][o].batch[key], rows[o][key]}
<1> DEFINE Goal == round'[m][o].batch[key] \in {round[m][o].batch[key], rows[o][key]}
<1>1. ASSUME round'[m][o].batch = round[m][o].batch PROVE Goal
  BY <1>1
<1>2. EmptyTable[key] = NoRow
  BY DEF EmptyTable
<1>3. ASSUME round'[m][o].batch = EmptyTable PROVE Goal
  BY <1>2, <1>3, Zenon
<1> HIDE DEF Goal
<1>4. ASSUME UNCHANGED round PROVE Goal
  BY <1>1, <1>4
<1>5. ASSUME UNCHANGED vars PROVE Goal
  BY <1>4, <1>5 DEF vars
<1>6. ASSUME Next PROVE Goal
  <2>1. PICK n \in Node : \/ AgentStep(n) \/ MemberStep(n) \/ EngineStep(n) \/ Restart(n)
                          \/ \E q \in Req : ApiStep(n, q)
                          \/ \E p \in Node : PullStep(n, p) \/ RoundFails(n, p)
    BY <1>6, NextCases
  <2>2. CASE AgentStep(n) \/ MemberStep(n) \/ \E q \in Req : ApiStep(n, q)
    <3>1. UNCHANGED round
      BY <2>2, AgentFrame, MemberFrame, ApiFrame, Zenon
    <3> QED
      BY <1>4, <3>1
  <2>3. ASSUME round' = [round EXCEPT ![n] = NewRounds(n)] PROVE Goal
    <3>1. round'[m][o].batch \in {round[m][o].batch, EmptyTable}
      BY <2>3, NoRoundType, Zenon DEF NewRounds, RoundState, TypeInv, TypeOK
    <3> QED
      BY <1>1, <1>3, <3>1, Zenon
  <2>4. CASE EngineStep(n) \/ Restart(n)
    <3>1. UNCHANGED round \/ round' = [round EXCEPT ![n] = NewRounds(n)]
      BY <2>4, EngineFrame, Zenon DEF RoundAll, Restart
    <3> QED
      BY <1>4, <2>3, <3>1
  <2>5. ASSUME NEW p \in Node, PullStep(n, p) \/ RoundFails(n, p) PROVE Goal
    <3>1. CASE m = n /\ o = p
      <4>1. CASE ServePull(n, p)
        <5>1. round'[n][p].batch = ServeRows(rows[p], wm[n][p], round[n][p].sums)
          BY <4>1, PullFields, ZenonT(30)
        <5>2. rows[p] \in Table /\ events[p] \in SUBSET Event
          BY Zenon DEF TypeInv, TypeOK
        <5>3. ServeRows(rows[p], wm[n][p], round[n][p].sums)[key] \in {rows[p][key], NoRow}
          BY <5>2, ServedFromStore, Zenon
        <5> QED
          BY <3>1, <5>1, <5>3, Zenon DEF Goal
      <4>2. CASE ~ServePull(n, p)
        <5>1. round'[n][p].batch \in {round[n][p].batch, EmptyTable}
          BY <2>5, <4>2, PullBatch, Zenon
        <5> QED
          BY <1>1, <1>3, <3>1, <5>1, Zenon
      <4> QED
        BY <4>1, <4>2
    <3>2. CASE ~(m = n /\ o = p)
      <4>1. round'[m][o] = round[m][o]
        BY <2>5, <3>2, PullBatch
      <4> QED
        BY <1>1, <4>1
    <3> QED
      BY <3>1, <3>2
  <2> QED
    BY <2>1, <2>2, <2>4, <2>5, Zenon
<1> QED
  BY <1>5, <1>6, Zenon DEF Goal
=============================================================================
