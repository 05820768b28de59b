---------------------------- MODULE FleetProofs -----------------------------
(***************************************************************************)
(* The type invariant of Replication.  It needs the theory of finite sets: *)
(* AppendEvent and SetWatermark take a maximum, which only a finite log or *)
(* batch is sure to have.  Then the logs: what each step does to the events*)
(* and the watermarks.  Then what holds of every execution of the fleet,   *)
(* which follows from the invariants kept here and in VersionProofs.       *)
(***************************************************************************)
EXTENDS VersionProofs, FiniteSetTheorems, WellFoundedInduction

\* The latest timestamp of a non-empty finite batch exists: the one with the
\* fewest later ones has none.
LEMMA LatestIsLatest ==
  ASSUME NEW S \in SUBSET Timestamp, IsFiniteSet(S), S # {}
  PROVE  Latest(S) \in S /\ \A o \in S : AtMost(o, Latest(S))
<1> DEFINE Later(h) == {o \in S : After(o, h)}
           Counts   == {Cardinality(Later(h)) : h \in S}
<1>1. \A h \in S : IsFiniteSet(Later(h)) /\ Cardinality(Later(h)) \in Nat
  BY FS_Subset, FS_CardinalityType
<1>2. Counts \subseteq Nat /\ Counts # {}
  BY <1>1, Zenon
<1>3. PICK c \in Counts : \A d \in Counts : ~(<<d, c>> \in OpToRel(<, Nat))
  BY <1>2, NatLessThanWellFounded, WFMin, Zenon
<1>4. PICK h \in S : c = Cardinality(Later(h))
  OBVIOUS
<1>5. \A o \in S : AtMost(o, h)
  <2>1. SUFFICES ASSUME NEW o \in S, After(o, h) PROVE FALSE
    BY DEF AtMost
  <2>2. Later(o) \subseteq Later(h)
    BY <2>1, AfterIsTotalOrder
  <2>3. o \in Later(h) /\ o \notin Later(o)
    BY <2>1, AfterIsTotalOrder
  <2>4. Cardinality(Later(o)) <= Cardinality(Later(h)) /\ Cardinality(Later(h)) # Cardinality(Later(o))
    BY <1>1, <2>2, <2>3, FS_Subset, Zenon
  <2>5. Cardinality(Later(o)) < Cardinality(Later(h))
    <3>1. \A i, j \in Nat : i <= j /\ j # i => i < j
      OBVIOUS
    <3> HIDE DEF Later
    <3> QED
      BY <1>1, <2>4, <3>1
  <2>6. <<Cardinality(Later(o)), Cardinality(Later(h))>> \in OpToRel(<, Nat)
    BY <1>1, <2>5 DEF OpToRel
  <2> QED
    BY <1>3, <1>4, <2>6, Zenon
<1> QED
  BY <1>5 DEF Latest

\* A table has finitely many keys, so every query returns a finite batch.
LEMMA KeyFinite == IsFiniteSet(Key)
<1>1. IsFiniteSet(Kind)
  <2>1. Kind = {"runner"} \cup {"meta"}
    BY DEF Kind
  <2>2. IsFiniteSet({"runner"})
    BY FS_Singleton
  <2> QED
    BY <2>1, <2>2, FS_AddElement
<1> QED
  BY <1>1, FS_Product, StoreAssumption DEF Key

\* The HLCs of a batch are finitely many.
LEMMA BatchHLCs ==
  ASSUME NEW batch \in Table, NEW kinds
  PROVE  HLCs(batch, kinds) \in SUBSET Timestamp /\ IsFiniteSet(HLCs(batch, kinds))
<1> DEFINE D == {k \in KeysOf(batch) : k[1] \in kinds}
           f == [k \in D |-> batch[k].hlc]
<1>1. HLCs(batch, kinds) \in SUBSET Timestamp
  BY HLCsType
<1>2. IsFiniteSet(D)
  BY KeyFinite, FS_Subset DEF KeysOf
<1>3. f \in Surjection(D, HLCs(batch, kinds))
  BY DEF Surjection, HLCs
<1> QED
  BY <1>1, <1>2, <1>3, FS_Surjection

\* A watermark is moved to a timestamp it was shown, and never down.
LEMMA AdvanceWatermarkFacts ==
  ASSUME NEW w \in Timestamp, NEW S \in SUBSET Timestamp, IsFiniteSet(S)
  PROVE  /\ AdvanceWatermark(w, S) \in Timestamp
         /\ AtMost(w, AdvanceWatermark(w, S))
         /\ \A h \in S : AtMost(h, AdvanceWatermark(w, S))
<1>1. IsFiniteSet({w} \cup S)
  BY FS_AddElement, S \cup {w} = {w} \cup S
<1> QED
  BY <1>1, LatestIsLatest DEF AdvanceWatermark

\* The highest sequence number of a runner exists in every finite log, so the
\* next one is new to it.
LEMMA NextSeqIsFresh ==
  ASSUME NEW log \in SUBSET Event, IsFiniteSet(log), NEW n \in Node
  PROVE  /\ NextSeq(log, n) \in Nat \ {0}
         /\ \A e \in log : e.runner = n => e.seq < NextSeq(log, n)
<1> DEFINE Own  == {e \in log : e.runner = n}
           Seqs == {0} \cup SeqsOf(log, n)
<1>1. Seqs \subseteq Nat /\ IsFiniteSet(Seqs)
  <2>1. IsFiniteSet(Own)
    BY FS_Subset
  <2>2. [e \in Own |-> e.seq] \in Surjection(Own, SeqsOf(log, n))
    BY DEF Surjection, SeqsOf
  <2>3. IsFiniteSet(SeqsOf(log, n))
    BY <2>1, <2>2, FS_Surjection
  <2>4. IsFiniteSet(Seqs)
    BY <2>3, FS_AddElement, Seqs = SeqsOf(log, n) \cup {0}
  <2>5. Seqs \subseteq Nat
    BY DEF SeqsOf, Event
  <2> QED
    BY <2>4, <2>5
<1>2. PICK s \in Seqs : \A u \in SeqsOf(log, n) : u <= s
  <2> HIDE DEF Seqs
  <2> DEFINE T == {[ts |-> s, seq |-> 0] : s \in Seqs}
  <2>0. Seqs # {} /\ SeqsOf(log, n) \subseteq Seqs
    BY DEF Seqs
  <2>1. T \in SUBSET Timestamp /\ T # {}
    <3>1. \A s \in Seqs : [ts |-> s, seq |-> 0] \in Timestamp
      BY <1>1 DEF Timestamp
    <3> QED
      BY <2>0, <3>1, Zenon
  <2>2. [s \in Seqs |-> [ts |-> s, seq |-> 0]] \in Surjection(Seqs, T)
    BY DEF Surjection
  <2>3. IsFiniteSet(T)
    BY <1>1, <2>2, FS_Surjection
  <2>4. PICK h \in T : \A o \in T : AtMost(o, h)
    BY <2>1, <2>3, LatestIsLatest
  <2>5. PICK s \in Seqs : h = [ts |-> s, seq |-> 0]
    BY <2>4
  <2>6. ASSUME NEW u \in Seqs PROVE u <= s
    <3>1. [ts |-> u, seq |-> 0] \in T
      OBVIOUS
    <3>2. ~After([ts |-> u, seq |-> 0], h)
      BY <2>4, <3>1 DEF AtMost
    <3> QED
      BY <1>1, <2>5, <3>2 DEF After
  <2> QED
    BY <2>0, <2>5, <2>6
<1>3. LastSeq(log, n) \in Seqs /\ \A u \in SeqsOf(log, n) : u <= LastSeq(log, n)
  BY <1>2, Zenon DEF LastSeq
<1>4. LastSeq(log, n) \in Nat
  BY <1>1, <1>3
<1>5. \A e \in log : e.runner = n => e.seq \in SeqsOf(log, n) /\ e.seq \in Nat
  BY DEF SeqsOf, Event
<1> QED
  BY <1>3, <1>4, <1>5 DEF NextSeq

\* AppendEvent adds one well-formed event to a finite log.
LEMMA AppendEventFacts ==
  ASSUME NEW log \in SUBSET Event, IsFiniteSet(log), NEW n \in Node, NEW m \in Node,
         NEW type \in {"joined", "left"}, NEW hlc \in Timestamp
  PROVE  /\ AppendEvent(log, n, type, m, hlc) \in SUBSET Event
         /\ IsFiniteSet(AppendEvent(log, n, type, m, hlc))
<1>1. NextSeq(log, n) \in Nat \ {0}
  BY NextSeqIsFresh
<1>2. [runner |-> n, seq |-> NextSeq(log, n), type |-> type, about |-> m, hlc |-> hlc] \in Event
  BY <1>1 DEF Event
<1> QED
  BY <1>2, FS_AddElement, Zenon DEF AppendEvent

\* ApplyEvents keeps a log finite and adds only events of the batch.
LEMMA ApplyEventsFacts ==
  ASSUME NEW log \in SUBSET Event, IsFiniteSet(log),
         NEW batch \in SUBSET Event, IsFiniteSet(batch)
  PROVE  ApplyEvents(log, batch) \in SUBSET Event /\ IsFiniteSet(ApplyEvents(log, batch))
<1> DEFINE new == {e \in batch : \A f \in log : f.runner # e.runner \/ f.seq # e.seq}
<1>1. IsFiniteSet(new)
  BY FS_Subset
<1> QED
  BY <1>1, FS_Union, Zenon DEF ApplyEvents

\* The HLCs of a finite batch of events are finitely many timestamps.
LEMMA EventHLCsFinite ==
  ASSUME NEW evs \in SUBSET Event, IsFiniteSet(evs)
  PROVE  {e.hlc : e \in evs} \in SUBSET Timestamp /\ IsFiniteSet({e.hlc : e \in evs})
<1>1. [e \in evs |-> e.hlc] \in Surjection(evs, {e.hlc : e \in evs})
  BY DEF Surjection
<1> QED
  BY <1>1, FS_Surjection DEF Event

-----------------------------------------------------------------------------
(* Every step keeps the types. *)
\* roundAll starts rounds of the right type.
LEMMA NewRoundsType ==
  ASSUME NEW n \in Node
  PROVE  NewRounds(n) \in [Node -> RoundState] /\ \A p \in Node : PullOK(NewRounds(n)[p])
<1>1. ASSUME NEW p \in Node
      PROVE  NewRounds(n)[p] \in RoundState /\ PullOK(NewRounds(n)[p])
  <2>1. /\ NewRounds(n)[p] \in RoundState
        /\ NewRounds(n)[p].pc \in {"done", "start"} /\ NewRounds(n)[p].evs = {}
    BY NoRoundType DEF NewRounds, RoundState
  <2> QED
    BY <2>1, FS_EmptySet DEF PullOK
<1> QED
  BY <1>1 DEF NewRounds

\* The daemons' initial state has its types.
LEMMA InitType == Init => TypeInv
<1> SUFFICES ASSUME Init PROVE TypeInv
  OBVIOUS
<1>1. /\ rows \in [Node -> Table] /\ events \in [Node -> SUBSET Event]
      /\ clock \in [Node -> Timestamp] /\ Zero \in Timestamp
  BY NoRoundType, AtMostFacts, Zenon DEF Init
<1>2. round \in [Node -> [Node -> RoundState]] /\ PullsOK
  BY NewRoundsType DEF Init, PullsOK
<1>3. TypeOK
  BY <1>1, <1>2 DEF Init, TypeOK, NewAgent, NoReport, NoRequest, NewEngine,
                    AgentState, MemberState, RequestState, EngineState
<1>4. FiniteLogs
  BY FS_EmptySet DEF Init, FiniteLogs
<1> QED
  BY <1>2, <1>3, <1>4 DEF TypeInv

\* The agent's Start and Step keep the types.
LEMMA AgentType ==
  ASSUME TypeInv, NEW n \in Node, AgentStep(n)
  PROVE  TypeInv'
<1> USE DEF TypeInv, AgentState
<1>1. CASE AgentTick(n)
  <2>1. PICK h \in Stamps(n) : /\ clock' = [clock EXCEPT ![n] = h]
          /\ agent' = [agent EXCEPT ![n] = [pc |-> IF @.pc = "boot" THEN "startPut" ELSE "stepPut",
                                            hlc |-> h]]
          /\ UNCHANGED <<durable, epoch, member, api, pulls>>
    BY <1>1, Zenon DEF AgentTick
  <2>2. h \in Timestamp
    BY <2>1, StampFacts
  <2> QED
    BY <2>1, <2>2, Zenon DEF TypeOK, FiniteLogs, PullsOK, durable, pulls
<1>2. ASSUME NEW s \in Status, PutRunner(n, s) PROVE rows' \in [Node -> Table]
  <2>1. /\ rows[n] \in Table /\ <<"runner", n>> \in Key /\ AgentOwner(n, epoch[n]) \in Owner
        /\ agent[n].hlc \in Timestamp /\ {s} \in SUBSET Attr
    BY ReplicationAssumption, Zenon DEF TypeOK, Key, Kind, AgentOwner, Owner
  <2>2. Put(rows[n], <<"runner", n>>, AgentOwner(n, epoch[n]), agent[n].hlc, {s}) \in Table
    BY <2>1, RowWrites
  <2> QED
    BY <1>2, <2>1, <2>2 DEF PutRunner, Follow, TypeOK
<1>3. CASE StartPut(n)
  <2>1. rows' \in [Node -> Table]
    BY <1>2, <1>3, ReplicationAssumption DEF StartPut
  <2>2. agent' \in [Node -> AgentState]
    BY <1>3, Zenon DEF StartPut, TypeOK
  <2> QED
    BY <1>3, <2>1, <2>2 DEF StartPut, TypeOK, FiniteLogs, PullsOK, pulls
<1>4. CASE StartEmit(n)
  <2>1. /\ events[n] \in SUBSET Event /\ IsFiniteSet(events[n]) /\ agent[n].hlc \in Timestamp
    BY DEF TypeOK, FiniteLogs
  <2>2. /\ AppendEvent(events[n], n, "joined", n, agent[n].hlc) \in SUBSET Event
        /\ IsFiniteSet(AppendEvent(events[n], n, "joined", n, agent[n].hlc))
    BY <2>1, AppendEventFacts
  <2>3. events' \in [Node -> SUBSET Event] /\ \A m \in Node : IsFiniteSet(events'[m])
    BY <1>4, <2>1, <2>2, Zenon DEF StartEmit, Follow, TypeOK, FiniteLogs
  <2> QED
    BY <1>4, <2>3, AtMostFacts, Zenon DEF StartEmit, TypeOK, FiniteLogs, PullsOK, pulls
<1>5. CASE StepPut(n)
  <2>1. rows' \in [Node -> Table]
    BY <1>2, <1>5, Zenon DEF StepPut, TypeOK
  <2> QED
    BY <1>5, <2>1, AtMostFacts, Zenon DEF StepPut, TypeOK, FiniteLogs, PullsOK, pulls
<1> QED
  BY <1>1, <1>3, <1>4, <1>5 DEF AgentStep

\* The membership handler keeps the types.
LEMMA MemberType ==
  ASSUME TypeInv, NEW n \in Node, MemberStep(n)
  PROVE  TypeInv'
<1> USE DEF TypeInv, MemberState
<1>1. CASE MemberTick(n)
  <2>1. PICK h \in Stamps(n), r \in Reports :
          /\ clock' = [clock EXCEPT ![n] = h]
          /\ member' = [member EXCEPT ![n] =
               CASE r[1] = "join"   -> [pc |-> "emit", type |-> "joined", about |-> r[2], hlc |-> h]
                 [] r[1] = "leave"  -> [pc |-> "prune", type |-> "left", about |-> r[2], hlc |-> h]
                 [] r[1] = "update" -> @]
          /\ UNCHANGED <<durable, epoch, agent, api, pulls>>
    BY <1>1, Zenon DEF MemberTick
  <2>2. h \in Timestamp /\ r[1] \in {"join", "leave", "update"} /\ r[2] \in Node
    BY <2>1, StampFacts, ReplicationAssumption
  <2>3. member' \in [Node -> MemberState]
    BY <2>1, <2>2, Zenon DEF TypeOK
  <2> QED
    BY <2>1, <2>2, <2>3, Zenon DEF TypeOK, FiniteLogs, PullsOK, durable, pulls
<1>2. CASE MemberPrune(n)
  <2>0. rows \in [Node -> Table] /\ member \in [Node -> MemberState]
    BY Zenon DEF TypeOK
  <2>1. /\ rows[n] \in Table /\ member[n].hlc \in Timestamp
    BY <2>0
  <2>2. DeleteByNode(rows[n], member[n].about, member[n].hlc) \in Table
    BY <2>1, DeleteByNodeType
  <2>3. rows' \in [Node -> Table]
    <3>1. rows' = rows \/ rows' = [rows EXCEPT ![n] = DeleteByNode(@, member[n].about, member[n].hlc)]
      BY <1>2, Zenon DEF MemberPrune
    <3> QED
      BY <2>0, <2>2, <3>1, Zenon
  <2>4. member' \in [Node -> MemberState]
    <3>1. member' = [member EXCEPT ![n].pc = "emit"]
      BY <1>2, Zenon DEF MemberPrune
    <3> QED
      BY <2>0, <3>1
  <2> QED
    BY <1>2, <2>3, <2>4, Zenon DEF MemberPrune, TypeOK, FiniteLogs, PullsOK, pulls
<1>3. CASE MemberEmit(n)
  <2> DEFINE new == AppendEvent(events[n], n, member[n].type, member[n].about, member[n].hlc)
  <2>1. /\ events[n] \in SUBSET Event /\ IsFiniteSet(events[n]) /\ member[n] \in MemberState
    BY DEF TypeOK, FiniteLogs
  <2>2. new \in SUBSET Event /\ IsFiniteSet(new)
    BY <2>1, AppendEventFacts, Zenon
  <2> HIDE DEF new
  <2>3. events' \in [Node -> SUBSET Event] /\ FiniteLogs'
    <3>1. events' = events \/ events' = [events EXCEPT ![n] = new]
      BY <1>3, <2>1 DEF MemberEmit, Follow, TypeOK, new
    <3> QED
      BY <3>1, <2>2, ZenonT(30) DEF TypeOK, FiniteLogs
  <2>4. member' \in [Node -> MemberState]
    BY <1>3, AtMostFacts, Zenon DEF MemberEmit, TypeOK, NoReport
  <2> QED
    BY <1>3, <2>3, <2>4, Zenon DEF MemberEmit, TypeOK, PullsOK, pulls
<1> QED
  BY <1>1, <1>2, <1>3 DEF MemberStep

\* The label handlers keep the types.
LEMMA ApiType ==
  ASSUME TypeInv, NEW n \in Node, NEW q \in Req, ApiStep(n, q)
  PROVE  TypeInv'
<1> USE DEF TypeInv, RequestState
<1>0. /\ rows[n] \in Table /\ api \in [Node -> [Req -> RequestState]] /\ api[n][q] \in RequestState
      /\ ApiOwner(n) \in Owner /\ NoRequest(n) \in RequestState
  <2>1. rows[n] \in Table /\ api \in [Node -> [Req -> RequestState]]
    BY Zenon DEF TypeOK
  <2>2. ApiOwner(n) \in Owner
    BY DEF ApiOwner, Owner
  <2>3. NoRequest(n) \in RequestState
    BY AtMostFacts DEF NoRequest
  <2> QED
    BY <2>1, <2>2, <2>3
<1>1. CASE PutLabelsRead(n, q)
  <2>1. PICK id \in Node, incoming \in SUBSET Label :
          api' = [api EXCEPT ![n][q] =
            [pc |-> "merged", id |-> id, hlc |-> Zero,
             payload |-> incoming \cup (IF Live(rows[n], <<"meta", id>>)
                                        THEN rows[n][<<"meta", id>>].payload ELSE {})]]
    BY <1>1, Zenon DEF PutLabelsRead
  <2>2. <<"meta", id>> \in Key
    BY DEF Key, Kind
  <2>3. Live(rows[n], <<"meta", id>>) => rows[n][<<"meta", id>>].payload \in SUBSET Attr
    BY <1>0, <2>2, Zenon DEF Live, Table, Row
  <2>4. api' \in [Node -> [Req -> RequestState]]
    <3> DEFINE new == [pc |-> "merged", id |-> id, hlc |-> Zero,
             payload |-> incoming \cup (IF Live(rows[n], <<"meta", id>>)
                                        THEN rows[n][<<"meta", id>>].payload ELSE {})]
    <3>1. new \in RequestState
      BY <2>3, AtMostFacts, ReplicationAssumption, Zenon
    <3> HIDE DEF new
    <3> QED
      BY <1>0, <2>1, <3>1, Zenon DEF new
  <2> QED
    BY <1>1, <2>4, Zenon DEF PutLabelsRead, TypeOK, FiniteLogs, PullsOK, durable, pulls
<1>2. CASE PutLabelsTick(n, q)
  <2>1. PICK h \in Stamps(n) :
          /\ clock' = [clock EXCEPT ![n] = h]
          /\ api' = [api EXCEPT ![n][q].pc = "put", ![n][q].hlc = h]
    BY <1>2, Zenon DEF PutLabelsTick
  <2>2. h \in Timestamp
    BY <2>1, StampFacts
  <2>3. api' \in [Node -> [Req -> RequestState]] /\ clock' \in [Node -> Timestamp]
    BY <1>0, <2>1, <2>2, Zenon DEF TypeOK
  <2> QED
    BY <1>2, <2>3, Zenon DEF PutLabelsTick, TypeOK, FiniteLogs, PullsOK, durable, pulls
<1>3. CASE PutLabels(n, q) \/ DeleteLabels(n, q)
  <2>1. <<"meta", api[n][q].id>> \in Key
    BY <1>0 DEF Key, Kind
  <2>2. /\ Put(rows[n], <<"meta", api[n][q].id>>, ApiOwner(n), api[n][q].hlc, api[n][q].payload) \in Table
        /\ Delete(rows[n], <<"meta", api[n][q].id>>, ApiOwner(n), api[n][q].hlc) \in Table
    BY <1>0, <2>1, RowWrites, Zenon
  <2>3. rows' \in [Node -> Table]
    BY <1>3, <2>2, ZenonT(30) DEF PutLabels, DeleteLabels, TypeOK
  <2>4. api' \in [Node -> [Req -> RequestState]]
    <3>1. api' = [api EXCEPT ![n][q] = NoRequest(n)]
      BY <1>3, Zenon DEF PutLabels, DeleteLabels
    <3> HIDE DEF RequestState
    <3> QED
      BY <1>0, <3>1
  <2> QED
    BY <1>3, <2>3, <2>4, Zenon DEF PutLabels, DeleteLabels, TypeOK, FiniteLogs, PullsOK, pulls
<1>4. CASE DeleteLabelsTick(n, q)
  <2>1. PICK h \in Stamps(n), id \in Node :
          /\ clock' = [clock EXCEPT ![n] = h]
          /\ api' = [api EXCEPT ![n][q] = [pc |-> "delete", id |-> id, hlc |-> h, payload |-> {}]]
    BY <1>4, Zenon DEF DeleteLabelsTick
  <2>2. h \in Timestamp
    BY <2>1, StampFacts
  <2>3. api' \in [Node -> [Req -> RequestState]] /\ clock' \in [Node -> Timestamp]
    BY <1>0, <2>1, <2>2, Zenon DEF TypeOK
  <2> QED
    BY <1>4, <2>3, Zenon DEF DeleteLabelsTick, TypeOK, FiniteLogs, PullsOK, durable, pulls
<1> QED
  BY <1>1, <1>2, <1>3, <1>4 DEF ApiStep

\* The engine's loop and its tombstone GC keep the types.
LEMMA EngineType ==
  ASSUME TypeInv, NEW n \in Node, EngineStep(n)
  PROVE  TypeInv'
<1> USE DEF TypeInv, EngineState
<1>1. CASE RoundAll(n)
  <2>1. engine' \in [Node -> EngineState]
    BY <1>1, Zenon DEF RoundAll, TypeOK
  <2>2. round' \in [Node -> [Node -> RoundState]] /\ PullsOK'
    BY <1>1, NewRoundsType DEF RoundAll, TypeOK, PullsOK
  <2> QED
    BY <1>1, <2>1, <2>2 DEF RoundAll, TypeOK, FiniteLogs, durable, handlers
<1>2. CASE GCTick(n)
  <2>1. ASSUME NEW h \in Stamps(n) PROVE h \in Timestamp /\ GCMin(h.ts) \in Nat
    BY StampFacts, ReplicationAssumption DEF GCMin, Timestamp
  <2>2. clock' \in [Node -> Timestamp]
    BY <1>2, <2>1, Zenon DEF GCTick, TypeOK
  <2>3. engine' \in [Node -> EngineState]
    <3>1. CASE \E h \in Stamps(n) : engine' = [engine EXCEPT ![n] = [pc |-> "gc", min |-> GCMin(h.ts)]]
      BY <2>1, <3>1 DEF TypeOK
    <3>2. CASE engine' = [engine EXCEPT ![n].pc = "rest"]
      BY <3>2, Zenon DEF TypeOK
    <3> QED
      BY <1>2, <3>1, <3>2 DEF GCTick
  <2> QED
    BY <1>2, <2>2, <2>3 DEF GCTick, TypeOK, FiniteLogs, PullsOK, durable, handlers
<1>3. CASE GC(n)
  <2>1. rows[n] \in Table
    BY DEF TypeOK
  <2>2. GCTombstones(rows[n], [ts |-> engine[n].min, seq |-> 0]) \in Table
    BY <2>1, GCTombstonesType
  <2>3. rows' \in [Node -> Table]
    BY <1>3, <2>2, Zenon DEF GC, TypeOK
  <2>4. engine' \in [Node -> EngineState]
    BY <1>3, Zenon DEF GC, TypeOK
  <2> QED
    BY <1>3, <2>3, <2>4, Zenon DEF GC, TypeOK, FiniteLogs, PullsOK, handlers
<1> QED
  BY <1>1, <1>2, <1>3 DEF EngineStep

\* A non-empty batch of rows has a latest HLC, the one RoundOnce shows the clock.
LEMMA BatchLatest ==
  ASSUME TypeInv, NEW n \in Node, NEW p \in Node, round[n][p].pc \in {"applyRows", "updateRows"}
  PROVE  LET S == HLCs(round[n][p].batch, Kind) IN
         Latest(S) \in Timestamp /\ \A h \in S : AtMost(h, Latest(S))
<1> DEFINE batch == round[n][p].batch
<1>1. batch \in Table /\ KeysOf(batch) # {}
  BY DEF TypeInv, TypeOK, RoundState, PullsOK, PullOK
<1> HIDE DEF batch
<1>2. HLCs(batch, Kind) # {}
  BY <1>1 DEF HLCs, KeysOf, Key
<1>3. HLCs(batch, Kind) \in SUBSET Timestamp /\ IsFiniteSet(HLCs(batch, Kind))
  BY <1>1, BatchHLCs
<1> QED
  BY <1>2, <1>3, LatestIsLatest, Zenon DEF batch

\* A non-empty batch of events has a latest HLC.
LEMMA EventsLatest ==
  ASSUME TypeInv, NEW n \in Node, NEW p \in Node,
         round[n][p].pc \in {"applyEvents", "setWatermark", "updateEvents"}
  PROVE  LET S == EventHLCs(round[n][p].evs) IN
         Latest(S) \in Timestamp /\ \A h \in S : AtMost(h, Latest(S))
<1> DEFINE evs == round[n][p].evs
<1>1. evs \in SUBSET Event /\ IsFiniteSet(evs) /\ evs # {}
  BY DEF TypeInv, TypeOK, RoundState, PullsOK, PullOK
<1> HIDE DEF evs
<1>2. EventHLCs(evs) # {}
  BY <1>1, Zenon DEF EventHLCs
<1>3. EventHLCs(evs) \in SUBSET Timestamp /\ IsFiniteSet(EventHLCs(evs))
  BY <1>1, EventHLCsFinite DEF EventHLCs
<1> QED
  BY <1>2, <1>3, LatestIsLatest, Zenon DEF evs

\* The types imply it: batches are finite, and not empty where they are used.
LEMMA LatestHolds == TypeInv => LatestInv
BY BatchLatest, EventsLatest, Zenon DEF LatestInv

\* The watermarks a pull writes are timestamps at or above those it replaces.
LEMMA WatermarkStep ==
  ASSUME TypeInv, NEW n \in Node, NEW p \in Node,
         ApplyRows(n, p) \/ SetEventWatermark(n, p)
  PROVE  /\ wm' \in [Node -> [Node -> [WmKind -> Timestamp]]]
         /\ \A m, o \in Node, k \in WmKind : AtMost(wm[m][o][k], wm'[m][o][k])
<1>0. wm \in [Node -> [Node -> [WmKind -> Timestamp]]] /\ "event" \in WmKind
  BY ZenonT(30) DEF TypeInv, TypeOK, WmKind
<1>1. CASE ApplyRows(n, p)
  <2> DEFINE new == [k \in WmKind |-> AdvanceWatermark(wm[n][p][k], HLCs(round[n][p].batch, {k}))]
  <2>1. wm' = [wm EXCEPT ![n][p] = new]
    BY <1>0, <1>1, Zenon DEF ApplyRows
  <2>2. round[n][p].batch \in Table
    BY DEF TypeInv, TypeOK, RoundState
  <2>3. \A k \in WmKind : new[k] \in Timestamp /\ AtMost(wm[n][p][k], new[k])
    BY <1>0, <2>2, BatchHLCs, AdvanceWatermarkFacts
  <2>4. new \in [WmKind -> Timestamp]
    BY <2>3, Zenon
  <2> HIDE DEF new
  <2> QED
    BY <1>0, <2>1, <2>3, <2>4, AtMostFacts
<1>2. CASE SetEventWatermark(n, p)
  <2> DEFINE new == AdvanceWatermark(wm[n][p]["event"], EventHLCs(round[n][p].evs))
  <2>1. wm' = [wm EXCEPT ![n][p]["event"] = new]
    BY <1>2, Zenon DEF SetEventWatermark
  <2>2. round[n][p].evs \in SUBSET Event /\ IsFiniteSet(round[n][p].evs)
    BY DEF TypeInv, TypeOK, RoundState, PullsOK, PullOK
  <2>3. new \in Timestamp /\ AtMost(wm[n][p]["event"], new)
    <3>1. EventHLCs(round[n][p].evs) \in SUBSET Timestamp /\ IsFiniteSet(EventHLCs(round[n][p].evs))
      BY <2>2, EventHLCsFinite, Zenon DEF EventHLCs
    <3> QED
      BY <1>0, <3>1, AdvanceWatermarkFacts
  <2> HIDE DEF new
  <2> QED
    BY <1>0, <2>1, <2>3, AtMostFacts
<1> QED
  BY <1>1, <1>2, Zenon

\* Every step of RoundOnce, and its failure, keeps the types.
LEMMA PullType ==
  ASSUME TypeInv, NEW n \in Node, NEW p \in Node, PullStep(n, p) \/ RoundFails(n, p)
  PROVE  TypeInv'
<1> USE DEF TypeInv
<1> DEFINE r == round[n][p]
<1>0. /\ r \in RoundState /\ PullOK(r)
      /\ rows[n] \in Table /\ rows[p] \in Table
      /\ events[n] \in SUBSET Event /\ IsFiniteSet(events[n])
      /\ events[p] \in SUBSET Event /\ IsFiniteSet(events[p])
      /\ clock[n] \in Timestamp
  BY DEF TypeOK, PullsOK, FiniteLogs
<1>1. CASE SendPull(n, p)
  <2> DEFINE new == [NoRound EXCEPT !.pc = "sent", !.sums = [k \in Kind |-> Summary(rows[n], k)],
                                    !.evSum = EventSummary(events[n])]
  <2>1. new \in RoundState /\ PullOK(new)
    <3>1. \A k \in Kind : /\ Summary(rows[n], k) \in SUBSET (Node \X Timestamp)
                          /\ EventSummary(events[n]) \in SUBSET (Node \X Nat \X Timestamp)
      BY <1>0, SummaryType, Zenon
    <3>2. EventSummary(events[n]) \in SUBSET (Node \X Nat \X Timestamp)
      BY <3>1 DEF Kind
    <3>3. [k \in Kind |-> Summary(rows[n], k)] \in [Kind -> SUBSET (Node \X Timestamp)]
      BY <3>1
    <3>4. new \in RoundState /\ new.pc = "sent" /\ new.evs = {}
      BY <3>2, <3>3, NoRoundType, Zenon DEF RoundState
    <3> HIDE DEF new
    <3> QED
      BY <3>4, FS_EmptySet DEF PullOK
  <2> HIDE DEF new
  <2>2. round' = [round EXCEPT ![n][p] = new]
    BY <1>1 DEF SendPull, new
  <2>3. round' \in [Node -> [Node -> RoundState]] /\ PullsOK'
    BY <2>1, <2>2, PullStepType, Zenon
  <2> QED
    BY <1>1, <2>3, Zenon DEF SendPull, TypeOK, FiniteLogs, durable, handlers
<1>2. CASE ServePull(n, p)
  <2> DEFINE batch == ServeRows(rows[p], wm[n][p], r.sums)
             evs   == ServeEvents(events[p], wm[n][p]["event"], r.evSum)
             next  == IF KeysOf(batch) # {} THEN "applyRows" ELSE AfterRows(evs)
             new   == [NoRound EXCEPT !.pc = next, !.batch = batch, !.evs = evs]
  <2>1. batch \in Table /\ evs \in SUBSET Event /\ IsFiniteSet(evs)
    <3>1. batch \in Table /\ evs \subseteq events[p]
      BY <1>0, ServedFromStore, Zenon
    <3> HIDE DEF batch, evs
    <3> QED
      BY <1>0, <3>1, FS_Subset
  <2>2. round' = [round EXCEPT ![n][p] = new]
    BY <1>2 DEF ServePull
  <2> HIDE DEF batch, evs
  <2>3. new \in RoundState /\ PullOK(new)
    <3>1. /\ next \in {"applyRows", "applyEvents", "done"}
          /\ next = "applyRows" => KeysOf(batch) # {}
          /\ next = "applyEvents" => evs # {}
      BY DEF AfterRows
    <3> HIDE DEF next
    <3>2. new \in RoundState /\ new.pc = next /\ new.batch = batch /\ new.evs = evs
      BY <2>1, <3>1, NoRoundType, Zenon DEF RoundState
    <3> HIDE DEF new
    <3> QED
      BY <2>1, <3>1, <3>2 DEF PullOK
  <2> HIDE DEF new
  <2>4. round' \in [Node -> [Node -> RoundState]] /\ PullsOK'
    BY <2>2, <2>3, PullStepType, Zenon
  <2> QED
    BY <1>2, <2>4, Zenon DEF ServePull, TypeOK, FiniteLogs, durable, handlers
<1>3. ASSUME NEW pc \in {"updateRows", "setWatermark", "updateEvents"},
             round' = [round EXCEPT ![n][p].pc = pc],
             pc = "updateRows" => r.pc = "applyRows",
             pc = "setWatermark" => r.pc = "applyEvents",
             pc = "updateEvents" => r.pc = "setWatermark"
      PROVE  round' \in [Node -> [Node -> RoundState]] /\ PullsOK'
  <2> DEFINE new == [r EXCEPT !.pc = pc]
  <2>1. new \in RoundState /\ new.pc = pc /\ new.batch = r.batch /\ new.evs = r.evs
    BY <1>0, Zenon DEF RoundState
  <2>2. round' = [round EXCEPT ![n][p] = new]
    BY <1>3 DEF TypeOK
  <2> HIDE DEF new, r
  <2>3. PullOK(new)
    BY <1>0, <1>3, <2>1 DEF PullOK
  <2> QED
    BY <2>1, <2>2, <2>3, PullStepType, Zenon
<1>4. CASE ApplyRows(n, p)
  <2>1. ApplyRemote(rows[n], r.batch) \in Table
    BY <1>0, ApplyRemoteType, Zenon DEF RoundState
  <2>2. rows' \in [Node -> Table]
    BY <1>4, <2>1, Zenon DEF ApplyRows, TypeOK
  <2>3. round' \in [Node -> [Node -> RoundState]] /\ PullsOK'
    BY <1>3, <1>4, Zenon DEF ApplyRows
  <2>4. wm' \in [Node -> [Node -> [WmKind -> Timestamp]]]
    BY <1>4, WatermarkStep
  <2> QED
    BY <1>4, <2>2, <2>3, <2>4, Zenon DEF ApplyRows, TypeOK, FiniteLogs, handlers
<1>5. CASE UpdateFromRows(n, p)
  <2> DEFINE new == [NoRound EXCEPT !.pc = AfterRows(r.evs), !.evs = r.evs]
  <2>1. new \in RoundState /\ PullOK(new)
    <3>1. AfterRows(r.evs) \in {"done", "applyEvents"} /\ (AfterRows(r.evs) = "applyEvents" => r.evs # {})
      BY DEF AfterRows
    <3>2. r.evs \in SUBSET Event /\ IsFiniteSet(r.evs)
      BY <1>0, Zenon DEF RoundState, PullOK
    <3>3. new \in RoundState /\ new.pc = AfterRows(r.evs) /\ new.evs = r.evs
      BY <3>1, <3>2, NoRoundType, Zenon DEF RoundState
    <3> HIDE DEF new, r
    <3> QED
      BY <3>1, <3>2, <3>3 DEF PullOK
  <2>2. round' = [round EXCEPT ![n][p] = new]
    BY <1>5 DEF UpdateFromRows
  <2> HIDE DEF new
  <2>3. round' \in [Node -> [Node -> RoundState]] /\ PullsOK'
    BY <2>1, <2>2, PullStepType, Zenon
  <2>4. Latest(HLCs(r.batch, Kind)) \in Timestamp
    BY <1>5, BatchLatest, Zenon DEF UpdateFromRows
  <2>5. Update(clock[n], Latest(HLCs(r.batch, Kind))) \in Timestamp
    BY <1>0, <2>4, UpdateIsJoin
  <2>6. clock' \in [Node -> Timestamp]
    BY <1>5, <2>5 DEF UpdateFromRows, TypeOK
  <2> QED
    BY <1>5, <2>3, <2>6, Zenon DEF UpdateFromRows, TypeOK, FiniteLogs, durable, handlers
<1>6. CASE ApplyLog(n, p)
  <2>1. r.evs \in SUBSET Event /\ IsFiniteSet(r.evs)
    BY <1>0, Zenon DEF RoundState, PullOK
  <2>2. ApplyEvents(events[n], r.evs) \in SUBSET Event /\ IsFiniteSet(ApplyEvents(events[n], r.evs))
    BY <1>0, <2>1, ApplyEventsFacts, Zenon
  <2>3. events' \in [Node -> SUBSET Event] /\ FiniteLogs'
    BY <1>6, <2>2, Zenon DEF ApplyLog, TypeOK, FiniteLogs
  <2>4. round' \in [Node -> [Node -> RoundState]] /\ PullsOK'
    BY <1>3, <1>6 DEF ApplyLog
  <2> QED
    BY <1>6, <2>3, <2>4, Zenon DEF ApplyLog, TypeOK, handlers
<1>7. CASE SetEventWatermark(n, p)
  <2>1. round' \in [Node -> [Node -> RoundState]] /\ PullsOK'
    BY <1>3, <1>7, Zenon DEF SetEventWatermark
  <2>2. wm' \in [Node -> [Node -> [WmKind -> Timestamp]]]
    BY <1>7, WatermarkStep
  <2> QED
    BY <1>7, <2>1, <2>2, Zenon DEF SetEventWatermark, TypeOK, FiniteLogs, handlers
<1>8. PullOK(NoRound) /\ NoRound \in RoundState
  BY NoRoundType, FS_EmptySet DEF PullOK
<1>9. CASE UpdateFromEvents(n, p)
  <2>1. round' \in [Node -> [Node -> RoundState]] /\ PullsOK'
    BY <1>8, <1>9, PullStepType, ZenonT(30) DEF UpdateFromEvents
  <2>2. Latest(EventHLCs(r.evs)) \in Timestamp
    BY <1>9, EventsLatest, Zenon DEF UpdateFromEvents
  <2>3. Update(clock[n], Latest(EventHLCs(r.evs))) \in Timestamp
    BY <1>0, <2>2, UpdateIsJoin
  <2>4. clock' \in [Node -> Timestamp]
    BY <1>9, <2>3, Zenon DEF UpdateFromEvents, TypeOK
  <2> QED
    BY <1>9, <2>1, <2>4, Zenon DEF UpdateFromEvents, TypeOK, FiniteLogs, durable, handlers
<1>10. CASE RoundFails(n, p)
  <2> DEFINE new == [NoRound EXCEPT !.pc = "failed"]
  <2>1. new \in RoundState /\ new.pc = "failed" /\ new.evs = {}
    BY NoRoundType DEF RoundState
  <2> HIDE DEF new
  <2>2. PullOK(new)
    BY <2>1, FS_EmptySet DEF PullOK
  <2>3. round' = [round EXCEPT ![n][p] = new]
    BY <1>10 DEF RoundFails, new
  <2>4. round' \in [Node -> [Node -> RoundState]] /\ PullsOK'
    BY <2>1, <2>2, <2>3, PullStepType, ZenonT(30)
  <2> QED
    BY <1>10, <2>4, Zenon DEF RoundFails, TypeOK, FiniteLogs, durable, handlers
<1> QED
  BY <1>1, <1>2, <1>4, <1>5, <1>6, <1>7, <1>9, <1>10 DEF PullStep

\* A restart on the same database keeps the types.
LEMMA RestartType ==
  ASSUME TypeInv, NEW n \in Node, Restart(n)
  PROVE  TypeInv'
<1> USE DEF TypeInv, Restart
<1>1. round' \in [Node -> [Node -> RoundState]] /\ PullsOK'
  BY NewRoundsType, Zenon DEF TypeOK, PullsOK
<1>2. clock' \in [Node -> Timestamp] /\ epoch' \in [Node -> Nat \ {0}]
  BY AtMostFacts DEF TypeOK
<1>3. /\ NewAgent \in AgentState /\ NoReport(n) \in MemberState /\ NewEngine \in EngineState
      /\ [q \in Req |-> NoRequest(n)] \in [Req -> RequestState]
  BY AtMostFacts, Zenon DEF NewAgent, NoReport, NoRequest, NewEngine,
                     AgentState, MemberState, RequestState, EngineState
<1>4. /\ agent' \in [Node -> AgentState] /\ member' \in [Node -> MemberState]
      /\ api' \in [Node -> [Req -> RequestState]] /\ engine' \in [Node -> EngineState]
  BY <1>3, Zenon DEF TypeOK
<1> QED
  BY <1>1, <1>2, <1>4, Zenon DEF TypeOK, FiniteLogs, durable

\* Every step keeps the types.
LEMMA NextType ==
  ASSUME TypeInv, [Next]_vars
  PROVE  TypeInv'
<1>1. CASE UNCHANGED vars
  BY <1>1, Zenon DEF vars, TypeInv, TypeOK, FiniteLogs, PullsOK
<1>2. CASE Next
  <2>1. PICK n \in Node : \/ AgentStep(n) \/ MemberStep(n) \/ EngineStep(n) \/ Restart(n)
                          \/ \E q \in Req : ApiStep(n, q)
                          \/ \E p \in Node : PullStep(n, p) \/ RoundFails(n, p)
    BY <1>2, NextCases
  <2> QED
    BY <2>1, AgentType, MemberType, EngineType, RestartType, ApiType, PullType
<1> QED
  BY <1>1, <1>2

\* Types, finite logs, and pulls that have something to apply: the inductive
\* invariant behind TypeCorrect and the base of every other proof (RoundOnce
\* takes the maximum of a batch, which exists only if the batch is not empty).
THEOREM TypeInvariant == Spec => []TypeInv
<1> QED
  BY InitType, NextType, PTL DEF Spec

\* Type correctness of the whole fleet: whatever the wall clocks read, however
\* pulls, writes, crashes and failures interleave, every clock, watermark and
\* row keeps its shape, every pull that is about to move a clock has a latest
\* timestamp to move it to, and no cutoff of the tombstone GC is negative.
THEOREM TypeCorrect == Spec => []TypeOK
<1>1. TypeInv => TypeOK
  BY DEF TypeInv
<1> QED
  BY <1>1, TypeInvariant, PTL

\* No step of any goroutine, no failure and no restart moves a watermark down
\* (ApplyRemote and SetWatermark of store.go, RoundOnce of sync.go).
THEOREM WatermarksGrow == Spec => WatermarkNeverRegresses
<1> DEFINE Grow == \A n, p \in Node, k \in WmKind : AtMost(wm[n][p][k], wm'[n][p][k])
<1>1. ASSUME TypeInv, [Next]_vars PROVE Grow
  <2>1. ASSUME NEW n \in Node, NEW p \in Node, ApplyRows(n, p) \/ SetEventWatermark(n, p)
        PROVE  Grow
    BY <1>1, <2>1, WatermarkStep
  <2>2. ASSUME wm' = wm PROVE Grow
    BY <1>1, <2>2, AtMostFacts DEF TypeInv, TypeOK
  <2>3. CASE UNCHANGED vars
    BY <2>2, <2>3 DEF vars
  <2>4. CASE Next
    <3>1. PICK n \in Node : \/ AgentStep(n) \/ MemberStep(n) \/ EngineStep(n) \/ Restart(n)
                            \/ \E q \in Req : ApiStep(n, q)
                            \/ \E p \in Node : PullStep(n, p) \/ RoundFails(n, p)
      BY <2>4, NextCases
    <3>2. CASE AgentStep(n) \/ MemberStep(n) \/ EngineStep(n) \/ \E q \in Req : ApiStep(n, q)
      BY <2>2, <3>2, AgentFrame, MemberFrame, EngineFrame, ApiFrame, Zenon
    <3>3. CASE Restart(n)
      BY <2>2, <3>3, ZenonT(30) DEF Restart, durable
    <3>4. CASE \E p \in Node : PullStep(n, p) \/ RoundFails(n, p)
      BY <2>1, <2>2, <3>4, PullFrame, ZenonT(30)
    <3> QED
      BY <3>1, <3>2, <3>3, <3>4, Zenon
  <2> QED
    BY <1>1, <2>3, <2>4
<1>2. TypeInv /\ [Next]_vars => [Grow]_vars
  BY <1>1
<1> QED
  BY <1>2, TypeInvariant, PTL DEF Spec, WatermarkNeverRegresses

-----------------------------------------------------------------------------
(* The logs. *)

\* Every event, stored or in flight, is in the log of the node that emitted
\* it; that log is keyed by seq and its sequence numbers have no gap.  A pull
\* can then never bring a node an event of its own that it does not have,
\* which is what keeps MAX(seq) + 1 fresh in the whole fleet.
LogInv ==
  /\ \A n \in Node : \A e \in events[n] : e \in events[e.runner]
  /\ \A n, p \in Node : \A e \in round[n][p].evs : e \in events[e.runner]
  /\ \A n \in Node : \A e, f \in events[n] :
       e.runner = n /\ f.runner = n /\ e.seq = f.seq => e = f
  /\ \A n \in Node : \E k \in Nat : SeqsOf(events[n], n) = 1..k

\* AppendEvent's MAX(seq) + 1 extends a gap-free numbering by exactly one.
LEMMA NextSeqExtends ==
  ASSUME NEW log, NEW n, NEW k \in Nat, SeqsOf(log, n) = 1..k
  PROVE  NextSeq(log, n) = k + 1
<1>1. \E s \in {0} \cup SeqsOf(log, n) : \A u \in SeqsOf(log, n) : u <= s
  <2>1. k \in {0} \cup SeqsOf(log, n) /\ \A u \in SeqsOf(log, n) : u <= k
    OBVIOUS
  <2> QED
    BY <2>1
<1>2. /\ LastSeq(log, n) \in {0} \cup 1..k
      /\ \A u \in 1..k : u <= LastSeq(log, n)
  BY <1>1, Zenon DEF LastSeq
<1>3. LastSeq(log, n) = k
  BY <1>2
<1> QED
  BY <1>3 DEF NextSeq

\* Emitting an event keeps the invariant.
LEMMA EmitKeepsLogInv ==
  ASSUME TypeInv, LogInv, NEW n \in Node, NEW type \in {"joined", "left"}, NEW m \in Node,
         NEW hlc \in Timestamp,
         events' = [events EXCEPT ![n] = AppendEvent(@, n, type, m, hlc)], UNCHANGED round
  PROVE  LogInv'
<1> DEFINE e0 == [runner |-> n, seq |-> NextSeq(events[n], n), type |-> type,
                  about |-> m, hlc |-> hlc]
<1>1. PICK k \in Nat : SeqsOf(events[n], n) = 1..k
  BY DEF LogInv
<1>2. NextSeq(events[n], n) = k + 1
  BY <1>1, NextSeqExtends
<1>3. e0.runner = n /\ e0.seq = k + 1
  BY <1>2
<1>4. \A o \in Node : events'[o] = IF o = n THEN events[n] \cup {e0} ELSE events[o]
  BY Zenon DEF AppendEvent, TypeInv, TypeOK
<1> HIDE DEF e0
<1>5. \A e \in events[n] : e.runner = n => e.seq # k + 1
  BY <1>1 DEF SeqsOf
<1>6. \A o \in Node : events[o] \subseteq events'[o]
  BY <1>4
<1>7. \A o \in Node : \A e \in events[o] : e.runner \in Node
  BY DEF TypeInv, TypeOK, Event
<1>8. \A o \in Node : \A e \in events'[o] : e \in events'[e.runner]
  <2> SUFFICES ASSUME NEW o \in Node, NEW e \in events'[o] PROVE e \in events'[e.runner]
    OBVIOUS
  <2>1. CASE e \in events[o]
    BY <1>6, <1>7, <2>1, Zenon DEF LogInv
  <2>2. CASE e \notin events[o]
    <3>1. e = e0 /\ o = n
      BY <1>4, <2>2
    <3> QED
      BY <1>3, <3>1
  <2> QED
    BY <2>1, <2>2
<1>9. \A o, p \in Node : \A e \in round'[o][p].evs : e \in events'[e.runner]
  <2>1. \A o, p \in Node : \A e \in round[o][p].evs : e.runner \in Node
    BY DEF TypeInv, TypeOK, RoundState, Event
  <2> QED
    BY <2>1, <1>6, Zenon DEF LogInv
<1>10. \A o \in Node : \A e, f \in events'[o] :
         e.runner = o /\ f.runner = o /\ e.seq = f.seq => e = f
  BY <1>3, <1>4, <1>5 DEF LogInv
<1>11. \A o \in Node : \E j \in Nat : SeqsOf(events'[o], o) = 1..j
  <2>1. SeqsOf(events'[n], n) = SeqsOf(events[n], n) \cup {k + 1}
    BY <1>3, <1>4 DEF SeqsOf
  <2>2. SeqsOf(events'[n], n) = 1..(k + 1)
    <3>1. 1..k \cup {k + 1} = 1..(k + 1)
      OBVIOUS
    <3> QED
      BY <1>1, <2>1, <3>1, Zenon
  <2>3. \A o \in Node \ {n} : events'[o] = events[o]
    BY <1>4
  <2> QED
    BY <2>2, <2>3 DEF LogInv
<1> QED
  BY <1>8, <1>9, <1>10, <1>11, Zenon DEF LogInv

\* So does applying the events of a pull: none of them is a new one of n's own.
LEMMA ApplyKeepsLogInv ==
  ASSUME TypeInv, LogInv, NEW n \in Node, NEW p \in Node, ApplyLog(n, p)
  PROVE  LogInv'
<1> DEFINE new == {e \in round[n][p].evs : \A f \in events[n] : f.runner # e.runner \/ f.seq # e.seq}
<1>1. \A o \in Node : events'[o] = IF o = n THEN events[n] \cup new ELSE events[o]
  BY DEF ApplyLog, ApplyEvents, TypeInv, TypeOK
<1>2. \A o \in Node : \A e \in events[o] : e.runner \in Node
  BY DEF TypeInv, TypeOK, Event
<1>3. \A o, q \in Node : \A e \in round[o][q].evs : e.runner \in Node
  BY DEF TypeInv, TypeOK, RoundState, Event
<1>4. \A e \in new : e.runner # n /\ e.runner \in Node /\ e \in events[e.runner]
  BY <1>3, Zenon DEF LogInv
<1> HIDE DEF new
<1>5. \A o, q \in Node : round'[o][q].evs = round[o][q].evs
  BY DEF ApplyLog, TypeInv, TypeOK, RoundState
<1>6. \A o \in Node : SeqsOf(events'[o], o) = SeqsOf(events[o], o)
  BY <1>1, <1>4 DEF SeqsOf
<1>7. \A o \in Node : \A e \in events'[o] : e \in events'[e.runner]
  <2> SUFFICES ASSUME NEW o \in Node, NEW e \in events'[o] PROVE e \in events'[e.runner]
    OBVIOUS
  <2>1. e.runner \in Node /\ e \in events[e.runner]
    <3>1. CASE e \in events[o]
      BY <1>2, <3>1, Zenon DEF LogInv
    <3>2. CASE e \notin events[o]
      BY <1>1, <1>4, <3>2
    <3> QED
      BY <3>1, <3>2
  <2> QED
    BY <1>1, <2>1
<1>8. \A o, q \in Node : \A e \in round'[o][q].evs : e \in events'[e.runner]
  BY <1>1, <1>3, <1>5 DEF LogInv
<1>9. \A o \in Node : \A e, f \in events'[o] :
         e.runner = o /\ f.runner = o /\ e.seq = f.seq => e = f
  BY <1>1, <1>4 DEF LogInv
<1> QED
  BY <1>6, <1>7, <1>8, <1>9 DEF LogInv

\* A step that leaves the logs alone and takes up only events of some log.
LEMMA QuietKeepsLogInv ==
  ASSUME TypeInv, LogInv, UNCHANGED events,
         \A n, p \in Node : \A e \in round'[n][p].evs : e \in events[e.runner]
  PROVE  LogInv'
BY DEF LogInv

\* The empty logs of a new fleet satisfy LogInv.
LEMMA LogInvInit == Init => LogInv
<1> SUFFICES ASSUME Init PROVE LogInv
  OBVIOUS
<1>1. \A n \in Node : events[n] = {} /\ SeqsOf(events[n], n) = 1..0
  <2> SUFFICES ASSUME NEW n \in Node PROVE events[n] = {} /\ SeqsOf(events[n], n) = 1..0
    OBVIOUS
  <2>1. events[n] = {}
    BY DEF Init
  <2> QED
    BY <2>1 DEF SeqsOf
<1>2. \A n, p \in Node : round[n][p].evs = {}
  BY NoRoundType DEF Init, NewRounds, RoundState
<1> QED
  BY <1>1, <1>2, Zenon DEF LogInv

\* Every step keeps LogInv: AppendEvent and ApplyEvents by the lemmas above,
\* all other steps because they leave logs and batches alone or serve a log.
LEMMA LogInvStep ==
  ASSUME TypeInv, LogInv, [Next]_vars
  PROVE  LogInv'
<1>1. ASSUME UNCHANGED <<events, round>> PROVE LogInv'
  BY <1>1 DEF LogInv
<1>2. CASE UNCHANGED vars
  BY <1>1, <1>2 DEF vars
<1>3. CASE Next
  <2>1. PICK n \in Node : \/ AgentStep(n) \/ MemberStep(n) \/ EngineStep(n) \/ Restart(n)
                          \/ \E q \in Req : ApiStep(n, q)
                          \/ \E p \in Node : PullStep(n, p) \/ RoundFails(n, p)
    BY <1>3, NextCases
  <2>2. CASE AgentStep(n)
    <3>1. CASE StartEmit(n)
      <4>1. agent[n].hlc \in Timestamp
        BY DEF TypeInv, TypeOK, AgentState
      <4>2. /\ UNCHANGED round
            /\ events' = [events EXCEPT ![n] = AppendEvent(@, n, "joined", n, agent[n].hlc)] \/ events' = events
        BY <3>1, Zenon DEF StartEmit, Follow, pulls, TypeInv, TypeOK
      <4> QED
        BY <1>1, <4>1, <4>2, EmitKeepsLogInv
    <3> QED
      BY <1>1, <2>2, <3>1, AgentFrame
  <2>3. CASE MemberStep(n)
    <3>1. CASE MemberEmit(n)
      <4>1. /\ member[n].hlc \in Timestamp /\ member[n].about \in Node
            /\ member[n].type \in {"joined", "left"}
        BY DEF TypeInv, TypeOK, MemberState
      <4>2. /\ UNCHANGED round
            /\ \/ events' = events
               \/ events' = [events EXCEPT ![n] =
                    AppendEvent(@, n, member[n].type, member[n].about, member[n].hlc)]
        BY <3>1 DEF MemberEmit, Follow, pulls, TypeInv, TypeOK
      <4> QED
        BY <1>1, <4>1, <4>2, EmitKeepsLogInv
    <3> QED
      BY <1>1, <2>3, <3>1, MemberFrame
  <2>4. ASSUME round' = [round EXCEPT ![n] = NewRounds(n)], UNCHANGED events PROVE LogInv'
    <3>1. \A o, p \in Node : round'[o][p].evs \subseteq round[o][p].evs
      BY <2>4, NoRoundType DEF NewRounds, RoundState, TypeInv, TypeOK
    <3> QED
      BY <2>4, <3>1, QuietKeepsLogInv, Zenon DEF LogInv
  <2>5. CASE EngineStep(n)
    BY <1>1, <2>4, <2>5, EngineFrame DEF RoundAll
  <2>6. CASE Restart(n)
    BY <2>4, <2>6 DEF Restart, durable
  <2>7. CASE \E q \in Req : ApiStep(n, q)
    BY <1>1, <2>7, ApiFrame
  <2>8. ASSUME NEW p \in Node, PullStep(n, p) \/ RoundFails(n, p) PROVE LogInv'
    <3>1. ASSUME NEW evs, evs \subseteq round[n][p].evs \/ evs \subseteq events[p], UNCHANGED events,
                 \A o, q \in Node : round'[o][q].evs = IF o = n /\ q = p THEN evs ELSE round[o][q].evs
          PROVE  LogInv'
      <4>1. \A o, q \in Node : \A e \in round'[o][q].evs : e \in events[e.runner]
        BY <3>1 DEF LogInv
      <4> QED
        BY <3>1, <4>1, QuietKeepsLogInv
    <3>2. CASE ServePull(n, p)
      <4> DEFINE r   == round[n][p]
                 evs == ServeEvents(events[p], wm[n][p]["event"], r.evSum)
      <4>1. evs \subseteq events[p]
        BY ServedFromStore, ZenonT(30) DEF TypeInv, TypeOK
      <4> HIDE DEF evs
      <4>2. \A o, q \in Node : round'[o][q].evs = IF o = n /\ q = p THEN evs ELSE round[o][q].evs
        <5>1. /\ round'[n][p].evs = evs
              /\ \A o, q \in Node : (o = n /\ q = p) \/ round'[o][q] = round[o][q]
          BY <3>2, PullFields, Zenon DEF evs
        <5> QED
          BY <5>1
      <4>3. UNCHANGED events
        BY <3>2, Zenon DEF ServePull, durable
      <4> QED
        BY <3>1, <4>1, <4>2, <4>3, Zenon
    <3>3. CASE ApplyLog(n, p)
      BY <3>3, ApplyKeepsLogInv
    <3>4. CASE ApplyRows(n, p) \/ SetEventWatermark(n, p) \/ UpdateFromRows(n, p)
      <4>1. \A o, q \in Node : round'[o][q].evs = round[o][q].evs
        <5>1. /\ round'[n][p].evs = round[n][p].evs
              /\ \A o, q \in Node : (o = n /\ q = p) \/ round'[o][q] = round[o][q]
          BY <3>4, PullFields, Zenon
        <5> QED
          BY <5>1
      <4>2. UNCHANGED events
        BY <3>4, Zenon DEF ApplyRows, SetEventWatermark, UpdateFromRows, durable
      <4>3. \A o, q \in Node : \A e \in round'[o][q].evs : e \in events[e.runner]
        BY <4>1, Zenon DEF LogInv
      <4> QED
        BY <4>2, <4>3, QuietKeepsLogInv
    <3>5. CASE SendPull(n, p) \/ UpdateFromEvents(n, p) \/ RoundFails(n, p)
      <4>1. \A o, q \in Node : round'[o][q].evs = IF o = n /\ q = p THEN {} ELSE round[o][q].evs
        <5>1. /\ round'[n][p].evs = {}
              /\ \A o, q \in Node : (o = n /\ q = p) \/ round'[o][q] = round[o][q]
          BY <3>5, PullFields, Zenon
        <5> QED
          BY <5>1, ZenonT(30)
      <4>2. UNCHANGED events
        BY <3>5, Zenon DEF SendPull, UpdateFromEvents, RoundFails, durable
      <4> QED
        BY <3>1, <4>1, <4>2, ZenonT(30)
    <3> QED
      BY <2>8, <3>2, <3>3, <3>4, <3>5 DEF PullStep
  <2> QED
    BY <2>1, <2>2, <2>3, <2>5, <2>6, <2>7, <2>8
<1> QED
  BY <1>2, <1>3

-----------------------------------------------------------------------------

\* LogInv holds in every reachable state.
LEMMA LogInvariant == Spec => []LogInv
<1> QED
  BY LogInvInit, LogInvStep, TypeInvariant, PTL DEF Spec

\* ON CONFLICT(runner_id, seq) DO NOTHING never discards a different event:
\* no two events of the fleet, in whatever stores and after whatever crashes
\* between AppendEvent, ApplyEvents and SetWatermark, share runner and seq.
THEOREM EventsAreNamed == Spec => []EventIdentity
<1>1. TypeInv /\ LogInv => EventIdentity
  <2> SUFFICES ASSUME TypeInv, LogInv, NEW n \in Node, NEW p \in Node,
                      NEW e \in events[n], NEW f \in events[p], e.runner = f.runner, e.seq = f.seq
               PROVE  e = f
    BY DEF EventIdentity
  <2>1. e.runner \in Node
    BY DEF TypeInv, TypeOK, Event
  <2>2. e \in events[e.runner] /\ f \in events[e.runner]
    BY Zenon DEF LogInv
  <2> QED
    BY <2>1, <2>2 DEF LogInv
<1> QED
  BY <1>1, TypeInvariant, LogInvariant, PTL

\* A node's own log holds every event it ever emitted that any store still
\* knows, numbered 1, 2, 3, ... without a gap (AppendEvent).
THEOREM OwnLogsComplete == Spec => []OwnLogComplete
<1>1. ASSUME LogInv PROVE OwnLogComplete
  <2>1. ASSUME NEW n \in Node
        PROVE  SeqsOf(events[n], n) = 1..Cardinality(SeqsOf(events[n], n))
    <3>1. PICK k \in Nat : SeqsOf(events[n], n) = 1..k
      BY <1>1 DEF LogInv
    <3>2. Cardinality(1..k) = k
      BY FS_Interval
    <3> QED
      BY <3>1, <3>2
  <2> QED
    BY <1>1, <2>1 DEF LogInv, OwnLogComplete
<1> QED
  BY <1>1, LogInvariant, PTL

\* A step that appends to a log is an Emit of the abstract specification.
LEMMA EmitIsAbstract ==
  ASSUME TypeInv, LogInv, NEW n \in Node, NEW type, NEW m, NEW hlc,
         events' = [events EXCEPT ![n] = AppendEvent(@, n, type, m, hlc)]
  PROVE  Log!Emit(n)
<1> DEFINE new == [runner |-> n, seq |-> NextSeq(events[n], n), type |-> type,
                   about |-> m, hlc |-> hlc]
<1>1. PICK k \in Nat : SeqsOf(events[n], n) = 1..k
  BY DEF LogInv
<1>2. NextSeq(events[n], n) = k + 1
  BY <1>1, NextSeqExtends
<1>3. events' = [events EXCEPT ![n] = @ \cup {new}] /\ new \in events'[n]
  BY Zenon DEF AppendEvent, TypeInv, TypeOK
<1>4. new.runner = n /\ new.seq = k + 1
  BY <1>2
<1>5. Log!Numbers(n) = 1..((k + 1) - 1)
  BY <1>1 DEF Log!Numbers, SeqsOf
<1> HIDE DEF new
<1>6. new.seq \in Nat \ {0} /\ Log!Numbers(n) = 1..(new.seq - 1)
  BY <1>4, <1>5
<1> QED
  BY <1>3, <1>4, <1>6, Zenon DEF Log!Emit

\* Applying a pulled batch is a Learn: every event of it is in some log.
LEMMA ApplyIsAbstract ==
  ASSUME TypeInv, LogInv, NEW n \in Node, NEW p \in Node, ApplyLog(n, p)
  PROVE  Log!Learn(n)
<1>1. events' = [events EXCEPT ![n] = ApplyEvents(@, round[n][p].evs)]
  BY DEF ApplyLog
<1>2. events'[n] = ApplyEvents(events[n], round[n][p].evs)
  BY <1>1 DEF TypeInv, TypeOK
<1>3. events[n] \subseteq events'[n] /\ events'[n] \subseteq events[n] \cup round[n][p].evs
  BY <1>2, Zenon DEF ApplyEvents
<1>4. \A e \in round[n][p].evs : e.runner \in Node /\ e \in events[e.runner]
  <2>1. round[n][p].evs \subseteq Event
    BY DEF TypeInv, TypeOK, RoundState
  <2>2. \A e \in round[n][p].evs : e \in events[e.runner]
    BY Zenon DEF LogInv
  <2> QED
    BY <2>1, <2>2, Zenon DEF Event
<1>5. \A e \in events'[n] : \E o \in Node : e \in events[o]
  BY <1>3, <1>4
<1>6. events' = [events EXCEPT ![n] = events'[n]]
  BY <1>1, <1>2 DEF TypeInv, TypeOK
<1> QED
  BY <1>3, <1>5, <1>6 DEF Log!Learn

\* The event logs of every fleet, with every interleaving, failure and crash,
\* implement the broadcast of module Broadcast: AppendEvent numbers a node's
\* events without gap or reuse, ApplyEvents spreads existing events only.
THEOREM LogsBroadcast == Spec => LogIsBroadcast
<1>1. Init => Log!Init
  BY DEF Init, Log!Init
<1>2. ASSUME TypeInv, LogInv, [Next]_vars PROVE [Log!Next]_events
  <2>1. CASE UNCHANGED vars
    BY <2>1 DEF vars
  <2>2. CASE Next
    <3>1. PICK n \in Node : \/ AgentStep(n) \/ MemberStep(n) \/ EngineStep(n) \/ Restart(n)
                            \/ \E q \in Req : ApiStep(n, q)
                            \/ \E p \in Node : PullStep(n, p) \/ RoundFails(n, p)
      BY <2>2, NextCases, ZenonT(30)
    <3>2. CASE StartEmit(n)
      <4>1. events' = [events EXCEPT ![n] = AppendEvent(@, n, "joined", n, agent[n].hlc)] \/ events' = events
        BY <1>2, <3>2, Zenon DEF StartEmit, Follow, TypeInv, TypeOK
      <4> QED
        BY <1>2, <4>1, EmitIsAbstract DEF Log!Next
    <3>3. CASE MemberEmit(n)
      <4>1. \/ events' = events
            \/ events' = [events EXCEPT ![n] =
                 AppendEvent(@, n, member[n].type, member[n].about, member[n].hlc)]
        BY <1>2, <3>3 DEF MemberEmit, Follow, TypeInv, TypeOK
      <4> QED
        BY <1>2, <4>1, EmitIsAbstract DEF Log!Next
    <3>4. ASSUME NEW p \in Node, ApplyLog(n, p) PROVE Log!Next
      BY <1>2, <3>4, ApplyIsAbstract DEF Log!Next
    <3> QED
      BY <1>2, <3>1, <3>2, <3>3, <3>4, AgentFrame, MemberFrame, EngineFrame, ApiFrame, PullFrame
         DEF Restart, RoundAll, durable
  <2> QED
    BY <1>2, <2>1, <2>2
<1> QED
  BY <1>1, <1>2, TypeInvariant, LogInvariant, PTL DEF Spec, LogIsBroadcast, Log!Spec

\* PendingInv holds in every reachable state.
LEMMA PendingInvariant == Spec => []PendingInv
<1> QED
  BY PendingInvInit, PendingInvStep, TypeInvariant, LatestHolds, PTL DEF Spec

\* VersionInv holds in every reachable state.
LEMMA VersionInvariant == Spec => []VersionInv
<1> QED
  BY VersionInvInit, VersionInvStep, TypeInvariant, LatestHolds, PendingInvariant, PTL DEF Spec

\* An (owner, HLC) pair names one payload in the whole fleet, through any
\* interleaving of agents, label requests, pulls and restarts (Clock.Tick,
\* Agent.owner, Put): replicas that newer() finds equal are equal.
THEOREM VersionsNameContent == Spec => []VersionsAgree
<1>1. ASSUME TypeInv, VersionInv PROVE VersionsAgree
  <2>1. ASSUME NEW n \in Node, NEW key \in Key, Live(rows[n], key) PROVE rows[n][key] \in Versions
    <3>1. rows[n][key] \in Row /\ rows[n][key] # NoRow /\ ~rows[n][key].tomb
      BY <1>1, <2>1 DEF Live, TypeInv, TypeOK, Table
    <3> QED
      BY <3>1, Zenon DEF Versions
  <2> QED
    BY <1>1, <2>1, Zenon DEF VersionInv, VersionsAgree
<1> QED
  BY <1>1, TypeInvariant, VersionInvariant, PTL

\* In a node's first life its clock is at or above every row of its store
\* whenever no batch waits for its clock update (RoundOnce: ApplyRemote, then
\* clock.Update), so the next Tick is newer than all it holds.
THEOREM ClocksCoverStores == Spec => []ClockCoversStore
<1>1. Init => CoverInv
  <2> SUFFICES ASSUME Init PROVE CoverInv
    OBVIOUS
  <2>1. \A n \in Node : KeysOf(rows[n]) = {}
    BY DEF Init, EmptyTable, KeysOf
  <2> QED
    BY <2>1 DEF CoverInv
<1>2. CoverInv => ClockCoversStore
  BY Zenon DEF CoverInv, Covered, ClockCoversStore
<1> QED
  BY <1>1, <1>2, CoverInvStep, TypeInvariant, LatestHolds, PendingInvariant, PTL DEF Spec

\* ApplyRemote never drops a row nor replaces one by an older version, however
\* late or often a peer's answer is applied; nothing else touches rows in a
\* step of a pull.  Needs only that owner strings compare asymmetrically.
THEOREM PullsNeverRegress ==
  ASSUME \A o, p \in Owner : ~(OwnerAbove(o, p) /\ OwnerAbove(p, o))
  PROVE  Spec => PullNeverRegresses
<1> DEFINE Keeps(n, key) == round'[n] # round[n] /\ rows[n][key] # NoRow
                            => rows'[n][key] # NoRow /\ ~Newer(rows[n][key], rows'[n][key])
<1>1. ASSUME TypeInv, [Next]_vars, NEW n \in Node, NEW key \in Key PROVE Keeps(n, key)
  BY <1>1, PullStepKeeps, Zenon
<1>2. TypeInv /\ [Next]_vars => [\A n \in Node, key \in Key : Keeps(n, key)]_vars
  BY <1>1, Zenon
<1> QED
  BY <1>2, TypeInvariant, PTL DEF Spec, PullNeverRegresses
=============================================================================
