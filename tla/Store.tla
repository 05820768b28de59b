------------------------------- MODULE Store -------------------------------
(***************************************************************************)
(* The tables of internal/engine/store/store.go as values, and each query  *)
(* or transaction of the store as an operator on them.  The database pool  *)
(* holds one connection, so every operator here is one atomic step of the  *)
(* program; the steps between two calls interleave, in module Replication. *)
(*                                                                         *)
(* A row's payload is the set of facts it carries: the status of a runner, *)
(* or the labels of a meta row.  An owner is "<node>/<epoch>" for an agent *)
(* and "api/<node>" for the HTTP API; the latter has no epoch and is       *)
(* written here with epoch 0.                                              *)
(***************************************************************************)
EXTENDS HLC, FiniteSets

CONSTANTS
  Node,               \* node ids; a runner's id is the id of its node
  Attr,               \* runner statuses and labels
  NoRow,              \* what a lookup of a missing key returns
  OwnerAbove(_, _),   \* the order Go gives the owner strings
  RowChecksum(_),     \* 64-bit XOR of the hashes of a set of <<key, hlc>>
  EventChecksum(_)    \* the same over a set of <<runner, seq, hlc>>

Kind  == {"runner", "meta"}
Key   == Kind \X Node
Owner == [node : Node, epoch : Nat]
Row   == [owner : Owner, hlc : Timestamp, tomb : BOOLEAN, payload : SUBSET Attr]
Table == [Key -> Row \cup {NoRow}]
Event == [runner : Node, seq : Nat \ {0}, type : {"joined", "left"},
          about : Node, hlc : Timestamp]

ASSUME StoreAssumption ==
  /\ IsFiniteSet(Node)
  /\ RowChecksum({}) = 0
  /\ EventChecksum({}) = 0

AgentOwner(n, e) == [node |-> n, epoch |-> e]
ApiOwner(n)      == [node |-> n, epoch |-> 0]

Live(t, key)  == t[key] # NoRow /\ ~t[key].tomb
EmptyTable    == [key \in Key |-> NoRow]
KeysOf(batch) == {key \in Key : batch[key] # NoRow}

-----------------------------------------------------------------------------
(* Rows. *)

\* newer: the later HLC, then the greater owner.
Newer(a, b) == \/ After(a.hlc, b.hlc)
               \/ a.hlc = b.hlc /\ OwnerAbove(a.owner, b.owner)

\* Put: an unconditional upsert.
Put(t, key, owner, hlc, payload) ==
  [t EXCEPT ![key] = [owner |-> owner, hlc |-> hlc, tomb |-> FALSE, payload |-> payload]]

\* Delete: a tombstone that keeps the payload it finds, also for a missing key.
Delete(t, key, owner, hlc) ==
  [t EXCEPT ![key] = [owner |-> owner, hlc |-> hlc, tomb |-> TRUE,
                      payload |-> IF t[key] = NoRow THEN {} ELSE t[key].payload]]

\* DeleteByNode: every live row an agent of node m owns becomes a tombstone
\* with the caller's HLC, whatever HLC it has; the owner stays.
DeleteByNode(t, m, hlc) ==
  [key \in Key |-> IF Live(t, key) /\ t[key].owner.node = m /\ t[key].owner.epoch > 0
                   THEN [t[key] EXCEPT !.hlc = hlc, !.tomb = TRUE]
                   ELSE t[key]]

\* GCTombstones: tombstones strictly before min are gone.
GCTombstones(t, min) ==
  [key \in Key |-> IF t[key] # NoRow /\ t[key].tomb /\ After(min, t[key].hlc)
                   THEN NoRow ELSE t[key]]

\* ChangesSince: rows of one kind, tombstones included, strictly after wm.
ChangesSince(t, kind, wm) ==
  [key \in Key |-> IF key[1] = kind /\ t[key] # NoRow /\ After(t[key].hlc, wm)
                   THEN t[key] ELSE NoRow]

\* What Checksum hashes: the key and HLC of the live rows of one kind.
Summary(t, kind) == {<<key[2], t[key].hlc>> : key \in {k \in Key : k[1] = kind /\ Live(t, k)}}

ApplyRemote_Overwrite(t, batch) ==
  [key \in Key |-> IF batch[key] # NoRow THEN batch[key] ELSE t[key]]

\* ApplyRemote, the rows: a row enters if it is new here or newer.
ApplyRemote(t, batch) ==
  [key \in Key |-> IF batch[key] # NoRow /\ (t[key] = NoRow \/ Newer(batch[key], t[key]))
                   THEN batch[key] ELSE t[key]]

HLCs(batch, kinds) == {batch[key].hlc : key \in {k \in KeysOf(batch) : k[1] \in kinds}}

AdvanceWatermark_Replace(wm, S) == IF S = {} THEN wm ELSE Latest(S)

\* ApplyRemote and SetWatermark, the watermark: up to the latest HLC received,
\* never down.
AdvanceWatermark(wm, S) == Latest({wm} \cup S)

-----------------------------------------------------------------------------
(* Events: a set keyed by (runner, seq). *)

SeqsOf(log, n) == {e.seq : e \in {f \in log : f.runner = n}}

LastSeq(log, n) == CHOOSE s \in {0} \cup SeqsOf(log, n) : \A u \in SeqsOf(log, n) : u <= s

NextSeq_Reuse(log, n) == IF LastSeq(log, n) = 0 THEN 1 ELSE LastSeq(log, n)

NextSeq_AllRunners(log, n) == 1 + Cardinality(log)

\* The COALESCE(MAX(seq), 0) + 1 of AppendEvent.
NextSeq(log, n) == LastSeq(log, n) + 1

AppendEvent(log, n, type, about, hlc) ==
  log \cup {[runner |-> n, seq |-> NextSeq(log, n), type |-> type,
             about |-> about, hlc |-> hlc]}

EventsSince(log, wm) == {e \in log : After(e.hlc, wm)}

EventSummary(log) == {<<e.runner, e.seq, e.hlc>> : e \in log}

ApplyEvents_Replace(log, batch) == {e \in log : \A f \in batch : f.runner # e.runner} \cup batch

\* ApplyEvents: ON CONFLICT(runner_id, seq) DO NOTHING.
ApplyEvents(log, batch) ==
  log \cup {e \in batch : \A f \in log : f.runner # e.runner \/ f.seq # e.seq}

=============================================================================
