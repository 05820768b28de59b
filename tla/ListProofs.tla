----------------------------- MODULE ListProofs -----------------------------
(***************************************************************************)
(* The invariant of the read API, and the steps up to the end of the list  *)
(* that a request reads: writes of the store, the arrival of a request,    *)
(* its failures, and the list that it opens, scans and closes.             *)
(***************************************************************************)
EXTENDS PageProofs

-----------------------------------------------------------------------------
(* The invariant.  It is a conjunction over the requests; what it says of a  *)
(* request r depends only on r and on the contents h the store has had.      *)

Fields == {"pc", "c", "cursor", "items", "next", "lost", "code", "answer", "got", "first", "last", "start"}

\* The fields of a request that has arrived, and where it can be with what.
RequestType(r, h) ==
  /\ r = [f \in Fields |-> r[f]]
  /\ r.pc \in {"list", "scan", "merge", "reply", "getRunner", "getMeta", "events", "done"}
  /\ r.c \in Request
  /\ r.cursor \in Seq(Runner) /\ r.items \in Seq(Runner) /\ r.next \in Nat \ {0}
  /\ r.start \in Int
  /\ r.first \in 1..Len(h) /\ r.last \in r.first..Len(h)
  /\ r.pc \in {"list", "scan"} => r.c.kind \in Listing
  /\ r.pc \in {"getRunner", "getMeta"} => r.c.kind \in {"runner", "labels"}
  /\ r.pc = "getMeta" => r.c.kind = "labels"
  /\ r.pc = "merge" => r.c.kind \in Merging /\ r.next <= Len(r.items)
  /\ r.pc = "reply" => r.c.kind \in Listing \cup {"runner"}
  /\ r.pc = "events" => r.c.kind = "events"
  /\ r.pc \in {"list", "scan", "getRunner"} => r.next = 1 /\ r.lost = {}
  /\ r.pc \in {"list", "getRunner"} => r.items = <<>>
  /\ r.pc \in {"list", "getRunner", "merge", "reply"} => r.cursor = <<>>

StateType ==
  /\ past \in Seq(Database) /\ past # <<>> /\ past[1] \in DOMAIN Workload /\ table = past[Len(past)]
  /\ req = [q \in Slot |-> req[q]]
  /\ \A q \in Slot : req[q].pc = "idle" \/ RequestType(req[q], past)

\* The open list holds what is left of one moment's rows.
ScanOf(r, h, i) ==
  LET rows == Shown(h[i], r.c) IN
  /\ Len(rows) = Len(r.items) + Len(r.cursor)
  /\ \A k \in DOMAIN r.items : r.items[k] = rows[k]
  /\ \A k \in DOMAIN r.cursor : r.cursor[k] = rows[Len(r.items) + k]

\* What a request has read so far, and what it has answered.
ReadInv(r, h) ==
  /\ r.pc = "scan" => \E i \in r.first..Len(h) : ScanOf(r, h, i)
  /\ r.pc \in {"merge", "reply"} => \E i \in r.first..Len(h) : MergeOf(r, h, i, Len(h))
  /\ r.pc = "reply" /\ r.c.kind \in Merging => r.next = Len(r.items) + 1
  /\ r.pc = "done" /\ r.code = 200 /\ r.c.kind \in Merging =>
       /\ r.next = Len(r.items) + 1
       /\ \E i \in r.first..r.last : MergeOf(r, h, i, r.last)
       /\ r.c.kind # "best" => r.answer = r.items
       /\ r.c.kind = "best" => r.answer \in Rankings(Candidates(r.items, r.c.region, r.c.filters))
  /\ r.pc = "done" /\ r.code = 200 /\ r.c.kind = "events" =>
       \E i \in r.first..r.last : r.answer \in EventPages(h[i].log, EventLimit(r.c.limit), r.c.runner)

\* No runner has disappeared from a to b.
NoneLeaves(h, a, b) == \A i \in a..b : i < b => Alive(h[i]) \subseteq Alive(h[i + 1])

\* Where a walk that began at the start of the list stands.  As long as no
\* runner disappears, one that was there from the first is in a page already
\* shown or still lies ahead; once a page is read, the runner may be in it,
\* and if it lies beyond, the page is full.
Given(r)   == r.pc = "done" /\ r.code = 200
Reached(r) == r.got \cup {r.items[k].id : k \in DOMAIN r.items} \cup {r.cursor[k].id : k \in DOMAIN r.cursor}

Ahead(r, h) ==
  \A p \in Alive(h[r.first]) : Id[p] \in r.got \/ Rank(Alive(h[Len(h)]), p) > PageOffset(r.c.offset)

FullPage(r) == PageLimit(r.c.limit) > 0 /\ Len(r.items) + Len(r.cursor) = PageLimit(r.c.limit)

Beyond(r, h) ==
  \A p \in Alive(h[r.first]) :
    \/ Id[p] \in Reached(r)
    \/ FullPage(r) /\ Rank(Alive(h[Len(h)]), p) > PageOffset(r.c.offset) + PageLimit(r.c.limit)

Complete(r, h) ==
  NoneLeaves(h, r.first, r.last) /\ Len(r.answer) # PageLimit(r.c.limit) =>
    \A p \in Alive(h[r.first]) : Id[p] \in r.got \cup ReturnedIds(r)

WalkInv(r, h) ==
  r.c.kind = "runners" /\ r.start <= 0 =>
    /\ NoneLeaves(h, r.first, Len(h)) =>
         /\ Alive(h[r.first]) \subseteq Alive(h[Len(h)])
         /\ r.pc = "list" => Ahead(r, h)
         /\ r.pc \in {"scan", "merge", "reply"} \/ Given(r) => Beyond(r, h)
    /\ Given(r) => r.cursor = <<>> /\ Complete(r, h)

QueryInv ==
  /\ StateType
  /\ ConnectionHeldByOpenList
  /\ \A q \in Slot : req[q].pc # "idle" => ReadInv(req[q], past) /\ WalkInv(req[q], past)

-----------------------------------------------------------------------------
(* Writes: the store moves on, and what requests have seen stays true. *)

\* What is true of an earlier content stays true of it.
LEMMA MergeOfGrows ==
  ASSUME NEW r, NEW h, NEW g, NEW i \in Nat, NEW m \in Nat, NEW mm \in Nat, m <= mm,
         \A j \in i..m : g[j] = h[j], i <= m, MergeOf(r, h, i, m)
  PROVE  MergeOf(r, g, i, mm)
<1>1. g[i] = h[i] /\ \A j \in i..m : j \in i..mm /\ g[j] = h[j]
  OBVIOUS
<1> QED
  BY <1>1 DEF MergeOf

\* A page being read stays one of a moment of the past.
LEMMA ScanOfGrows ==
  ASSUME NEW r, NEW h, NEW g, NEW i, g[i] = h[i], ScanOf(r, h, i)
  PROVE  ScanOf(r, g, i)
BY DEF ScanOf

\* A write leaves what is known of a request as it was.
LEMMA ReadGrows ==
  ASSUME NEW h \in Seq(Database), NEW t \in Database, NEW r, RequestType(r, h), ReadInv(r, h)
  PROVE  RequestType(r, Append(h, t)) /\ ReadInv(r, Append(h, t))
<1> DEFINE g == Append(h, t)
<1>1. Len(h) \in Nat /\ Len(g) = Len(h) + 1 /\ \A i \in 1..Len(h) : g[i] = h[i]
  OBVIOUS
<1> HIDE DEF g
<1>2. r.first \in 1..Len(h) /\ r.last \in r.first..Len(h)
  BY Zenon DEF RequestType
<1>3. RequestType(r, g)
  BY <1>1 DEF RequestType
<1>4. r.pc = "scan" => \E i \in r.first..Len(g) : ScanOf(r, g, i)
  <2> SUFFICES ASSUME r.pc = "scan" PROVE \E i \in r.first..Len(g) : ScanOf(r, g, i)
    OBVIOUS
  <2>1. PICK i \in r.first..Len(h) : ScanOf(r, h, i)
    BY DEF ReadInv
  <2>2. i \in r.first..Len(g) /\ g[i] = h[i]
    BY <1>1, <1>2
  <2> QED
    BY <2>1, <2>2, ScanOfGrows
<1>5. r.pc \in {"merge", "reply"} => \E i \in r.first..Len(g) : MergeOf(r, g, i, Len(g))
  <2> SUFFICES ASSUME r.pc \in {"merge", "reply"} PROVE \E i \in r.first..Len(g) : MergeOf(r, g, i, Len(g))
    OBVIOUS
  <2>1. PICK i \in r.first..Len(h) : MergeOf(r, h, i, Len(h))
    BY DEF ReadInv
  <2>2. i \in r.first..Len(g) /\ i \in Nat /\ i <= Len(h) /\ Len(h) <= Len(g) /\ \A j \in i..Len(h) : g[j] = h[j]
    BY <1>1, <1>2
  <2> QED
    BY <1>1, <2>1, <2>2, MergeOfGrows
<1>6. r.pc = "done" /\ r.code = 200 /\ r.c.kind \in Merging => \E i \in r.first..r.last : MergeOf(r, g, i, r.last)
  <2> SUFFICES ASSUME r.pc = "done", r.code = 200, r.c.kind \in Merging
               PROVE  \E i \in r.first..r.last : MergeOf(r, g, i, r.last)
    OBVIOUS
  <2>1. PICK i \in r.first..r.last : MergeOf(r, h, i, r.last)
    BY DEF ReadInv
  <2>2. i \in Nat /\ r.last \in Nat /\ i <= r.last /\ \A j \in i..r.last : g[j] = h[j]
    BY <1>1, <1>2
  <2> QED
    BY <2>1, <2>2, MergeOfGrows
<1>7. \A i \in r.first..r.last : g[i] = h[i]
  BY <1>1, <1>2
<1>8. ReadInv(r, g)
  BY <1>4, <1>5, <1>6, <1>7 DEF ReadInv
<1> QED
  BY <1>3, <1>8 DEF g

\* The same for a walk: a runner that joins can only move the others back.
LEMMA WalkGrows ==
  ASSUME NEW h \in Seq(Database), NEW t \in Database, NEW r, RequestType(r, h), WalkInv(r, h)
  PROVE  WalkInv(r, Append(h, t))
<1> DEFINE g == Append(h, t)
           n == Len(h)
           a == r.first
<1>1. n \in Nat /\ Len(g) = n + 1 /\ (\A i \in 1..n : g[i] = h[i]) /\ g[n + 1] = t
  OBVIOUS
<1>2. a \in 1..n /\ r.last \in a..n /\ PageLimit(r.c.limit) \in Int /\ PageOffset(r.c.offset) \in Nat
  BY DEF RequestType, Request, PageLimit, PageOffset
<1>3. h[n] \in Database /\ g[a] = h[a] /\ n \in a..n
  BY <1>1, <1>2
<1> HIDE DEF g, n, a
<1>4. ASSUME NoneLeaves(g, a, n + 1) PROVE NoneLeaves(h, a, n) /\ Alive(h[n]) \subseteq Alive(t)
  <2>1. \A i \in a..n : i \in a..(n + 1) /\ i < n + 1
    BY <1>1, <1>2
  <2>2. \A i \in a..n : Alive(g[i]) \subseteq Alive(g[i + 1])
    BY <1>4, <2>1 DEF NoneLeaves
  <2>3. \A i \in a..n : g[i] = h[i] /\ (i < n => g[i + 1] = h[i + 1])
    BY <1>1, <1>2
  <2>4. \A i \in a..n : i < n => Alive(h[i]) \subseteq Alive(h[i + 1])
    BY <2>2, <2>3
  <2>5. Alive(h[n]) \subseteq Alive(t)
    BY <1>1, <1>3, <2>2, <2>3
  <2> QED
    BY <2>4, <2>5 DEF NoneLeaves
<1>5. NoneLeaves(g, a, r.last) => NoneLeaves(h, a, r.last)
  <2>1. \A i \in a..r.last : i < r.last => g[i] = h[i] /\ g[i + 1] = h[i + 1]
    BY <1>1, <1>2
  <2> QED
    BY <2>1 DEF NoneLeaves
<1>6. ASSUME Alive(h[n]) \subseteq Alive(t), NEW p \in Alive(h[n])
      PROVE  Rank(Alive(h[n]), p) <= Rank(Alive(t), p) /\ Rank(Alive(h[n]), p) \in Nat /\ Rank(Alive(t), p) \in Nat
  <2>1. Alive(t) \in SUBSET (1..Len(Id)) /\ Len(Id) \in Nat
    BY ListRunnersType, Zenon
  <2> QED
    BY <1>6, <2>1, RankMonotonic, Zenon
<1> SUFFICES WalkInv(r, g)
  BY DEF g
<1> SUFFICES ASSUME r.c.kind = "runners", r.start <= 0
             PROVE  WalkInv(r, g)
  BY DEF WalkInv
<1>7. /\ NoneLeaves(h, a, n) => /\ Alive(h[a]) \subseteq Alive(h[n])
                                /\ r.pc = "list" => Ahead(r, h)
                                /\ r.pc \in {"scan", "merge", "reply"} \/ Given(r) => Beyond(r, h)
      /\ Given(r) => r.cursor = <<>> /\ Complete(r, h)
  BY DEF WalkInv, n, a
<1>8. ASSUME NoneLeaves(g, a, n + 1), Ahead(r, h) PROVE Ahead(r, g)
  <2> SUFFICES ASSUME NEW p \in Alive(h[a]), Id[p] \notin r.got
               PROVE  Rank(Alive(t), p) > PageOffset(r.c.offset)
    BY <1>1, <1>3 DEF Ahead, a
  <2>1. Rank(Alive(h[n]), p) > PageOffset(r.c.offset)
    BY <1>8 DEF Ahead, a, n
  <2>2. p \in Alive(h[n]) /\ Alive(h[n]) \subseteq Alive(t)
    BY <1>4, <1>7, <1>8
  <2>3. Rank(Alive(h[n]), p) <= Rank(Alive(t), p) /\ Rank(Alive(h[n]), p) \in Nat /\ Rank(Alive(t), p) \in Nat
    BY <1>6, <2>2
  <2> QED
    BY <1>2, <2>1, <2>3
<1>9. ASSUME NoneLeaves(g, a, n + 1), Beyond(r, h) PROVE Beyond(r, g)
  <2> SUFFICES ASSUME NEW p \in Alive(h[a]), Id[p] \notin Reached(r)
               PROVE  FullPage(r) /\ Rank(Alive(t), p) > PageOffset(r.c.offset) + PageLimit(r.c.limit)
    BY <1>1, <1>3 DEF Beyond, a
  <2>1. FullPage(r) /\ Rank(Alive(h[n]), p) > PageOffset(r.c.offset) + PageLimit(r.c.limit)
    BY <1>9 DEF Beyond, a, n
  <2>2. p \in Alive(h[n]) /\ Alive(h[n]) \subseteq Alive(t)
    BY <1>4, <1>7, <1>9
  <2>3. Rank(Alive(h[n]), p) <= Rank(Alive(t), p) /\ Rank(Alive(h[n]), p) \in Nat /\ Rank(Alive(t), p) \in Nat
    BY <1>6, <2>2
  <2> QED
    BY <1>2, <2>1, <2>3
<1>10. Complete(r, h) => Complete(r, g)
  BY <1>3, <1>5 DEF Complete, a
<1>11. NoneLeaves(g, a, n + 1) => Alive(g[a]) \subseteq Alive(t)
  BY <1>3, <1>4, <1>7
<1> QED
  BY <1>1, <1>4, <1>7, <1>8, <1>9, <1>10, <1>11 DEF WalkInv, a

\* Every write leaves a database, and appends it to the history.
LEMMA WriteAppends ==
  ASSUME StateType, Write
  PROVE  \E t \in Database : past' = Append(past, t) /\ table' = t /\ conn' = conn /\ req' = req
<1>1. table \in Database /\ past[1] \in DOMAIN Workload
  BY DEF StateType
<1> DEFINE base == [runners : [Ids -> RowOf(Runner)], meta : [Ids -> RowOf(LabelMap)], log : SUBSET Entry]
<1>2. table \in base /\ IsFiniteSet(table.log)
      /\ \A id \in Ids : table.runners[id] # NoRow => table.runners[id].value.id = id
  BY <1>1 DEF Database
<1>3. ASSUME NEW t, Change(t), t \in Database
      PROVE  \E u \in Database : past' = Append(past, u) /\ table' = u /\ conn' = conn /\ req' = req
  BY <1>3 DEF Change
<1>4. ASSUME NEW t \in base, \A id \in Ids : t.runners[id] # NoRow => t.runners[id].value.id = id, IsFiniteSet(t.log)
      PROVE  t \in Database
  BY <1>4 DEF Database
<1>5. ASSUME NEW id \in Ids, PutRunner(id)
      PROVE  \E t \in Database : past' = Append(past, t) /\ table' = t /\ conn' = conn /\ req' = req
  <2>1. PICK v \in Load.runners[id] : Change([table EXCEPT !.runners[id] = Row(v)])
    BY <1>5 DEF PutRunner
  <2>2. v \in Runner /\ v.id = id
    BY <1>1, QueryApiAssumption DEF Load
  <2> DEFINE t == [table EXCEPT !.runners[id] = Row(v)]
  <2>3. /\ t \in base /\ t.log = table.log /\ t.runners[id].value = v
        /\ \A i \in Ids : i # id => t.runners[i] = table.runners[i]
    BY <1>2, <2>2, Zenon DEF Row, RowOf
  <2>4. t \in Database
    BY <1>2, <1>4, <2>2, <2>3
  <2> QED
    BY <1>3, <2>1, <2>4
<1>6. ASSUME NEW id \in Ids, DropRunner(id)
      PROVE  \E t \in Database : past' = Append(past, t) /\ table' = t /\ conn' = conn /\ req' = req
  <2> DEFINE t == [table EXCEPT !.runners = Bury(@, id)]
  <2>1. Live(table.runners, id) /\ Change(t)
    BY <1>6 DEF DropRunner
  <2>2. table.runners[id] # NoRow /\ table.runners[id] \in [tomb : BOOLEAN, value : Runner]
    BY <1>2, <2>1 DEF Live, RowOf
  <2>3. /\ t \in base /\ t.log = table.log /\ t.runners[id].value = table.runners[id].value
        /\ \A i \in Ids : i # id => t.runners[i] = table.runners[i]
    BY <1>2, <2>2, Zenon DEF Bury, RowOf
  <2>4. t \in Database
    BY <1>2, <1>4, <2>2, <2>3
  <2> QED
    BY <1>3, <2>1, <2>4
<1>7. ASSUME NEW id \in Ids, PutMeta(id)
      PROVE  \E t \in Database : past' = Append(past, t) /\ table' = t /\ conn' = conn /\ req' = req
  <2>1. PICK v \in Load.labels[id] : Change([table EXCEPT !.meta[id] = Row(v)])
    BY <1>7 DEF PutMeta
  <2>2. v \in LabelMap
    BY <1>1, QueryApiAssumption DEF Load
  <2> DEFINE t == [table EXCEPT !.meta[id] = Row(v)]
  <2>3. t \in base /\ t.log = table.log /\ t.runners = table.runners
    BY <1>2, <2>2, Zenon DEF Row, RowOf
  <2>4. t \in Database
    BY <1>2, <1>4, <2>3
  <2> QED
    BY <1>3, <2>1, <2>4
<1>8. ASSUME NEW id \in Ids, DropMeta(id)
      PROVE  \E t \in Database : past' = Append(past, t) /\ table' = t /\ conn' = conn /\ req' = req
  <2> DEFINE t == [table EXCEPT !.meta = Bury(@, id)]
  <2>1. Live(table.meta, id) /\ Change(t)
    BY <1>8 DEF DropMeta
  <2>2. table.meta[id] \in [tomb : BOOLEAN, value : LabelMap]
    BY <1>2, <2>1 DEF Live, RowOf
  <2>3. t \in base /\ t.log = table.log /\ t.runners = table.runners
    BY <1>2, <2>2, Zenon DEF Bury, RowOf
  <2>4. t \in Database
    BY <1>2, <1>4, <2>3
  <2> QED
    BY <1>3, <2>1, <2>4
<1>9. ASSUME LogEvent
      PROVE  \E t \in Database : past' = Append(past, t) /\ table' = t /\ conn' = conn /\ req' = req
  <2>1. PICK e \in Load.events \ table.log : Change([table EXCEPT !.log = @ \cup {e}])
    BY <1>9, Zenon DEF LogEvent
  <2>2. e \in Entry
    BY <1>1, QueryApiAssumption DEF Load
  <2> DEFINE t == [table EXCEPT !.log = @ \cup {e}]
  <2>3. t \in base /\ t.log = table.log \cup {e} /\ t.runners = table.runners
    BY <1>2, <2>2
  <2>4. IsFiniteSet(t.log)
    BY <1>2, <2>3, FS_AddElement
  <2>5. t \in Database
    BY <1>2, <1>4, <2>3, <2>4, Zenon
  <2> QED
    BY <1>3, <2>1, <2>5
<1> QED
  BY <1>5, <1>6, <1>7, <1>8, <1>9 DEF Write

\* A write keeps the invariant.
LEMMA WriteKeepsInv ==
  ASSUME QueryInv, Write
  PROVE  QueryInv'
<1>1. StateType
  BY DEF QueryInv
<1>2. PICK t \in Database : past' = Append(past, t) /\ table' = t /\ conn' = conn /\ req' = req
  BY <1>1, WriteAppends
<1>3. past \in Seq(Database) /\ past # <<>> /\ past[1] \in DOMAIN Workload
  BY <1>1 DEF StateType
<1>4. past' \in Seq(Database) /\ past' # <<>> /\ past'[1] = past[1] /\ table' = past'[Len(past')]
  BY <1>2, <1>3
<1>5. ASSUME NEW q \in Slot, req[q].pc # "idle"
      PROVE  RequestType(req[q], past') /\ ReadInv(req[q], past') /\ WalkInv(req[q], past')
  <2>1. RequestType(req[q], past) /\ ReadInv(req[q], past) /\ WalkInv(req[q], past)
    BY <1>1, <1>5 DEF QueryInv, StateType
  <2> QED
    BY <1>2, <1>3, <2>1, ReadGrows, WalkGrows
<1>6. StateType'
  BY <1>1, <1>2, <1>3, <1>4, <1>5 DEF StateType
<1>7. ConnectionHeldByOpenList'
  BY <1>2 DEF QueryInv, ConnectionHeldByOpenList
<1> QED
  BY <1>2, <1>5, <1>6, <1>7 DEF QueryInv

-----------------------------------------------------------------------------
(* Steps of a request.  Each changes one request, and the store not at all. *)

\* What is to be shown of the step of one request.
LEMMA StepKeepsInv ==
  ASSUME QueryInv, NEW q \in Slot, UNCHANGED <<table, past>>,
         req' = [p \in Slot |-> IF p = q THEN req'[q] ELSE req[p]],
         RequestType(req'[q], past), ReadInv(req'[q], past), WalkInv(req'[q], past),
         \/ conn' = conn /\ (req'[q].pc = "scan" <=> req[q].pc = "scan")
         \/ conn = Free /\ conn' = q /\ req'[q].pc = "scan"
         \/ req[q].pc = "scan" /\ conn' = Free /\ req'[q].pc # "scan"
  PROVE  QueryInv'
<1>1. \A p \in Slot : p # q => req'[p] = req[p]
  OBVIOUS
<1>2. StateType'
  <2>1. req' = [p \in Slot |-> req'[p]]
    OBVIOUS
  <2>2. \A p \in Slot : req'[p].pc = "idle" \/ RequestType(req'[p], past)
    BY <1>1, Zenon DEF QueryInv, StateType
  <2> QED
    BY <2>1, <2>2 DEF QueryInv, StateType
<1>3. ConnectionHeldByOpenList'
  BY <1>1, QueryApiAssumption DEF QueryInv, ConnectionHeldByOpenList
<1>4. \A p \in Slot : req'[p].pc # "idle" => ReadInv(req'[p], past) /\ WalkInv(req'[p], past)
  BY <1>1 DEF QueryInv
<1> QED
  BY <1>2, <1>3, <1>4 DEF QueryInv

\* The invariant of a request that is being served.
LEMMA RequestInv ==
  ASSUME QueryInv, NEW q \in Slot, req[q].pc # "idle"
  PROVE  /\ RequestType(req[q], past) /\ ReadInv(req[q], past) /\ WalkInv(req[q], past)
         /\ past \in Seq(Database) /\ Len(past) \in Nat \ {0} /\ table = past[Len(past)] /\ table \in Database
         /\ req = [p \in Slot |-> req[p]]
BY DEF QueryInv, StateType

\* The end of a request.
LEMMA FinishType ==
  ASSUME QueryInv, NEW q \in Slot, req[q].pc # "idle", NEW code, NEW answer, Finish(q, code, answer)
  PROVE  LET r == req[q]
             s == req'[q]
         IN /\ req' = [p \in Slot |-> IF p = q THEN s ELSE req[p]]
            /\ s.pc = "done" /\ s.code = code /\ s.answer = answer /\ s.last = Len(past)
            /\ s.c = r.c /\ s.cursor = r.cursor /\ s.items = r.items /\ s.next = r.next /\ s.lost = r.lost
            /\ s.got = r.got /\ s.first = r.first /\ s.start = r.start
            /\ RequestType(s, past)
<1> DEFINE r == req[q]
           s == req'[q]
<1>1. RequestType(r, past) /\ req = [p \in Slot |-> req[p]] /\ Len(past) \in Nat
  BY RequestInv
<1>2. /\ req' = [p \in Slot |-> IF p = q THEN s ELSE req[p]]
      /\ s = [f \in Fields |-> s[f]]
      /\ s.pc = "done" /\ s.code = code /\ s.answer = answer /\ s.last = Len(past)
      /\ s.c = r.c /\ s.cursor = r.cursor /\ s.items = r.items /\ s.next = r.next /\ s.lost = r.lost
      /\ s.got = r.got /\ s.first = r.first /\ s.start = r.start
  BY <1>1, Zenon DEF Finish, RequestType, Fields
<1> HIDE DEF s, r
<1>3. RequestType(s, past)
  BY <1>1, <1>2 DEF RequestType
<1> QED
  BY <1>2, <1>3, Zenon DEF s, r

\* An answer that is an error, or that nothing more is said about.
LEMMA FinishKeepsInv ==
  ASSUME QueryInv, NEW q \in Slot, req[q].pc # "idle", NEW code, NEW answer, Finish(q, code, answer),
         code # 200 \/ req[q].c.kind \in {"cluster", "metrics", "labels"}, UNCHANGED <<table, past>>,
         IF req[q].pc = "scan" THEN conn' = Free ELSE conn' = conn
  PROVE  QueryInv'
<1> DEFINE r == req[q]
           s == req'[q]
<1>1. RequestType(r, past) /\ ReadInv(r, past) /\ WalkInv(r, past)
  BY RequestInv
<1>2. /\ req' = [p \in Slot |-> IF p = q THEN s ELSE req[p]]
      /\ s.pc = "done" /\ s.code = code /\ s.c = r.c /\ s.first = r.first /\ s.start = r.start
      /\ RequestType(s, past)
  BY FinishType
<1> HIDE DEF s
<1>3. ReadInv(s, past)
  BY <1>2, Zenon DEF ReadInv, Merging
<1>4. WalkInv(s, past)
  BY <1>1, <1>2, Zenon DEF WalkInv, Given
<1> QED
  BY <1>2, <1>3, <1>4, StepKeepsInv, Zenon DEF s

\* ListFailed answers 500, or 200 to a request for the metrics.
LEMMA ListFailedKeepsInv ==
  ASSUME QueryInv, NEW q \in Slot, req[q].pc # "idle", ListFailed(q), UNCHANGED <<table, past>>,
         IF req[q].pc = "scan" THEN conn' = Free ELSE conn' = conn
  PROVE  QueryInv'
<1> DEFINE code == IF req[q].c.kind = "metrics" THEN 200 ELSE 500
<1>1. Finish(q, code, <<>>) /\ (code # 200 \/ req[q].c.kind \in {"cluster", "metrics", "labels"})
  BY DEF ListFailed
<1> HIDE DEF code
<1> QED
  BY <1>1, FinishKeepsInv

\* A row that cannot be read ends the request and closes the list.
LEMMA ScanFailsKeepsInv ==
  ASSUME QueryInv, NEW q \in Slot, ScanFails(q)
  PROVE  QueryInv'
BY ListFailedKeepsInv DEF ScanFails

\* A request that has just arrived.
LEMMA ArrivedType ==
  ASSUME NEW c \in Request, NEW got, NEW first \in 1..Len(past), Len(past) \in Nat, NEW start \in Int
  PROVE  LET s == Arrived(c, got, first, start) IN
         /\ RequestType(s, past) /\ ReadInv(s, past)
         /\ s.pc # "scan" /\ ~Given(s) /\ s.c = c /\ s.got = got /\ s.first = first /\ s.start = start
         /\ c.kind \in Listing => s.pc = "list"
         /\ s.pc \notin {"scan", "merge", "reply", "done"}
<1> DEFINE s == Arrived(c, got, first, start)
<1>1. /\ s = [f \in Fields |-> s[f]]
      /\ s.pc = FirstStep(c.kind) /\ s.c = c /\ s.cursor = <<>> /\ s.items = <<>> /\ s.next = 1 /\ s.lost = {}
      /\ s.got = got /\ s.first = first /\ s.last = first /\ s.start = start
  BY Zenon DEF Arrived, Fields
<1>2. /\ FirstStep(c.kind) \in {"list", "getRunner", "events"}
      /\ FirstStep(c.kind) = "list" <=> c.kind \in Listing
      /\ FirstStep(c.kind) = "getRunner" <=> c.kind \in {"runner", "labels"}
      /\ FirstStep(c.kind) = "events" <=> c.kind = "events"
  <2>1. c.kind \in Listing \cup {"runner", "labels", "events"}
    BY DEF Request
  <2>2. CASE c.kind \in Listing
    BY <2>2 DEF FirstStep, Listing
  <2>3. CASE c.kind \in {"runner", "labels"}
    BY <2>3 DEF FirstStep, Listing
  <2>4. CASE c.kind = "events"
    BY <2>4 DEF FirstStep, Listing
  <2> QED
    BY <2>1, <2>2, <2>3, <2>4
<1> HIDE DEF s
<1>3. <<>> \in Seq(Runner)
  OBVIOUS
<1>4. RequestType(s, past)
  <2>1. s.pc \in {"list", "getRunner", "events"} /\ s.last \in s.first..Len(past) /\ 1 \in Nat \ {0}
    BY <1>1, <1>2
  <2>2. /\ s.pc = "list" => s.c.kind \in Listing
        /\ s.pc = "getRunner" => s.c.kind \in {"runner", "labels"}
        /\ s.pc = "events" => s.c.kind = "events"
    BY <1>1, <1>2
  <2> QED
    BY <1>1, <1>3, <2>1, <2>2, Zenon DEF RequestType
<1>5. ReadInv(s, past)
  BY <1>1, <1>2, Zenon DEF ReadInv
<1> QED
  BY <1>1, <1>2, <1>4, <1>5, Zenon DEF s, Given

\* A new request: the walk starts with everything still ahead.
LEMMA ArriveKeepsInv ==
  ASSUME QueryInv, NEW q \in Slot, Arrive(q)
  PROVE  QueryInv'
<1>1. /\ past \in Seq(Database) /\ Len(past) \in Nat \ {0} /\ table = past[Len(past)]
      /\ past[1] \in DOMAIN Workload /\ req = [p \in Slot |-> req[p]] /\ table \in Database
  BY DEF QueryInv, StateType
<1>2. PICK c \in Load.asked[q] : /\ req[q].pc = "idle"
                                 /\ req' = [req EXCEPT ![q] = Arrived(c, {}, Len(past), c.offset)]
                                 /\ UNCHANGED <<table, conn, past>>
  BY Zenon DEF Arrive
<1>3. c \in Request /\ c.offset \in Int /\ Len(past) \in 1..Len(past)
  BY <1>1, QueryApiAssumption DEF Load, Request
<1> DEFINE n == Len(past)
           s == Arrived(c, {}, n, c.offset)
<1>4. req' = [p \in Slot |-> IF p = q THEN req'[q] ELSE req[p]] /\ req'[q] = s
  BY <1>1, <1>2
<1>5. /\ RequestType(s, past) /\ ReadInv(s, past)
      /\ s.pc # "scan" /\ ~Given(s) /\ s.c = c /\ s.got = {} /\ s.first = n /\ s.start = c.offset
      /\ s.pc \notin {"scan", "merge", "reply", "done"}
  BY <1>1, <1>3, ArrivedType
<1> HIDE DEF s
<1>6. WalkInv(s, past)
  <2>1. ASSUME c.offset <= 0 PROVE Ahead(s, past)
    <3>1. PageOffset(c.offset) = 0
      BY <1>3, <2>1 DEF PageOffset
    <3>2. \A p \in Alive(past[n]) : Rank(Alive(past[n]), p) > 0
      BY <1>1, ListRunnersType, RankType
    <3> QED
      BY <1>5, <3>1, <3>2 DEF Ahead
  <2> QED
    BY <1>5, <2>1 DEF WalkInv
<1> QED
  BY <1>2, <1>4, <1>5, <1>6, StepKeepsInv, Zenon

\* List's query opens a page on the content of this moment.
LEMMA OpenListKeepsInv ==
  ASSUME QueryInv, NEW q \in Slot, OpenList(q)
  PROVE  QueryInv'
<1> DEFINE r == req[q]
           s == req'[q]
           n == Len(past)
<1>1. r.pc = "list" /\ conn = Free /\ UNCHANGED <<table, past>>
  BY DEF OpenList
<1>2. /\ RequestType(r, past) /\ ReadInv(r, past) /\ WalkInv(r, past)
      /\ past \in Seq(Database) /\ n \in Nat \ {0} /\ table = past[n] /\ table \in Database
      /\ req = [p \in Slot |-> req[p]]
  BY <1>1, RequestInv
<1>3. CASE ListFailed(q) /\ UNCHANGED conn
  BY <1>1, <1>3, ListFailedKeepsInv
<1>4. CASE /\ conn' = q
           /\ req' = [req EXCEPT ![q].pc = "scan", ![q].cursor = Rows(table, req[q].c)]
  <2> DEFINE rows == Rows(table, r.c)
  <2>1. /\ req' = [p \in Slot |-> IF p = q THEN s ELSE req[p]]
        /\ s = [f \in Fields |-> s[f]]
        /\ s.pc = "scan" /\ s.cursor = rows
        /\ s.c = r.c /\ s.items = r.items /\ s.next = r.next /\ s.lost = r.lost
        /\ s.got = r.got /\ s.first = r.first /\ s.last = r.last /\ s.start = r.start
    BY <1>2, <1>4, Zenon DEF RequestType, Fields
  <2>2. /\ r.c \in Request /\ r.c.kind \in Listing /\ r.items = <<>> /\ r.next = 1 /\ r.lost = {}
        /\ r.first \in 1..n /\ r.last \in r.first..n
    BY <1>1, <1>2, Zenon DEF RequestType
  <2>3. rows \in Seq(Runner)
    BY <1>2, <2>2, RowsType, Zenon
  <2> HIDE DEF s, r, rows
  <2>4. RequestType(s, past)
    BY <1>2, <2>1, <2>2, <2>3, Zenon DEF RequestType
  <2>5. Len(s.items) = 0 /\ DOMAIN s.items = {} /\ Len(rows) \in Nat /\ DOMAIN rows = 1..Len(rows)
    BY <2>1, <2>2, <2>3
  <2>6. ReadInv(s, past)
    <3>1. Shown(past[n], s.c) = rows
      BY <1>2, <2>1, <2>2, Zenon DEF Shown, Listing, rows
    <3>2. ScanOf(s, past, n)
      <4>1. \A k \in DOMAIN rows : rows[k] = rows[Len(s.items) + k]
        BY <2>5
      <4>2. s.cursor = rows
        BY <2>1
      <4>3. Len(rows) = Len(s.items) + Len(rows)
        BY <2>5
      <4> QED
        BY <2>5, <3>1, <4>1, <4>2, <4>3 DEF ScanOf
    <3>3. n \in s.first..n
      BY <1>2, <2>1, <2>2
    <3> QED
      BY <2>1, <3>2, <3>3, Zenon DEF ReadInv
  <2>7. WalkInv(s, past)
    <3> SUFFICES ASSUME r.c.kind = "runners", r.start <= 0, NoneLeaves(past, r.first, n)
                 PROVE  Alive(past[r.first]) \subseteq Alive(past[n]) /\ Beyond(s, past)
      BY <2>1, Zenon DEF WalkInv, Given, n
    <3>1. Alive(past[r.first]) \subseteq Alive(past[n]) /\ Ahead(r, past)
      BY <1>1, <1>2, Zenon DEF WalkInv, n, r
    <3> DEFINE list   == ListRunners(table)
               limit  == PageLimit(r.c.limit)
               offset == PageOffset(r.c.offset)
    <3>2. list \in Seq(Runner) /\ limit \in Int /\ offset \in Nat /\ rows = Page(list, limit, offset)
      <4>1. list \in Seq(Runner)
        BY <1>2, ListRunnersType
      <4>2. limit \in Int /\ offset \in Nat
        BY <2>2 DEF Request, PageLimit, PageOffset
      <4> QED
        BY <4>1, <4>2, Zenon DEF Rows, rows
    <3>3. ASSUME NEW p \in Alive(past[r.first]), Id[p] \notin r.got
          PROVE  \/ \E k \in DOMAIN rows : rows[k].id = Id[p]
                 \/ limit > 0 /\ Len(rows) = limit /\ Rank(Alive(past[n]), p) > offset + limit
      <4> DEFINE m == Rank(Alive(past[n]), p)
      <4>1. p \in Alive(table) /\ m = Rank(Alive(table), p) /\ m > offset
        BY <1>2, <3>1, <3>3 DEF Ahead, n
      <4>2. m \in DOMAIN list /\ list[m].id = Id[p] /\ m \in Nat /\ m <= Len(list)
        BY <1>2, <3>2, <4>1, ListRunnersType
      <4> HIDE DEF m, list, limit, offset
      <4>3. CASE limit > 0 /\ m > offset + limit
        <5>1. Len(list) >= offset + limit
          BY <3>2, <4>2, <4>3
        <5> QED
          BY <3>2, <4>3, <5>1, PageType DEF m
      <4>4. CASE ~(limit > 0 /\ m > offset + limit)
        <5>1. m > offset /\ (limit > 0 => m <= offset + limit)
          BY <3>2, <4>1, <4>2, <4>4
        <5>2. m - offset \in DOMAIN rows /\ rows[m - offset] = list[m]
          BY <3>2, <4>2, <5>1, PageType
        <5> QED
          BY <4>2, <5>2
      <4> QED
        BY <4>3, <4>4
    <3>4. \A k \in DOMAIN rows : rows[k].id \in Reached(s)
      BY <2>1, Zenon DEF Reached
    <3>5. r.got \subseteq Reached(s)
      BY <2>1, Zenon DEF Reached
    <3>6. limit > 0 /\ Len(rows) = limit => FullPage(s)
      <4>1. Len(s.items) + Len(s.cursor) = Len(rows)
        <5>1. s.cursor = rows
          BY <2>1
        <5> QED
          BY <2>5, <5>1
      <4> QED
        BY <2>1, <4>1, Zenon DEF FullPage
    <3> QED
      BY <2>1, <3>1, <3>3, <3>4, <3>5, <3>6, Zenon DEF Beyond, n
  <2> QED
    BY <1>1, <1>4, <2>1, <2>4, <2>6, <2>7, StepKeepsInv, Zenon DEF s
<1> QED
  BY <1>3, <1>4 DEF OpenList

\* What a walk knows carries over to a request that has reached as much.
LEMMA BeyondCarries ==
  ASSUME NEW r, NEW s, NEW h, Beyond(r, h), s.c = r.c, s.first = r.first,
         Reached(r) \subseteq Reached(s), FullPage(r) => FullPage(s)
  PROVE  Beyond(s, h)
BY DEF Beyond

\* The callback of listRunners moves one row from the cursor to the items.
LEMMA ScanRowKeepsInv ==
  ASSUME QueryInv, NEW q \in Slot, ScanRow(q)
  PROVE  QueryInv'
<1> DEFINE r == req[q]
           s == req'[q]
           n == Len(past)
<1>1. r.pc = "scan" /\ r.cursor # <<>> /\ UNCHANGED <<table, conn, past>>
  BY Zenon DEF ScanRow
<1>2. /\ RequestType(r, past) /\ ReadInv(r, past) /\ WalkInv(r, past)
      /\ req = [p \in Slot |-> req[p]]
  BY <1>1, RequestInv
<1>3. /\ req' = [p \in Slot |-> IF p = q THEN s ELSE req[p]]
      /\ s = [f \in Fields |-> s[f]]
      /\ s.pc = "scan" /\ s.cursor = Tail(r.cursor) /\ s.items = Append(r.items, Head(r.cursor))
      /\ s.c = r.c /\ s.next = r.next /\ s.lost = r.lost
      /\ s.got = r.got /\ s.first = r.first /\ s.last = r.last /\ s.start = r.start
  BY <1>1, <1>2, Zenon DEF ScanRow, RequestType, Fields
<1>4. r.cursor \in Seq(Runner) /\ r.items \in Seq(Runner) /\ r.cursor # <<>>
  BY <1>1, <1>2, Zenon DEF RequestType
<1> HIDE DEF s, r
<1> DEFINE a == Len(r.items)
           b == Len(r.cursor)
<1>5. /\ a \in Nat /\ b \in Nat \ {0} /\ DOMAIN r.items = 1..a /\ DOMAIN r.cursor = 1..b
      /\ s.cursor \in Seq(Runner) /\ s.items \in Seq(Runner)
      /\ Len(s.items) = a + 1 /\ DOMAIN s.items = 1..(a + 1)
      /\ Len(s.cursor) = b - 1 /\ DOMAIN s.cursor = 1..(b - 1)
      /\ \A k \in 1..a : s.items[k] = r.items[k]
      /\ s.items[a + 1] = r.cursor[1]
      /\ \A k \in 1..(b - 1) : s.cursor[k] = r.cursor[k + 1]
  <2> DEFINE x == Append(r.items, Head(r.cursor))
             y == Tail(r.cursor)
  <2>1. s.items = x /\ s.cursor = y
    BY <1>3, Zenon
  <2>2. /\ a \in Nat /\ b \in Nat \ {0} /\ DOMAIN r.items = 1..a /\ DOMAIN r.cursor = 1..b
        /\ x \in Seq(Runner) /\ Len(x) = a + 1 /\ DOMAIN x = 1..(a + 1)
        /\ y \in Seq(Runner) /\ Len(y) = b - 1 /\ DOMAIN y = 1..(b - 1)
        /\ \A k \in 1..a : x[k] = r.items[k]
        /\ x[a + 1] = r.cursor[1]
        /\ \A k \in 1..(b - 1) : y[k] = r.cursor[k + 1]
    BY <1>4, MoveHead
  <2> HIDE DEF x, y, a, b
  <2> QED
    BY <2>1, <2>2
<1> HIDE DEF a, b
<1>6. RequestType(s, past)
  BY <1>1, <1>2, <1>3, <1>5, Zenon DEF RequestType, r
<1>7. ReadInv(s, past)
  <2>1. PICK i \in r.first..n : ScanOf(r, past, i)
    BY <1>1, <1>2, Zenon DEF ReadInv, r
  <2> DEFINE rows == Shown(past[i], r.c)
  <2>2. /\ Len(rows) = a + b
        /\ \A k \in 1..a : r.items[k] = rows[k]
        /\ \A k \in 1..b : r.cursor[k] = rows[a + k]
    BY <1>5, <2>1, Zenon DEF ScanOf, a, b
  <2> HIDE DEF rows
  <2>3. Len(rows) = (a + 1) + (b - 1)
    BY <1>5, <2>2
  <2>4. \A k \in 1..(a + 1) : s.items[k] = rows[k]
    <3>1. /\ a \in Nat /\ b \in Nat \ {0}
          /\ s.items[a + 1] = r.cursor[1] /\ \A k \in 1..a : s.items[k] = r.items[k]
      BY <1>5, Zenon
    <3> QED
      BY <2>2, <3>1
  <2>5. \A k \in 1..(b - 1) : s.cursor[k] = rows[(a + 1) + k]
    BY <1>5, <2>2
  <2>6. ScanOf(s, past, i)
    BY <1>3, <1>5, <2>3, <2>4, <2>5, Zenon DEF ScanOf, rows
  <2> QED
    BY <1>3, <2>1, <2>6, Zenon DEF ReadInv, n
<1>8. WalkInv(s, past)
  <2>1. Reached(r) \subseteq Reached(s)
    <3>1. ASSUME NEW k \in 1..a PROVE r.items[k].id \in Reached(s)
      <4>1. k \in DOMAIN s.items /\ s.items[k] = r.items[k]
        <5>1. a \in Nat /\ DOMAIN s.items = 1..(a + 1) /\ s.items[k] = r.items[k]
          BY <1>5, Zenon
        <5> QED
          BY <5>1
      <4> QED
        BY <4>1, Zenon DEF Reached
    <3>2. ASSUME NEW k \in 1..b PROVE r.cursor[k].id \in Reached(s)
      <4>1. CASE k = 1
        <5>1. a + 1 \in DOMAIN s.items /\ s.items[a + 1] = r.cursor[k]
          BY <1>5, <4>1
        <5> QED
          BY <5>1, Zenon DEF Reached
      <4>2. CASE k # 1
        <5>1. k - 1 \in DOMAIN s.cursor /\ s.cursor[k - 1] = r.cursor[k]
          <6>1. /\ b \in Nat /\ DOMAIN s.cursor = 1..(b - 1)
                /\ \A j \in 1..(b - 1) : s.cursor[j] = r.cursor[j + 1]
            BY <1>5, Zenon
          <6>2. k - 1 \in 1..(b - 1) /\ (k - 1) + 1 = k
            BY <4>2, <6>1
          <6> QED
            BY <6>1, <6>2, Zenon
        <5> QED
          BY <5>1, Zenon DEF Reached
      <4> QED
        BY <4>1, <4>2
    <3>3. r.got \subseteq Reached(s)
      BY <1>3, Zenon DEF Reached
    <3>4. ASSUME NEW x \in Reached(r) PROVE x \in Reached(s)
      <4>1. \/ x \in r.got
            \/ \E k \in 1..a : x = r.items[k].id
            \/ \E k \in 1..b : x = r.cursor[k].id
        BY <1>5 DEF Reached
      <4> QED
        BY <3>1, <3>2, <3>3, <4>1
    <3> QED
      BY <3>4
  <2>2. FullPage(r) => FullPage(s)
    <3>1. Len(s.items) + Len(s.cursor) = Len(r.items) + Len(r.cursor)
      <4>1. Len(s.items) + Len(s.cursor) = a + b
        BY <1>5
      <4> QED
        BY <4>1, Zenon DEF a, b
    <3> QED
      BY <1>3, <3>1, Zenon DEF FullPage
  <2>3. Beyond(r, past) => Beyond(s, past)
    BY <1>3, <2>1, <2>2, BeyondCarries
  <2> QED
    BY <1>1, <1>2, <1>3, <2>3, Zenon DEF WalkInv, Given, r
<1> QED
  BY <1>1, <1>3, <1>6, <1>7, <1>8, StepKeepsInv DEF s, r

\* The list is read to its end: its rows are those of one moment.
LEMMA CloseListKeepsInv ==
  ASSUME QueryInv, NEW q \in Slot, CloseList(q)
  PROVE  QueryInv'
<1> DEFINE r == req[q]
           s == req'[q]
           n == Len(past)
           pc == IF r.c.kind \in Merging /\ r.items # <<>> THEN "merge" ELSE "reply"
<1>1. r.pc = "scan" /\ r.cursor = <<>> /\ conn' = Free /\ UNCHANGED <<table, past>>
  BY DEF CloseList
<1>2. /\ RequestType(r, past) /\ ReadInv(r, past) /\ WalkInv(r, past)
      /\ req = [p \in Slot |-> req[p]] /\ n \in Nat
  BY <1>1, RequestInv
<1>3. /\ req' = [p \in Slot |-> IF p = q THEN s ELSE req[p]]
      /\ s = [f \in Fields |-> s[f]]
      /\ s.pc = pc /\ s.cursor = r.cursor /\ s.items = r.items
      /\ s.c = r.c /\ s.next = r.next /\ s.lost = r.lost
      /\ s.got = r.got /\ s.first = r.first /\ s.last = r.last /\ s.start = r.start
  BY <1>1, <1>2, Zenon DEF CloseList, RequestType, Fields
<1>4. /\ r.items \in Seq(Runner) /\ Len(r.items) \in Nat /\ DOMAIN r.items = 1..Len(r.items)
      /\ r.c.kind \in Listing /\ r.next = 1 /\ r.lost = {}
      /\ IF r.items = <<>> THEN Len(r.items) = 0 ELSE 1 <= Len(r.items)
  <2>1. r.items \in Seq(Runner) /\ r.c.kind \in Listing /\ r.next = 1 /\ r.lost = {}
    BY <1>1, <1>2, Zenon DEF RequestType
  <2> HIDE DEF r
  <2> QED
    BY <2>1, SeqDomain
<1> HIDE DEF s, r
<1>5. /\ pc \in {"merge", "reply"}
      /\ pc = "merge" => r.c.kind \in Merging /\ 1 <= Len(r.items)
      /\ pc = "reply" /\ r.c.kind \in Merging => Len(r.items) = 0
  BY <1>4
<1> HIDE DEF pc
<1>6. RequestType(s, past)
  BY <1>1, <1>2, <1>3, <1>4, <1>5, Zenon DEF RequestType, r
<1>7. ReadInv(s, past)
  <2>1. PICK i \in r.first..n : ScanOf(r, past, i)
    BY <1>1, <1>2, Zenon DEF ReadInv, r
  <2> DEFINE rows == Shown(past[i], r.c)
  <2>2. /\ Len(rows) = Len(r.items)
        /\ \A k \in DOMAIN r.items : r.items[k] = rows[k]
    <3>1. Len(r.cursor) = 0
      BY <1>1 DEF r
    <3> QED
      BY <1>4, <2>1, <3>1 DEF ScanOf
  <2>3. past[i] \in Database /\ r.c \in Request /\ r.c.kind # "runner"
    <3>1. r.c \in Request /\ r.first \in 1..n
      BY <1>2, Zenon DEF RequestType, n
    <3>2. past \in Seq(Database)
      BY <1>1, RequestInv DEF r
    <3>3. r.c.kind # "runner"
      BY <1>4 DEF Listing
    <3> QED
      BY <1>2, <2>1, <3>1, <3>2, <3>3
  <2>4. rows \in Seq(Runner)
    BY <2>3, RowsType DEF Shown
  <2> HIDE DEF rows
  <2>5. DOMAIN rows = DOMAIN r.items
    BY <1>4, <2>2, <2>4
  <2>6. \A k \in DOMAIN rows : rows[k] = [rows[k] EXCEPT !.labels = rows[k].labels]
    <3>1. \A k \in DOMAIN rows : rows[k] \in Runner
      BY <2>4
    <3> QED
      BY <3>1, OwnLabels
  <2>7. /\ s.c.kind # "runner" /\ s.lost = {} /\ s.next = 1 /\ DOMAIN s.items = DOMAIN rows
        /\ \A k \in DOMAIN rows : k >= 1 /\ ~(k < 1) /\ s.items[k] = rows[k]
    <3>1. s.c.kind # "runner" /\ s.lost = {} /\ s.next = 1 /\ s.items = r.items
      BY <1>3, <1>4, <2>3, Zenon
    <3>2. \A k \in DOMAIN rows : k >= 1 /\ ~(k < 1) /\ k \in DOMAIN r.items
      BY <1>4, <2>5
    <3> QED
      BY <2>2, <2>5, <3>1, <3>2
  <2>8. MergeOf(s, past, i, n)
    <3>1. Shown(past[i], s.c) = rows
      BY <1>3 DEF rows
    <3> QED
      BY <2>6, <2>7, <3>1 DEF MergeOf
  <2> QED
    BY <1>3, <1>4, <1>5, <2>1, <2>8 DEF ReadInv, n
<1>8. WalkInv(s, past)
  <2>1. Reached(s) = Reached(r) /\ (FullPage(s) <=> FullPage(r))
    <3>1. s.got = r.got /\ s.items = r.items /\ s.cursor = r.cursor /\ s.c = r.c
      BY <1>3, Zenon
    <3>2. Reached(s) = Reached(r)
      BY <3>1 DEF Reached
    <3> QED
      BY <3>1, <3>2, Zenon DEF FullPage
  <2>2. Beyond(r, past) => Beyond(s, past)
    BY <1>3, <2>1, BeyondCarries
  <2> QED
    BY <1>1, <1>2, <1>3, <1>5, <2>2 DEF WalkInv, Given, r
<1> QED
  BY <1>1, <1>3, <1>5, <1>6, <1>7, <1>8, StepKeepsInv DEF s, r
=============================================================================
