---------------------------- MODULE QueryProofs -----------------------------
(***************************************************************************)
(* The safety properties of the read API, for every number of requests at  *)
(* once, every set of runner ids, every workload and every length of it:   *)
(* the steps from the merge of labels to the reply keep the invariant, and *)
(* what follows from it.                                                   *)
(***************************************************************************)
EXTENDS ListProofs

-----------------------------------------------------------------------------
(* Labels, single runners, events, replies and the next page. *)

\* mergeMetaLabelsOne, with the labels or without.
LEMMA MergeOneKeepsInv ==
  ASSUME QueryInv, NEW q \in Slot, MergeOne(q)
  PROVE  QueryInv'
<1> DEFINE r  == req[q]
           s  == req'[q]
           n  == Len(past)
           j  == r.next
           x  == r.items[j]
           L  == MergeLabels(x.labels, ExtraLabels(table, x.id))
           pc == IF j = Len(r.items) THEN "reply" ELSE "merge"
<1>1. r.pc = "merge" /\ UNCHANGED <<table, conn, past>>
  BY Zenon DEF MergeOne
<1>2. /\ RequestType(r, past) /\ ReadInv(r, past) /\ WalkInv(r, past)
      /\ past \in Seq(Database) /\ n \in Nat \ {0} /\ table = past[n] /\ table \in Database
      /\ req = [p \in Slot |-> req[p]]
  BY <1>1, RequestInv
<1>3. /\ r.items \in Seq(Runner) /\ r.c \in Request /\ r.c.kind \in Merging
      /\ j \in Nat \ {0} /\ j <= Len(r.items) /\ r.cursor = <<>>
      /\ r.first \in 1..n
  BY <1>1, <1>2, Zenon DEF RequestType
<1>4. j \in DOMAIN r.items /\ x \in Runner /\ x.id \in Ids /\ x.labels \in LabelMap /\ Len(r.items) \in Nat
  <2>1. j \in DOMAIN r.items /\ x \in Runner /\ Len(r.items) \in Nat
    BY <1>3
  <2> QED
    BY <2>1, Zenon DEF Runner
<1>5. /\ req' = [p \in Slot |-> IF p = q THEN s ELSE req[p]]
      /\ s = [f \in Fields |-> s[f]]
      /\ s.pc = pc /\ s.next = j + 1
      /\ s.c = r.c /\ s.cursor = r.cursor
      /\ s.got = r.got /\ s.first = r.first /\ s.last = r.last /\ s.start = r.start
      /\ \/ s.items = [r.items EXCEPT ![j] = [x EXCEPT !.labels = L]] /\ s.lost = r.lost
         \/ s.items = r.items /\ s.lost = r.lost \cup {x.id}
  <2>1. CASE req' = [req EXCEPT ![q].pc = pc, ![q].next = @ + 1,
                                ![q].items[r.next].labels = MergeLabels(@, ExtraLabels(table, x.id))]
    BY <1>2, <1>4, <2>1, ZenonT(30) DEF RequestType, Fields
  <2>2. CASE req' = [req EXCEPT ![q].pc = pc, ![q].next = @ + 1, ![q].lost = @ \cup {x.id}]
    BY <1>2, <1>4, <2>2, Zenon DEF RequestType, Fields
  <2> QED
    BY <2>1, <2>2, ZenonT(30) DEF MergeOne
<1>6. L \in LabelMap
  BY <1>2, <1>4, LabelsType, Zenon
<1> HIDE DEF s, r, L, x
<1>7. /\ s.items \in Seq(Runner) /\ DOMAIN s.items = DOMAIN r.items /\ Len(s.items) = Len(r.items)
      /\ \A k \in DOMAIN r.items : k # j => s.items[k] = r.items[k]
      /\ \/ s.items[j] = [x EXCEPT !.labels = L] /\ s.lost = r.lost
         \/ s.items[j] = x /\ s.lost = r.lost \cup {x.id}
      /\ \A k \in DOMAIN r.items : s.items[k].id = r.items[k].id
  <2>1. [x EXCEPT !.labels = L] \in Runner /\ [x EXCEPT !.labels = L].id = x.id
    BY <1>4, <1>6 DEF Runner
  <2> DEFINE y == [x EXCEPT !.labels = L]
  <2> HIDE DEF y
  <2>2. CASE s.items = [r.items EXCEPT ![j] = y] /\ s.lost = r.lost
    <3>1. y \in Runner /\ y.id = x.id /\ x = r.items[j]
      BY <2>1 DEF y, x
    <3>2. /\ s.items \in Seq(Runner) /\ DOMAIN s.items = DOMAIN r.items /\ Len(s.items) = Len(r.items)
          /\ s.items[j] = y /\ (\A k \in DOMAIN r.items : k # j => s.items[k] = r.items[k])
      BY <1>3, <1>4, <2>2, <3>1
    <3> QED
      BY <2>2, <3>1, <3>2, Zenon DEF y
  <2>3. CASE s.items = r.items /\ s.lost = r.lost \cup {x.id}
    BY <1>3, <2>3 DEF x
  <2> QED
    BY <1>5, <2>2, <2>3 DEF y
<1>8. /\ pc \in {"reply", "merge"}
      /\ pc = "merge" => j + 1 <= Len(r.items)
      /\ pc = "reply" => j = Len(r.items)
  BY <1>3, <1>4
<1> HIDE DEF pc, j
<1>9. RequestType(s, past)
  <2>1. s.c.kind \in Listing \cup {"runner"} /\ s.next \in Nat \ {0}
    BY <1>3, <1>5 DEF Merging, Listing
  <2> QED
    BY <1>2, <1>3, <1>5, <1>7, <1>8, <2>1, Zenon DEF RequestType
<1>10. ReadInv(s, past)
  <2>1. PICK i \in r.first..n : MergeOf(r, past, i, n)
    BY <1>1, <1>2, Zenon DEF ReadInv, r
  <2>2. i \in 1..n
    BY <1>2, <1>3, <2>1
  <2>3. MergeOf(s, past, i, n)
    BY <1>2, <1>3, <1>4, <1>5, <1>7, <2>1, <2>2, MergeOfNext, Zenon DEF j, x, L
  <2> QED
    BY <1>5, <1>7, <1>8, <2>1, <2>3 DEF ReadInv, n
<1>11. WalkInv(s, past)
  <2>1. Reached(r) \subseteq Reached(s)
    <3>1. ASSUME NEW id \in Reached(r) PROVE id \in Reached(s)
      <4>1. CASE \E k \in DOMAIN r.items : id = r.items[k].id
        BY <1>7, <4>1, Zenon DEF Reached
      <4>2. CASE id \in r.got \/ \E k \in DOMAIN r.cursor : id = r.cursor[k].id
        <5>1. s.got = r.got /\ s.cursor = r.cursor
          BY <1>5
        <5> QED
          BY <4>2, <5>1 DEF Reached
      <4> QED
        BY <4>1, <4>2, Zenon DEF Reached
    <3> QED
      BY <3>1
  <2>2. FullPage(r) => FullPage(s)
    BY <1>5, <1>7, Zenon DEF FullPage
  <2>3. Beyond(r, past) => Beyond(s, past)
    BY <1>5, <2>1, <2>2, BeyondCarries
  <2> QED
    BY <1>1, <1>2, <1>5, <1>8, <2>3, Zenon DEF WalkInv, Given, r
<1> QED
  BY <1>1, <1>5, <1>8, <1>9, <1>10, <1>11, StepKeepsInv DEF s, r

\* handleRunner and handleGetLabels have looked the runner up.
LEMMA GetRunnerKeepsInv ==
  ASSUME QueryInv, NEW q \in Slot, GetRunner(q)
  PROVE  QueryInv'
<1> DEFINE r  == req[q]
           s  == req'[q]
           n  == Len(past)
           v  == table.runners[r.c.id].value
           pc == IF r.c.kind = "runner" THEN "merge" ELSE "getMeta"
<1>1. r.pc = "getRunner" /\ UNCHANGED <<table, conn, past>>
  BY Zenon DEF GetRunner
<1>2. /\ RequestType(r, past) /\ ReadInv(r, past) /\ WalkInv(r, past)
      /\ past \in Seq(Database) /\ n \in Nat \ {0} /\ table = past[n] /\ table \in Database
      /\ req = [p \in Slot |-> req[p]]
  BY <1>1, RequestInv
<1>3. CASE Finish(q, 404, <<>>) \/ Finish(q, 500, <<>>)
  BY <1>1, <1>3, FinishKeepsInv
<1>4. CASE /\ Live(table.runners, r.c.id)
           /\ req' = [req EXCEPT ![q].pc = pc, ![q].items = <<v>>]
  <2>1. /\ req' = [p \in Slot |-> IF p = q THEN s ELSE req[p]]
        /\ s = [f \in Fields |-> s[f]]
        /\ s.pc = pc /\ s.items = <<v>>
        /\ s.c = r.c /\ s.next = r.next /\ s.lost = r.lost /\ s.cursor = r.cursor
        /\ s.got = r.got /\ s.first = r.first /\ s.last = r.last /\ s.start = r.start
    BY <1>2, <1>4, Zenon DEF RequestType, Fields
  <2>2. /\ r.c \in Request /\ r.c.kind \in {"runner", "labels"} /\ r.next = 1 /\ r.lost = {}
        /\ r.first \in 1..n
    BY <1>1, <1>2, Zenon DEF RequestType
  <2>3. r.cursor = <<>>
    BY <1>1, <1>2, Zenon DEF RequestType
  <2>4. Shown(table, r.c) = <<v>> \/ r.c.kind = "labels"
    BY <2>2, Zenon DEF Shown
  <2>5. v \in Runner
    <3>1. r.c.id \in Ids
      BY <2>2 DEF Request
    <3>2. table.runners \in [Ids -> RowOf(Runner)] /\ table.runners[r.c.id] # NoRow
      BY <1>2, <1>4, Zenon DEF Database, Live
    <3> QED
      BY <3>1, <3>2, Zenon DEF RowOf
  <2> HIDE DEF s, r, v
  <2>6. <<v>> \in Seq(Runner) /\ Len(<<v>>) = 1 /\ DOMAIN <<v>> = {1} /\ <<v>>[1] = v
    BY <2>5
  <2>7. /\ pc = "merge" => r.c.kind = "runner"
        /\ pc = "getMeta" => r.c.kind = "labels"
        /\ pc \in {"merge", "getMeta"}
    BY <2>2
  <2> HIDE DEF pc
  <2>8. RequestType(s, past)
    <3>1. "runner" \in Merging /\ 1 <= 1
      BY DEF Merging
    <3> QED
      BY <1>2, <2>1, <2>2, <2>3, <2>6, <2>7, <3>1, Zenon DEF RequestType
  <2>9. ReadInv(s, past)
    <3>1. ASSUME pc = "merge" PROVE MergeOf(s, past, n, n)
      <4>1. Shown(past[n], s.c) = <<v>> /\ s.items = <<v>> /\ s.lost = {} /\ s.next = 1
        BY <1>2, <2>1, <2>2, <2>4, <2>7, <3>1, Zenon
      <4>2. v = [v EXCEPT !.labels = v.labels]
        BY <2>5, OwnLabels
      <4>3. Live(past[n].runners, s.c.id)
        BY <1>2, <1>4, <2>1, Zenon DEF r
      <4> QED
        BY <2>6, <4>1, <4>2, <4>3 DEF MergeOf
    <3>2. n \in s.first..n
      BY <1>2, <2>1, <2>2
    <3> QED
      BY <2>1, <2>7, <3>1, <3>2 DEF ReadInv, n
  <2>10. WalkInv(s, past)
    BY <2>1, <2>2 DEF WalkInv
  <2> QED
    BY <1>1, <2>1, <2>7, <2>8, <2>9, <2>10, StepKeepsInv DEF s, r
<1> QED
  BY <1>3, <1>4 DEF GetRunner

\* handleGetLabels answers with labels, or with an error.
LEMMA GetMetaKeepsInv ==
  ASSUME QueryInv, NEW q \in Slot, GetMeta(q)
  PROVE  QueryInv'
<1> DEFINE r == req[q]
           L == <<MergeLabels(r.items[1].labels, ExtraLabels(table, r.c.id))>>
<1>1. r.pc = "getMeta" /\ UNCHANGED <<table, conn, past>> /\ (Finish(q, 200, L) \/ Finish(q, 500, <<>>))
  BY DEF GetMeta
<1>2. r.c.kind = "labels"
  BY <1>1, RequestInv, Zenon DEF RequestType
<1> HIDE DEF L
<1> QED
  BY <1>1, <1>2, FinishKeepsInv

\* handleEvents answers with a page of the log of this moment, or with an error.
LEMMA GetEventsKeepsInv ==
  ASSUME QueryInv, NEW q \in Slot, GetEvents(q)
  PROVE  QueryInv'
<1> DEFINE r == req[q]
           s == req'[q]
           n == Len(past)
<1>1. r.pc = "events" /\ UNCHANGED <<table, conn, past>>
  BY DEF GetEvents
<1>2. /\ RequestType(r, past) /\ n \in Nat \ {0} /\ table = past[n]
      /\ r.c.kind = "events" /\ r.first \in 1..n
  BY <1>1, RequestInv, Zenon DEF RequestType
<1>3. CASE Finish(q, 500, <<>>)
  BY <1>1, <1>3, FinishKeepsInv
<1>4. ASSUME NEW page \in EventPages(table.log, EventLimit(r.c.limit), r.c.runner), Finish(q, 200, page)
      PROVE  QueryInv'
  <2>1. /\ req' = [p \in Slot |-> IF p = q THEN s ELSE req[p]]
        /\ s.pc = "done" /\ s.code = 200 /\ s.answer = page /\ s.last = n
        /\ s.c = r.c /\ s.first = r.first
        /\ RequestType(s, past)
    BY <1>1, <1>4, FinishType
  <2> HIDE DEF s, r
  <2>2. n \in s.first..s.last
    BY <1>2, <2>1
  <2>3. s.answer \in EventPages(past[n].log, EventLimit(s.c.limit), s.c.runner)
    BY <1>2, <1>4, <2>1 DEF r
  <2>4. ReadInv(s, past)
    BY <1>2, <2>1, <2>2, <2>3 DEF ReadInv, Merging
  <2>5. WalkInv(s, past)
    BY <1>2, <2>1 DEF WalkInv
  <2> QED
    BY <1>1, <2>1, <2>4, <2>5, StepKeepsInv DEF s, r
<1> QED
  BY <1>3, <1>4 DEF GetEvents

\* The answer of a request that has read everything.
LEMMA AnswerKeepsInv ==
  ASSUME QueryInv, NEW q \in Slot, req[q].pc = "reply", UNCHANGED <<table, conn, past>>,
         req[q].c.kind \in Merging, NEW answer, Finish(q, 200, answer),
         IF req[q].c.kind = "best" THEN answer \in Rankings(Candidates(req[q].items, req[q].c.region, req[q].c.filters))
                                   ELSE answer = req[q].items
  PROVE  QueryInv'
<1> DEFINE r == req[q]
           s == req'[q]
           n == Len(past)
<1>1. RequestType(r, past) /\ ReadInv(r, past) /\ WalkInv(r, past) /\ n \in Nat \ {0}
  BY RequestInv
<1>2. /\ req' = [p \in Slot |-> IF p = q THEN s ELSE req[p]]
      /\ s.pc = "done" /\ s.code = 200 /\ s.answer = answer /\ s.last = n
      /\ s.c = r.c /\ s.cursor = r.cursor /\ s.items = r.items /\ s.next = r.next /\ s.lost = r.lost
      /\ s.got = r.got /\ s.first = r.first /\ s.start = r.start
      /\ RequestType(s, past)
  BY FinishType
<1>3. r.cursor = <<>> /\ r.items \in Seq(Runner)
  BY <1>1, Zenon DEF RequestType
<1>4. r.pc = "reply" /\ r.c.kind \in Merging /\ r.next = Len(r.items) + 1
  BY <1>1, ZenonT(30) DEF ReadInv
<1>5. PICK i \in r.first..n : MergeOf(r, past, i, n)
  BY <1>1, Zenon DEF ReadInv
<1>6. IF r.c.kind = "best" THEN answer \in Rankings(Candidates(r.items, r.c.region, r.c.filters))
                           ELSE answer = r.items
  BY Zenon
<1> HIDE DEF s, r
<1>7. MergeOf(s, past, i, n)
  BY <1>2, <1>5 DEF MergeOf
<1>8. ReadInv(s, past)
  <2>1. s.next = Len(s.items) + 1 /\ i \in s.first..s.last /\ MergeOf(s, past, i, s.last)
    BY <1>2, <1>4, <1>5, <1>7
  <2> QED
    BY <1>2, <1>4, <1>6, <2>1 DEF ReadInv, Merging
<1>9. WalkInv(s, past)
  <2> SUFFICES ASSUME r.c.kind = "runners", r.start <= 0
               PROVE  /\ NoneLeaves(past, r.first, n) => /\ Alive(past[r.first]) \subseteq Alive(past[n])
                                                         /\ Beyond(s, past)
                      /\ Complete(s, past)
    BY <1>2, <1>3 DEF WalkInv, Given, n
  <2>1. NoneLeaves(past, r.first, n) => Alive(past[r.first]) \subseteq Alive(past[n]) /\ Beyond(r, past)
    BY <1>1, <1>4, Zenon DEF WalkInv, n
  <2>2. Reached(s) = Reached(r) /\ (FullPage(s) <=> FullPage(r))
    BY <1>2 DEF Reached, FullPage
  <2>3. Beyond(r, past) => Beyond(s, past)
    BY <1>2, <2>2, BeyondCarries
  <2>4. s.answer = s.items
    BY <1>2, <1>6
  <2>5. Complete(s, past)
    <3> SUFFICES ASSUME NoneLeaves(past, r.first, n), Len(s.items) # PageLimit(s.c.limit),
                        NEW p \in Alive(past[r.first])
                 PROVE  Id[p] \in s.got \cup ReturnedIds(s)
      BY <1>2, <2>4 DEF Complete
    <3>1. ~FullPage(s)
      <4>1. Len(s.cursor) = 0 /\ Len(s.items) \in Nat
        BY <1>2, <1>3
      <4>2. Len(s.items) + Len(s.cursor) = Len(s.items)
        BY <4>1
      <4> QED
        BY <4>2, Zenon DEF FullPage
    <3>2. Id[p] \in Reached(s)
      BY <1>2, <2>1, <2>3, <3>1, ZenonT(30) DEF Beyond
    <3>3. DOMAIN s.cursor = {}
      BY <1>2, <1>3
    <3> QED
      BY <3>2, <3>3, Zenon DEF Reached, ReturnedIds
  <2> QED
    BY <2>1, <2>3, <2>5
<1> QED
  BY <1>2, <1>4, <1>8, <1>9, StepKeepsInv DEF s, r

\* The answers of the list requests.
LEMMA ReplyKeepsInv ==
  ASSUME QueryInv, NEW q \in Slot, Reply(q)
  PROVE  QueryInv'
<1> DEFINE r      == req[q]
           c      == r.c
           chosen == Candidates(r.items, c.region, c.filters)
           totals == <<ClusterTotals(r.items)>>
<1>1. r.pc = "reply" /\ UNCHANGED <<table, conn, past>>
  BY Zenon DEF Reply
<1>2. \/ c.kind = "best" /\ Finish(q, 404, <<>>)
      \/ c.kind = "best" /\ \E ranking \in Rankings(chosen) : Finish(q, 200, ranking)
      \/ c.kind \in {"cluster", "metrics"} /\ Finish(q, 200, totals)
      \/ c.kind \in {"runners", "summary", "runner"} /\ Finish(q, 200, r.items)
  BY Zenon DEF Reply
<1> HIDE DEF chosen, totals
<1>3. CASE c.kind = "best" /\ Finish(q, 404, <<>>)
  BY <1>1, <1>3, FinishKeepsInv
<1>4. CASE c.kind = "best" /\ \E ranking \in Rankings(chosen) : Finish(q, 200, ranking)
  <2>1. PICK ranking \in Rankings(chosen) : Finish(q, 200, ranking)
    BY <1>4
  <2> QED
    BY <1>1, <1>4, <2>1, AnswerKeepsInv, Zenon DEF Merging, chosen
<1>5. CASE c.kind \in {"cluster", "metrics"} /\ Finish(q, 200, totals)
  BY <1>1, <1>5, FinishKeepsInv
<1>6. CASE c.kind \in {"runners", "summary", "runner"} /\ Finish(q, 200, r.items)
  BY <1>1, <1>6, AnswerKeepsInv DEF Merging
<1> QED
  BY <1>2, <1>3, <1>4, <1>5, <1>6

\* The next page of a walk: what is not in the pages read lies ahead.
LEMMA NextPageKeepsInv ==
  ASSUME QueryInv, NEW q \in Slot, NextPage(q)
  PROVE  QueryInv'
<1> DEFINE r     == req[q]
           n     == Len(past)
           limit == r.c.limit
           c     == [r.c EXCEPT !.offset = @ + r.c.limit]
           got   == r.got \cup ReturnedIds(r)
           s     == Arrived(c, got, r.first, r.start)
<1>1. /\ r.pc = "done" /\ r.c.kind = "runners" /\ r.code = 200 /\ Len(r.answer) = PageLimit(limit)
      /\ req' = [req EXCEPT ![q] = s]
      /\ UNCHANGED <<table, conn, past>>
  BY DEF NextPage
<1>2. /\ RequestType(r, past) /\ ReadInv(r, past) /\ WalkInv(r, past)
      /\ past \in Seq(Database) /\ n \in Nat \ {0} /\ req = [p \in Slot |-> req[p]]
  BY <1>1, RequestInv
<1>3. /\ r.c \in Request /\ r.c.offset \in Int /\ limit \in {Absent} \cup Int
      /\ r.items \in Seq(Runner) /\ r.first \in 1..n /\ r.start \in Int
  BY <1>2, Zenon DEF RequestType, Request
<1>4. r.answer = r.items
  BY <1>1, <1>2, Zenon DEF ReadInv, Merging
<1>5. limit \in Int /\ limit > 0 /\ PageLimit(limit) = limit
  <2>1. Len(r.items) \in Nat /\ Len(r.items) = PageLimit(limit)
    BY <1>1, <1>3, <1>4
  <2> HIDE DEF r, limit
  <2>2. limit # Absent /\ limit > 0
    BY <2>1 DEF PageLimit
  <2> QED
    BY <1>3, <2>2 DEF PageLimit
<1>6. c \in Request /\ c.kind = "runners" /\ c.offset = r.c.offset + limit
  <2>1. r.c.offset + limit \in Int
    BY <1>3, <1>5
  <2> HIDE DEF r
  <2> QED
    BY <1>1, <1>3, <2>1, OffsetType
<1>7. req' = [p \in Slot |-> IF p = q THEN req'[q] ELSE req[p]] /\ req'[q] = s
  <2>1. req' = [req EXCEPT ![q] = s] /\ req = [p \in Slot |-> req[p]]
    BY <1>1, <1>2, Zenon
  <2> HIDE DEF s, c, got, limit, r
  <2> QED
    BY <2>1
<1> HIDE DEF c, got, r
<1>8. /\ RequestType(s, past) /\ ReadInv(s, past)
      /\ s.pc = "list" /\ ~Given(s) /\ s.c = c /\ s.got = got /\ s.first = r.first /\ s.start = r.start
  <2>1. c.kind \in Listing
    BY <1>6 DEF Listing
  <2> QED
    BY <1>2, <1>3, <1>6, <2>1, ArrivedType
<1> HIDE DEF s
<1>9. WalkInv(s, past)
  <2> SUFFICES ASSUME r.start <= 0, NoneLeaves(past, r.first, n)
               PROVE  Alive(past[r.first]) \subseteq Alive(past[n]) /\ Ahead(s, past)
    BY <1>8, Zenon DEF WalkInv, n
  <2>1. Given(r)
    BY <1>1 DEF Given, r
  <2>2. Alive(past[r.first]) \subseteq Alive(past[n]) /\ Beyond(r, past) /\ r.cursor = <<>>
    BY <1>1, <1>2, <2>1, Zenon DEF WalkInv, n, r
  <2>3. ASSUME NEW p \in Alive(past[r.first])
        PROVE  Id[p] \in s.got \/ Rank(Alive(past[n]), p) > PageOffset(s.c.offset)
    <3> DEFINE m == Rank(Alive(past[n]), p)
    <3>1. \/ Id[p] \in Reached(r)
          \/ m > PageOffset(r.c.offset) + PageLimit(limit)
      BY <2>2 DEF Beyond, n
    <3>2. CASE Id[p] \in Reached(r)
      <4>1. DOMAIN r.cursor = {}
        BY <2>2
      <4> QED
        BY <1>8, <3>2, <4>1 DEF Reached, ReturnedIds, got
    <3>3. CASE m > PageOffset(r.c.offset) + PageLimit(limit)
      <4>1. m \in Nat
        <5>1. past[n] \in Database /\ p \in Alive(past[n])
          BY <1>2, <2>2
        <5> QED
          BY <5>1, ListRunnersType, RankType
      <4>2. s.c.offset = r.c.offset + limit
        BY <1>6, <1>8
      <4> HIDE DEF m, limit
      <4>3. m > PageOffset(s.c.offset)
        BY <1>3, <1>5, <3>3, <4>1, <4>2 DEF PageOffset
      <4> QED
        BY <4>3 DEF m
    <3> QED
      BY <3>1, <3>2, <3>3
  <2> QED
    BY <1>8, <2>2, <2>3, Zenon DEF Ahead, n
<1> QED
  BY <1>1, <1>7, <1>8, <1>9, StepKeepsInv, Zenon DEF s, r

-----------------------------------------------------------------------------
(* The invariant, and what follows from it. *)

\* Every step of a request or a writer keeps the invariant.
LEMMA NextKeepsInv ==
  ASSUME QueryInv, [Next]_vars
  PROVE  QueryInv'
<1>1. CASE Write
  BY <1>1, WriteKeepsInv
<1>2. ASSUME NEW q \in Slot, Arrive(q) PROVE QueryInv'
  BY <1>2, ArriveKeepsInv
<1>3. ASSUME NEW q \in Slot, StoreStep(q) PROVE QueryInv'
  BY <1>3, OpenListKeepsInv, MergeOneKeepsInv, GetRunnerKeepsInv, GetMetaKeepsInv, GetEventsKeepsInv
     DEF StoreStep
<1>4. ASSUME NEW q \in Slot, LocalStep(q) PROVE QueryInv'
  BY <1>4, ScanRowKeepsInv, CloseListKeepsInv, ReplyKeepsInv DEF LocalStep
<1>5. ASSUME NEW q \in Slot, ScanFails(q) PROVE QueryInv'
  BY <1>5, ScanFailsKeepsInv
<1>6. ASSUME NEW q \in Slot, NextPage(q) PROVE QueryInv'
  BY <1>6, NextPageKeepsInv
<1>7. CASE UNCHANGED vars
  BY <1>7 DEF vars, QueryInv, StateType, ConnectionHeldByOpenList
<1> QED
  BY <1>1, <1>2, <1>3, <1>4, <1>5, <1>6, <1>7 DEF Next

\* The invariant holds when the daemon opens its database.
LEMMA InitInv ==
  ASSUME Init
  PROVE  QueryInv
<1>1. table \in Database /\ past = <<table>> /\ table \in DOMAIN Workload
  BY QueryApiAssumption DEF Init
<1>2. past \in Seq(Database) /\ past # <<>> /\ past[1] = table /\ Len(past) = 1
  BY <1>1
<1>3. \A q \in Slot : req[q].pc = "idle"
  BY DEF Init, Idle
<1>4. req = [q \in Slot |-> req[q]]
  BY DEF Init
<1>5. ConnectionHeldByOpenList
  BY <1>3, QueryApiAssumption DEF ConnectionHeldByOpenList, Init
<1> QED
  BY <1>1, <1>2, <1>3, <1>4, <1>5 DEF QueryInv, StateType

\* The inductive invariant of the read requests.
LEMMA QueryInvHolds == Spec => []QueryInv
<1>1. Init => QueryInv
  BY InitInv
<1>2. QueryInv /\ [Next]_vars => QueryInv'
  BY NextKeepsInv
<1> QED
  BY <1>1, <1>2, PTL DEF Spec

\* Spec keeps the connection with the request whose list is open, and with
\* nobody else, on every path through List (store.go).
THEOREM ConnectionReturned == Spec => []ConnectionHeldByOpenList
<1>1. QueryInv => ConnectionHeldByOpenList
  BY DEF QueryInv
<1> QED
  BY <1>1, QueryInvHolds, PTL

\* What a request that was answered has read.
LEMMA AnsweredInv ==
  ASSUME QueryInv, NEW q \in Slot, NEW kinds, Answered(q, kinds)
  PROVE  /\ RequestType(req[q], past) /\ ReadInv(req[q], past) /\ WalkInv(req[q], past)
         /\ past \in Seq(Database) /\ Len(past) \in Nat
         /\ req[q].pc = "done" /\ req[q].code = 200 /\ req[q].c.kind \in kinds /\ Given(req[q])
         /\ req[q].c \in Request /\ req[q].items \in Seq(Runner)
         /\ req[q].first \in 1..Len(past) /\ req[q].last \in req[q].first..Len(past)
<1>1. req[q].pc = "done" /\ req[q].code = 200 /\ req[q].c.kind \in kinds
  BY DEF Answered
<1>2. /\ RequestType(req[q], past) /\ ReadInv(req[q], past) /\ WalkInv(req[q], past)
      /\ past \in Seq(Database) /\ Len(past) \in Nat
  BY <1>1, RequestInv
<1>3. /\ req[q].c \in Request /\ req[q].items \in Seq(Runner)
      /\ req[q].first \in 1..Len(past) /\ req[q].last \in req[q].first..Len(past)
  BY <1>2, Zenon DEF RequestType
<1> QED
  BY <1>1, <1>2, <1>3, Zenon DEF Given

\* Every answer that lists runners is put together from rows of one moment of
\* the request and labels of moments not before it (listRunners,
\* mergeMetaLabels, handleRunner).
THEOREM AnswersComeFromTheStore == Spec => []AnswersAreReal
<1>1. QueryInv => AnswersAreReal
  <2> SUFFICES ASSUME QueryInv PROVE AnswersAreReal
    OBVIOUS
  <2> DEFINE Shows(r, i, rows) ==
               /\ r.c.kind = "runner" => Live(past[i].runners, r.c.id)
               /\ DOMAIN rows = DOMAIN r.answer
               /\ \A k \in DOMAIN rows :
                    /\ [r.answer[k] EXCEPT !.labels = rows[k].labels] = rows[k]
                    /\ IF rows[k].id \in r.lost THEN r.answer[k].labels = rows[k].labels
                       ELSE \E j \in i..r.last : \A key \in LabelKey : r.answer[k].labels[key] =
                              IF Live(past[j].meta, rows[k].id) /\ past[j].meta[rows[k].id].value[key] # Absent
                              THEN past[j].meta[rows[k].id].value[key] ELSE rows[k].labels[key]
  <2> SUFFICES ASSUME NEW q \in Slot, Answered(q, {"runners", "summary", "runner"})
               PROVE  \E i \in req[q].first..req[q].last : Shows(req[q], i, Shown(past[i], req[q].c))
    BY Zenon DEF AnswersAreReal, Shown
  <2> HIDE DEF Shows
  <2> DEFINE r == req[q]
             n == Len(past)
  <2>1. /\ ReadInv(r, past) /\ past \in Seq(Database) /\ n \in Nat
        /\ r.pc = "done" /\ r.code = 200 /\ r.c.kind \in {"runners", "summary", "runner"}
        /\ r.c \in Request /\ r.items \in Seq(Runner) /\ r.first \in 1..n /\ r.last \in r.first..n
    BY AnsweredInv
  <2>2. r.next = Len(r.items) + 1 /\ r.answer = r.items
    BY <2>1, Zenon DEF ReadInv, Merging
  <2>3. PICK i \in r.first..r.last : MergeOf(r, past, i, r.last)
    BY <2>1, Zenon DEF ReadInv, Merging
  <2> DEFINE rows == Shown(past[i], r.c)
  <2>4. /\ r.c.kind = "runner" => Live(past[i].runners, r.c.id)
        /\ DOMAIN r.items = DOMAIN rows
        /\ \A k \in DOMAIN rows :
             /\ r.items[k] = [rows[k] EXCEPT !.labels = r.items[k].labels]
             /\ rows[k].id \in r.lost => r.items[k].labels = rows[k].labels
             /\ k < r.next /\ rows[k].id \notin r.lost =>
                  \E j \in i..r.last : r.items[k].labels = MergeLabels(rows[k].labels, ExtraLabels(past[j], rows[k].id))
    BY <2>3, Zenon DEF MergeOf
  <2>5. past[i] \in Database
    BY <2>1, <2>3
  <2>6. rows \in Seq(Runner)
    BY <2>1, <2>4, <2>5, ShownType, Zenon
  <2>7. \A k \in DOMAIN rows : k < r.next /\ rows[k] \in Runner
    <3>1. \A k \in DOMAIN r.items : k < Len(r.items) + 1
      BY <2>1
    <3>2. \A k \in DOMAIN rows : rows[k] \in Runner
      BY <2>6
    <3> QED
      BY <2>2, <2>4, <3>1, <3>2, Zenon
  <2> HIDE DEF rows, r
  <2>8. ASSUME NEW k \in DOMAIN rows
        PROVE  /\ [r.answer[k] EXCEPT !.labels = rows[k].labels] = rows[k]
               /\ IF rows[k].id \in r.lost THEN r.answer[k].labels = rows[k].labels
                  ELSE \E j \in i..r.last : \A key \in LabelKey : r.answer[k].labels[key] =
                         IF Live(past[j].meta, rows[k].id) /\ past[j].meta[rows[k].id].value[key] # Absent
                         THEN past[j].meta[rows[k].id].value[key] ELSE rows[k].labels[key]
    <3>1. [r.answer[k] EXCEPT !.labels = rows[k].labels] = rows[k]
      <4>1. rows[k] \in Runner /\ r.answer[k] = [rows[k] EXCEPT !.labels = r.items[k].labels]
        BY <2>2, <2>4, <2>7
      <4> QED
        BY <4>1, LabelsBack, Zenon
    <3>2. CASE rows[k].id \in r.lost
      BY <2>2, <2>4, <3>1, <3>2, ZenonT(30)
    <3>3. CASE rows[k].id \notin r.lost
      <4>1. PICK j \in i..r.last : r.answer[k].labels = MergeLabels(rows[k].labels, ExtraLabels(past[j], rows[k].id))
        BY <2>2, <2>4, <2>7, <3>3, ZenonT(30)
      <4>2. \A key \in LabelKey : r.answer[k].labels[key] =
              IF Live(past[j].meta, rows[k].id) /\ past[j].meta[rows[k].id].value[key] # Absent
              THEN past[j].meta[rows[k].id].value[key] ELSE rows[k].labels[key]
        BY <4>1, MergedLabel
      <4> QED
        BY <3>1, <3>3, <4>2, Zenon
    <3> QED
      BY <3>2, <3>3, Zenon
  <2>9. Shows(r, i, rows)
    BY <2>2, <2>4, <2>8, Zenon DEF Shows
  <2> QED
    BY <2>3, <2>9 DEF r, rows
<1> QED
  BY <1>1, QueryInvHolds, PTL

\* A placement names runners that could take work at a moment of the request,
\* prefers the region, and lets jitter reorder near-equals only
\* (handleBestRunner, scoreRunner).
THEOREM PlacementsAreSound == Spec => []PlacementIsSound
<1>1. QueryInv => PlacementIsSound
  <2> SUFFICES ASSUME QueryInv, NEW q \in Slot, Answered(q, {"best"})
               PROVE  Sound(req[q])
    BY DEF PlacementIsSound
  <2> DEFINE r == req[q]
             n == Len(past)
             ans == r.answer
             cand == Candidates(r.items, r.c.region, r.c.filters)
  <2>1. /\ ReadInv(r, past) /\ past \in Seq(Database) /\ n \in Nat
        /\ r.pc = "done" /\ r.code = 200 /\ r.c.kind = "best"
        /\ r.c \in Request /\ r.items \in Seq(Runner) /\ r.first \in 1..n /\ r.last \in r.first..n
    BY AnsweredInv
  <2>2. ans \in Rankings(cand)
    BY <2>1, Zenon DEF ReadInv, Merging
  <2>3. PICK i \in r.first..r.last : MergeOf(r, past, i, r.last)
    BY <2>1, Zenon DEF ReadInv, Merging
  <2>4. \A l \in DOMAIN r.items : r.items[l] \in Runner
    BY <2>1
  <2> HIDE DEF r, n
  <2>5. /\ cand.runners \in Seq(Runner) /\ cand.penalty \in Int
        /\ \A k \in DOMAIN cand.runners : \E l \in DOMAIN r.items : cand.runners[k] = r.items[l] /\ Eligible(r.items[l], r.c.filters)
        /\ (\E k \in DOMAIN cand.runners : ~InRegion(cand.runners[k], r.c.region)) =>
             \A l \in DOMAIN r.items : Eligible(r.items[l], r.c.filters) => ~InRegion(r.items[l], r.c.region)
    <3>1. WellChosen(cand, r.items, r.c.region, r.c.filters)
      BY <2>1, CandidatesAreEligible
    <3> HIDE DEF cand
    <3> QED
      BY <3>1 DEF WellChosen
  <2> HIDE DEF cand, ans
  <2>6. /\ \A k \in DOMAIN ans : \E l \in DOMAIN cand.runners : ans[k].runner = cand.runners[l]
        /\ \A k, l \in DOMAIN ans : k < l => BaseScore(ans[l].runner) - BaseScore(ans[k].runner) < 10000
    BY <2>2, <2>5, RankingsKeepDistance
  <2>7. \A l \in DOMAIN r.items : Eligible(r.items[l], r.c.filters) <=> Fits(r.items[l], r.c)
    BY <2>1, <2>4, EligibleMeans
  <2>8. \A l \in DOMAIN r.items : Live(past[i].runners, r.items[l].id)
    <3> DEFINE rows == Shown(past[i], r.c)
    <3>1. /\ DOMAIN r.items = DOMAIN rows
          /\ \A l \in DOMAIN rows : r.items[l] = [rows[l] EXCEPT !.labels = r.items[l].labels]
      BY <2>3, Zenon DEF MergeOf
    <3>2. past[i] \in Database
      BY <2>1, <2>3 DEF n
    <3>3. rows \in Seq(Runner) /\ \A l \in DOMAIN rows : Live(past[i].runners, rows[l].id)
      BY <2>1, <3>2, ShownType
    <3> HIDE DEF rows
    <3>4. \A l \in DOMAIN rows : rows[l] \in Runner
      BY <3>3
    <3>5. \A l \in DOMAIN rows : r.items[l].id = rows[l].id
      <4> TAKE l \in DOMAIN rows
      <4>1. rows[l] \in Runner /\ r.items[l] = [rows[l] EXCEPT !.labels = r.items[l].labels]
        BY <3>1, <3>4
      <4> QED
        BY <4>1, LabelsBack
    <3> QED
      BY <3>1, <3>3, <3>5
  <2>9. \A k \in DOMAIN ans : Fits(ans[k].runner, r.c) /\ Live(past[i].runners, ans[k].runner.id)
    BY <2>5, <2>6, <2>7, <2>8
  <2>10. (\E k \in DOMAIN ans : ~InRegion(ans[k].runner, r.c.region)) =>
           \A l \in DOMAIN r.items : Fits(r.items[l], r.c) => ~InRegion(r.items[l], r.c.region)
    BY <2>5, <2>6, <2>7
  <2> DEFINE chosen == {r.answer[k].runner : k \in DOMAIN r.answer}
  <2>11. \A x \in chosen : \E k \in DOMAIN ans : x = ans[k].runner
    BY DEF ans
  <2> HIDE DEF chosen
  <2>12. \A x \in chosen : Fits(x, r.c) /\ \E j \in r.first..r.last : Live(past[j].runners, x.id)
    <3> TAKE x \in chosen
    <3>1. PICK k \in DOMAIN ans : x = ans[k].runner
      BY <2>11
    <3> QED
      BY <2>3, <2>9, <3>1
  <2>13. (\E x \in chosen : ~InRegion(x, r.c.region)) =>
           \A l \in DOMAIN r.items : Fits(r.items[l], r.c) => ~InRegion(r.items[l], r.c.region)
    BY <2>10, <2>11, ZenonT(30)
  <2>14. Sound(r)
    BY <2>6, <2>12, <2>13 DEF Sound, chosen, ans
  <2> QED
    BY <2>14 DEF r
<1> QED
  BY <1>1, QueryInvHolds, PTL

\* A walk through the pages from the start of the list misses no runner, as
\* long as none disappears (List: ORDER BY key with LIMIT and OFFSET).
THEOREM WalksMissNothing == Spec => []WalkMissesNothing
<1>1. QueryInv => WalkMissesNothing
  <2> DEFINE There(i) == {id \in Ids : Live(past[i].runners, id)}
  <2> SUFFICES ASSUME QueryInv, NEW q \in Slot, Answered(q, {"runners"}), req[q].start <= 0,
                      Len(req[q].answer) # PageLimit(req[q].c.limit),
                      \A i \in req[q].first..req[q].last : i < req[q].last => There(i) \subseteq There(i + 1),
                      NEW id \in There(req[q].first)
               PROVE  id \in req[q].got \cup ReturnedIds(req[q])
    BY Zenon DEF WalkMissesNothing
  <2> DEFINE r == req[q]
  <2>1. /\ WalkInv(r, past) /\ Given(r) /\ r.c.kind = "runners"
        /\ r.first \in 1..Len(past) /\ r.last \in r.first..Len(past)
    BY AnsweredInv
  <2>2. Complete(r, past)
    BY <2>1, Zenon DEF WalkInv
  <2>3. \A i \in r.first..r.last : i < r.last => There(i) \subseteq There(i + 1)
    BY Zenon
  <2>4. NoneLeaves(past, r.first, r.last)
    <3>1. ASSUME NEW i \in r.first..r.last, i < r.last, NEW p \in Alive(past[i])
          PROVE  p \in Alive(past[i + 1])
      <4>1. p \in DOMAIN Id /\ Id[p] \in There(i)
        BY Zenon DEF Alive, Ids
      <4>2. Id[p] \in There(i + 1)
        BY <2>3, <3>1, <4>1, Zenon
      <4> QED
        BY <4>1, <4>2, Zenon DEF Alive
    <3> QED
      BY <3>1, Zenon DEF NoneLeaves
  <2>5. PICK p \in DOMAIN Id : id = Id[p]
    BY Zenon DEF Ids
  <2>6. p \in Alive(past[r.first])
    BY <2>5, Zenon DEF Alive
  <2> QED
    BY <2>2, <2>4, <2>5, <2>6, Zenon DEF Complete
<1> QED
  BY <1>1, QueryInvHolds, PTL

\* A page of the log is the newest part of it at a moment of the request,
\* oldest first (Store.Events, handleEvents).
THEOREM EventPagesComeFromTheLog == Spec => []EventPageIsNewest
<1>1. QueryInv => EventPageIsNewest
  <2> DEFINE Newest(r, i, page) ==
               LET mine == {e \in past[i].log : r.c.runner \in {Absent, e.runner}}
               IN /\ page \subseteq mine
                  /\ \A e \in mine \ page, f \in page : f.hlc >= e.hlc
                  /\ r.c.runner = Absent /\ page # mine =>
                       /\ page # {}
                       /\ Cardinality(page) >= IF r.c.limit = Absent THEN 100 ELSE Min({1000, r.c.limit})
  <2> SUFFICES ASSUME QueryInv, NEW q \in Slot, Answered(q, {"events"})
               PROVE  LET r    == req[q]
                          page == {r.answer[i] : i \in DOMAIN r.answer}
                      IN /\ \A i, k \in DOMAIN r.answer : i < k => r.answer[i].hlc <= r.answer[k].hlc
                         /\ \E i \in r.first..r.last : Newest(r, i, page)
    BY Zenon DEF EventPageIsNewest
  <2> DEFINE r     == req[q]
             a     == r.answer
             page  == {a[i] : i \in DOMAIN a}
             limit == EventLimit(r.c.limit)
  <2>1. /\ ReadInv(r, past) /\ past \in Seq(Database) /\ Len(past) \in Nat
        /\ r.pc = "done" /\ r.code = 200 /\ r.c.kind = "events"
        /\ r.c \in Request /\ r.first \in 1..Len(past) /\ r.last \in r.first..Len(past)
    <3> HIDE DEF Newest
    <3>1. r.c.kind \in {"events"}
      BY DEF Answered
    <3> QED
      BY <3>1, AnsweredInv
  <2>2. PICK i \in r.first..r.last : a \in EventPages(past[i].log, limit, r.c.runner)
    BY <2>1, Zenon DEF ReadInv
  <2>3. past[i].log \in SUBSET Entry /\ IsFiniteSet(past[i].log)
    <3>1. past[i] \in Database
      BY <2>1, <2>2
    <3> QED
      BY <3>1 DEF Database
  <2>4. r.c.limit \in {Absent} \cup Int
    BY <2>1, Zenon DEF Request
  <2>5. /\ limit \in Nat \ {0}
        /\ limit >= IF r.c.limit = Absent THEN 100 ELSE Min({1000, r.c.limit})
    BY <2>4, EventLimitType
  <2> DEFINE mine == {e \in past[i].log : r.c.runner \in {Absent, e.runner}}
  <2> HIDE DEF limit, r
  <2>6. /\ \A j, k \in DOMAIN a : j < k => a[j].hlc <= a[k].hlc
        /\ page \subseteq mine
        /\ \A e \in mine \ page, f \in page : f.hlc >= e.hlc
        /\ r.c.runner = Absent /\ page # mine => Cardinality(page) = limit
    <3>1. NewestPart(a, past[i].log, limit, r.c.runner)
      BY <2>2, <2>3, <2>5, EventPagesAreNewest
    <3> QED
      BY <3>1, Zenon DEF NewestPart
  <2> HIDE DEF page, mine
  <2>7. Cardinality(page) = limit => page # {}
    BY <2>5, FS_EmptySet
  <2>8. Newest(r, i, page)
    BY <2>5, <2>6, <2>7 DEF mine
  <2> HIDE DEF Newest
  <2> QED
    BY <2>2, <2>6, <2>8, ZenonT(30) DEF r, page
<1> QED
  BY <1>1, QueryInvHolds, PTL
=============================================================================
