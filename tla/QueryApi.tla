------------------------------ MODULE QueryApi ------------------------------
(***************************************************************************)
(* The read requests of one takld (internal/api/api.go) while its agent,   *)
(* its pulls and its label requests go on writing.  All of them share the  *)
(* one connection of the store's pool (SetMaxOpenConns(1)): List keeps it  *)
(* while it calls back for every row, the other calls take and return it   *)
(* in one step.  A request that needs labels looks them up one runner at a *)
(* time after the list is closed, so writes fall between the parts of one  *)
(* answer.                                                                 *)
(***************************************************************************)
EXTENDS Placement

CONSTANTS
  Slot,         \* requests served, each with a goroutine of its own
  Id,           \* the runner ids, a sequence in key order
  Workload,     \* what may happen to a daemon, by the database it opens
  NoRow,        \* what a lookup of a missing key returns
  Free          \* nobody has the connection

VARIABLES
  table,    \* the store: rows of both kinds and the event log
  conn,     \* who has the connection
  req,      \* the requests
  past      \* history: every content the store has had

vars == <<table, conn, req, past>>

Ids        == {Id[i] : i \in DOMAIN Id}
Row(v)     == [tomb |-> FALSE, value |-> v]
Live(t, id) == t[id] # NoRow /\ ~t[id].tomb
Bury(t, id) == [t EXCEPT ![id].tomb = TRUE]

\* The list kinds read all runners or a page; "summary" and "best" like
\* "runners" go on to the labels, "cluster" and "metrics" do not.
Listing == {"runners", "summary", "best", "cluster", "metrics"}
Merging == {"runners", "summary", "best", "runner"}

FirstStep(kind) == CASE kind \in Listing            -> "list"
                     [] kind \in {"runner", "labels"} -> "getRunner"
                     [] kind = "events"             -> "events"

\* A request that has just arrived; got, first and start serve a client that
\* walks through the pages of the list.
Arrived(c, got, first, start) ==
  [pc |-> FirstStep(c.kind), c |-> c, cursor |-> <<>>, items |-> <<>>, next |-> 1, lost |-> {},
   code |-> 0, answer |-> <<>>, got |-> got, first |-> first, last |-> first,
   start |-> start]

Idle == [pc |-> "idle"]

\* The workload: asked[q], the requests clients may send to slot q; runners[id]
\* and labels[id], contents the rows of id may be given; events, what may be
\* logged; writes, a bound on writes to the store.
Load == Workload[past[1]]

\* What requests and rows look like: the query parameters, model.Runner with
\* the fields read here, the label map, model.Event.  Counts and sizes are
\* Go ints, of any sign.
Request   == [kind : Listing \cup {"runner", "labels", "events"}, id : Ids, limit : {Absent} \cup Int,
              offset : Int, region : STRING,
              filters : SUBSET {f \in Seq(LabelKey \cup STRING) : Len(f) = 2 => f[1] \in LabelKey},
              runner : {Absent} \cup STRING]
LabelMap  == [LabelKey -> {Absent} \cup STRING]
Runner    == [id : Ids, status : STRING, region : STRING, workers : Int, capacity : Int,
              cpu : Int, mem : Int, disk : Int, labels : LabelMap]
Entry     == [runner : STRING, seq : Int, hlc : Int]
RowOf(S)  == [tomb : BOOLEAN, value : S] \cup {NoRow}

\* A database holds every runner under its own key.
Database ==
  {t \in [runners : [Ids -> RowOf(Runner)], meta : [Ids -> RowOf(LabelMap)], log : SUBSET Entry] :
     /\ \A id \in Ids : t.runners[id] # NoRow => t.runners[id].value.id = id
     /\ IsFiniteSet(t.log)}

ASSUME QueryApiAssumption ==
  /\ Free \notin Slot /\ Absent \notin LabelKey \cup STRING
  /\ Id \in Seq(Ids) /\ IsInjective(Id)
  /\ \A t \in DOMAIN Workload :
       LET w == Workload[t] IN
       /\ t \in Database
       /\ w.asked \in [Slot -> SUBSET Request]
       /\ \A id \in Ids : /\ \A v \in w.runners[id] : v \in Runner /\ v.id = id
                          /\ w.labels[id] \subseteq LabelMap
       /\ w.events \subseteq Entry

Init ==
  /\ table \in DOMAIN Workload
  /\ conn = Free
  /\ req = [q \in Slot |-> Idle]
  /\ past = <<table>>

-----------------------------------------------------------------------------
(* The rest of the daemon: Put, Delete, DeleteByNode, ApplyRemote and        *)
(* AppendEvent, each one use of the connection.                              *)

Change(new) ==
  /\ conn = Free /\ Len(past) <= Load.writes
  /\ table' = new
  /\ past' = Append(past, new)
  /\ UNCHANGED <<conn, req>>

PutRunner(id) == \E v \in Load.runners[id] : Change([table EXCEPT !.runners[id] = Row(v)])
DropRunner(id) == Live(table.runners, id) /\ Change([table EXCEPT !.runners = Bury(@, id)])
PutMeta(id)   == \E v \in Load.labels[id] : Change([table EXCEPT !.meta[id] = Row(v)])
DropMeta(id)  == Live(table.meta, id) /\ Change([table EXCEPT !.meta = Bury(@, id)])
LogEvent      == \E e \in Load.events \ table.log : Change([table EXCEPT !.log = @ \cup {e}])

Write == LogEvent \/ \E id \in Ids : PutRunner(id) \/ DropRunner(id) \/ PutMeta(id) \/ DropMeta(id)

-----------------------------------------------------------------------------
(* Requests. *)

Arrive(q) ==
  \E c \in Load.asked[q] :
    /\ req[q].pc = "idle"
    /\ req' = [req EXCEPT ![q] = Arrived(c, {}, Len(past), c.offset)]
    /\ UNCHANGED <<table, conn, past>>

Finish(q, code, answer) ==
  req' = [req EXCEPT ![q] = [@ EXCEPT !.pc = "done", !.code = code, !.answer = answer,
                                      !.last = Len(past)]]

\* A list that fails is a 500, but handleMetrics has sent its counters by then.
ListFailed(q) == Finish(q, IF req[q].c.kind = "metrics" THEN 200 ELSE 500, <<>>)

\* List's query: the live runners in key order, paged.
ListRunners(t) ==
  LET live == Among(Id, {i \in DOMAIN Id : Live(t.runners, Id[i])})
  IN [i \in DOMAIN live |-> t.runners[live[i]].value]

Rows(t, c) == IF c.kind = "runners"
              THEN Page(ListRunners(t), PageLimit(c.limit), PageOffset(c.offset))
              ELSE ListRunners(t)

OpenList(q) ==
  /\ req[q].pc = "list" /\ conn = Free
  /\ \/ /\ conn' = q
        /\ req' = [req EXCEPT ![q].pc = "scan", ![q].cursor = Rows(table, req[q].c)]
     \/ ListFailed(q) /\ UNCHANGED conn
  /\ UNCHANGED <<table, past>>

ScanRow_ReadsStore(q) ==
  /\ req[q].pc = "scan" /\ req[q].cursor # <<>>
  /\ conn = Free
  /\ req' = [req EXCEPT ![q].cursor = Tail(@), ![q].items = Append(@, Head(req[q].cursor))]
  /\ UNCHANGED <<table, conn, past>>

\* The callback of listRunners.
ScanRow(q) ==
  /\ req[q].pc = "scan" /\ req[q].cursor # <<>>
  /\ req' = [req EXCEPT ![q].cursor = Tail(@), ![q].items = Append(@, Head(req[q].cursor))]
  /\ UNCHANGED <<table, conn, past>>

\* rows.Close, at the end of the list or after a row that could not be read.
CloseList(q) ==
  LET r == req[q] IN
  /\ r.pc = "scan" /\ r.cursor = <<>>
  /\ conn' = Free
  /\ req' = [req EXCEPT ![q].pc = IF r.c.kind \in Merging /\ r.items # <<>> THEN "merge" ELSE "reply"]
  /\ UNCHANGED <<table, past>>

ScanFails_NoClose(q) ==
  /\ req[q].pc = "scan"
  /\ ListFailed(q)
  /\ UNCHANGED <<table, conn, past>>

ScanFails(q) ==
  /\ req[q].pc = "scan"
  /\ conn' = Free
  /\ ListFailed(q)
  /\ UNCHANGED <<table, past>>

ExtraLabels_Tombstoned(t, id) == IF t.meta[id] # NoRow THEN t.meta[id].value ELSE NoLabels

\* The labels the API has set on a runner.
ExtraLabels(t, id) == IF Live(t.meta, id) THEN t.meta[id].value ELSE NoLabels

\* mergeMetaLabelsOne: a failed Get leaves the runner without them.
MergeOne(q) ==
  LET r    == req[q]
      item == r.items[r.next]
      pc   == IF r.next = Len(r.items) THEN "reply" ELSE "merge"
  IN /\ r.pc = "merge" /\ conn = Free
     /\ \/ req' = [req EXCEPT ![q].pc = pc, ![q].next = @ + 1,
              ![q].items[r.next].labels = MergeLabels(@, ExtraLabels(table, item.id))]
        \/ req' = [req EXCEPT ![q].pc = pc, ![q].next = @ + 1, ![q].lost = @ \cup {item.id}]
     /\ UNCHANGED <<table, conn, past>>

\* handleRunner and handleGetLabels: the runner first.
GetRunner(q) ==
  LET c == req[q].c IN
  /\ req[q].pc = "getRunner" /\ conn = Free
  /\ \/ /\ Live(table.runners, c.id)
        /\ req' = [req EXCEPT ![q].pc = IF c.kind = "runner" THEN "merge" ELSE "getMeta",
                              ![q].items = <<table.runners[c.id].value>>]
     \/ ~Live(table.runners, c.id) /\ Finish(q, 404, <<>>)
     \/ Finish(q, 500, <<>>)
  /\ UNCHANGED <<table, conn, past>>

\* handleGetLabels: then its labels; here a failed Get is an error.
GetMeta(q) ==
  LET r == req[q] IN
  /\ r.pc = "getMeta" /\ conn = Free
  /\ \/ Finish(q, 200, <<MergeLabels(r.items[1].labels, ExtraLabels(table, r.c.id))>>)
     \/ Finish(q, 500, <<>>)
  /\ UNCHANGED <<table, conn, past>>

GetEvents(q) ==
  LET c == req[q].c IN
  /\ req[q].pc = "events" /\ conn = Free
  /\ \/ \E page \in EventPages(table.log, EventLimit(c.limit), c.runner) : Finish(q, 200, page)
     \/ Finish(q, 500, <<>>)
  /\ UNCHANGED <<table, conn, past>>

\* The answer, once everything has been read.
Reply(q) ==
  LET r == req[q]
      c == r.c
  IN /\ r.pc = "reply"
     /\ \/ /\ c.kind = "best"
           /\ \E chosen \in {Candidates(r.items, c.region, c.filters)} :
                \/ chosen.runners = <<>> /\ Finish(q, 404, <<>>)
                \/ chosen.runners # <<>> /\ \E ranking \in Rankings(chosen) : Finish(q, 200, ranking)
        \/ c.kind \in {"cluster", "metrics"} /\ Finish(q, 200, <<ClusterTotals(r.items)>>)
        \/ c.kind \in {"runners", "summary", "runner"} /\ Finish(q, 200, r.items)
     /\ UNCHANGED <<table, conn, past>>

\* A client that walks through the list asks for the next page until one is
\* shorter than its limit.
ReturnedIds(r) == {r.items[i].id : i \in DOMAIN r.items}

NextPage(q) ==
  LET r == req[q] IN
  /\ r.pc = "done" /\ r.c.kind = "runners" /\ r.code = 200
  /\ Len(r.answer) = PageLimit(r.c.limit)
  /\ req' = [req EXCEPT ![q] = Arrived([r.c EXCEPT !.offset = @ + r.c.limit],
                                       r.got \cup ReturnedIds(r), r.first, r.start)]
  /\ UNCHANGED <<table, conn, past>>

StoreStep(q) == OpenList(q) \/ MergeOne(q) \/ GetRunner(q) \/ GetMeta(q) \/ GetEvents(q)
LocalStep(q) == ScanRow(q) \/ CloseList(q) \/ Reply(q)

Next == Write \/ \E q \in Slot : Arrive(q) \/ StoreStep(q) \/ LocalStep(q) \/ ScanFails(q) \/ NextPage(q)

Spec == Init /\ [][Next]_vars

\* A goroutine that needs nothing goes on; one that waits for the connection
\* gets it if it becomes free again and again (database/sql hands it on).
Fairness == \A q \in Slot : WF_vars(LocalStep(q)) /\ SF_vars(StoreStep(q))

FairSpec == Spec /\ Fairness

-----------------------------------------------------------------------------
(* Properties. *)

Answered(q, kinds) == req[q].pc = "done" /\ req[q].c.kind \in kinds /\ req[q].code = 200

\* The connection is taken exactly while some request has its list open: no
\* error path keeps it and no request works without it (List's deferred
\* rows.Close).
ConnectionHeldByOpenList ==
  /\ conn \in Slot \cup {Free}
  /\ \A q \in Slot : conn = q <=> req[q].pc = "scan"

\* What runners a list answer shows is what the store held at one moment of
\* the request, and the labels it shows for a runner are those of one moment
\* not before that one; a runner may only lack them if their lookup failed
\* (listRunners, mergeMetaLabels; handleRunner).
AnswersAreReal ==
  \A q \in Slot : Answered(q, {"runners", "summary", "runner"}) =>
    LET r == req[q] IN
    \E i \in r.first..r.last :
      LET rows == IF r.c.kind = "runner" THEN <<past[i].runners[r.c.id].value>>
                                         ELSE Rows(past[i], r.c)
      IN /\ r.c.kind = "runner" => Live(past[i].runners, r.c.id)
         /\ DOMAIN rows = DOMAIN r.answer
         /\ \A k \in DOMAIN rows :
              /\ [r.answer[k] EXCEPT !.labels = rows[k].labels] = rows[k]
              /\ IF rows[k].id \in r.lost THEN r.answer[k].labels = rows[k].labels
                 ELSE \E j \in i..r.last : \A key \in LabelKey : r.answer[k].labels[key] =
                        IF Live(past[j].meta, rows[k].id) /\ past[j].meta[rows[k].id].value[key] # Absent
                        THEN past[j].meta[rows[k].id].value[key] ELSE rows[k].labels[key]

\* A runner that could take the work a placement request asks for.
Fits(x, c) ==
  /\ x.status = "active" /\ x.workers # 0
  /\ \A f \in c.filters : Len(f) = 2 => x.labels[f[1]] \in IF f[2] = "" THEN {"", Absent} ELSE {f[2]}

\* What a placement may answer to one request.
Sound(r) ==
  LET chosen == {r.answer[i].runner : i \in DOMAIN r.answer}
  IN /\ \A x \in chosen : Fits(x, r.c) /\ \E i \in r.first..r.last : Live(past[i].runners, x.id)
     /\ (\E x \in chosen : ~InRegion(x, r.c.region)) =>
          \A i \in DOMAIN r.items : Fits(r.items[i], r.c) => ~InRegion(r.items[i], r.c.region)
     /\ \A i, k \in DOMAIN r.answer :
          i < k => BaseScore(r.answer[k].runner) - BaseScore(r.answer[i].runner) < 10000

\* A placement names only runners that could take work at some moment of the
\* request, prefers the region whenever it has one of them, and never ranks a
\* runner below one that is ten points worse: jitter reorders near-equals
\* only (handleBestRunner, scoreRunner).
PlacementIsSound == \A q \in Slot : Answered(q, {"best"}) => Sound(req[q])

\* A client that walks through the pages of the list from its start, while
\* runners join, gets every runner that is there all along, if none disappears
\* meanwhile: a new key shifts later pages, but never past the reader (List:
\* ORDER BY key with LIMIT and OFFSET).
WalkMissesNothing ==
  \A q \in Slot : Answered(q, {"runners"}) /\ req[q].start <= 0
                  /\ Len(req[q].answer) # PageLimit(req[q].c.limit) =>
    LET r     == req[q]
        There(i) == {id \in Ids : Live(past[i].runners, id)}
        span  == r.first..r.last
    IN (\A i \in span : i < r.last => There(i) \subseteq There(i + 1))
       => There(r.first) \subseteq r.got \cup ReturnedIds(r)

\* The log page of a request is the newest part of the log at one moment of
\* it, oldest first: no event of the runners asked for that is outside the
\* page is newer than one inside, and without a filter the page is short only
\* if the log is (Store.Events, handleEvents).
EventPageIsNewest ==
  \A q \in Slot : Answered(q, {"events"}) =>
    LET r    == req[q]
        page == {r.answer[i] : i \in DOMAIN r.answer}
    IN /\ \A i, k \in DOMAIN r.answer : i < k => r.answer[i].hlc <= r.answer[k].hlc
       /\ \E i \in r.first..r.last :
            LET mine == {e \in past[i].log : r.c.runner \in {Absent, e.runner}}
            IN /\ page \subseteq mine
               /\ \A e \in mine \ page, f \in page : f.hlc >= e.hlc
               /\ r.c.runner = Absent /\ page # mine =>
                    /\ page # {}
                    /\ Cardinality(page) >= IF r.c.limit = Absent THEN 100 ELSE Min({1000, r.c.limit})

\* Every request is answered: no handler waits for the connection it holds,
\* and none keeps it (List's callback, the pool of one connection).
EveryRequestAnswered == \A q \in Slot : req[q].pc # "idle" ~> req[q].pc = "done"
=============================================================================
