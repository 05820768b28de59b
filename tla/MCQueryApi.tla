----------------------------- MODULE MCQueryApi -----------------------------
(***************************************************************************)
(* A small instance of QueryApi: three runner ids in two regions, and five *)
(* workloads.  A workload is found by the database it starts on.           *)
(***************************************************************************)
EXTENDS QueryApi

\* Among keeps what the library's filter keeps, in its order.
ASSUME AmongFilters ==
  \A n \in 0..4, S \in SUBSET (1..3) : \A s \in [1..n -> 1..3] :
    Among(s, {i \in 1..n : s[i] \in S}) = SelectSeq(s, LAMBDA x : x \in S)

ThreeIds == <<"a", "b", "c">>

\* Region of each id; the last one is alone in its own.
RegionOf(id) == IF id = "c" THEN "west" ELSE "east"

Node(id, status, workers, cpu) ==
  [id |-> id, status |-> status, region |-> RegionOf(id), workers |-> workers, capacity |-> 4,
   cpu |-> cpu, mem |-> 10, disk |-> 3000, labels |-> [k \in LabelKey |-> Absent]]

Plain(id) == Node(id, "active", 4, 10)
Labels(v) == [k \in LabelKey |-> v]

NoRows    == [id \in Ids |-> NoRow]
Db(runners, meta) == [runners |-> runners, meta |-> meta, log |-> {}]
Labelled  == [NoRows EXCEPT !["a"] = Row(Labels("yes"))]
TwoPlain  == [id \in Ids |-> IF id = "c" THEN NoRow ELSE Row(Plain(id))]

\* Rows that ids may be given.
Nothing     == [id \in Ids |-> {}]
Some(S, v(_)) == [id \in Ids |-> IF id \in S THEN v(id) ELSE {}]
PlainRow(id)  == {Plain(id)}
EitherLabel(id) == {Labels("yes"), Labels("no")}

Asked(S, T) == [q \in Slot |-> IF q = "q" THEN S ELSE T]
Ask(kind) == [kind |-> kind, id |-> "a", limit |-> Absent, offset |-> 0, region |-> "",
              filters |-> {}, runner |-> Absent]

-----------------------------------------------------------------------------
\* Every kind of read, alone against many writes or two at once against few.
Reads == {Ask("summary"), Ask("runner"), Ask("labels"), Ask("cluster"), Ask("metrics"),
          [Ask("runners") EXCEPT !.limit = 0]}
ReadDb  == Db(TwoPlain, Labelled)
Reading == [asked |-> Asked(Reads, {}), runners |-> Some({"a", "b"}, PlainRow),
            labels |-> Some({"a", "b"}, EitherLabel), events |-> {}, writes |-> 2]
ServeDb == Db(TwoPlain, NoRows)
Serving == [asked |-> Asked(Reads, Reads), runners |-> Nothing,
            labels |-> Some({"a", "b"}, EitherLabel), events |-> {}, writes |-> 1]

\* Placements in a region, with a label, with a filter that has an empty value
\* and with one that has no colon, which asks for nothing; over active runners
\* that are nine and exactly ten points apart, full ones and draining ones.
Placements == {[Ask("best") EXCEPT !.region = "west"]}
              \cup {[Ask("best") EXCEPT !.filters = {f}] : f \in {<<"gpu", "yes">>, <<"gpu", "">>, <<"gpu">>}}
Full(id)     == Node(id, "active", 0, 50)
Draining(id) == Node(id, "draining", 4, 95)
Fleet(x, y, z) == Db([a |-> Row(x), b |-> Row(y), c |-> Row(z)], Labelled)
MixedDbs ==
  {Fleet(x, Plain("b"), Plain("c")) : x \in {Plain("a"), Node("a", "active", 3, 8), Full("a")}} \cup
  {Fleet(Plain("a"), y, Draining("c")) : y \in {Node("b", "active", 2, 8), Draining("b")}} \cup
  {Fleet(Full("a"), Draining("b"), Draining("c"))}
Placing == [asked |-> Asked(Placements, {}), runners |-> Some({"c"}, PlainRow),
            labels |-> Nothing, events |-> {}, writes |-> 1]

\* A walk in pages of one or of two runners, while others come and go.
Walks   == {[Ask("runners") EXCEPT !.limit = n] : n \in {1, 2}}
WalkDb  == Db([NoRows EXCEPT !["b"] = Row(Plain("b"))], NoRows)
Walking == [asked |-> Asked(Walks, {}), runners |-> Some(Ids, PlainRow), labels |-> Nothing,
            events |-> {}, writes |-> 3]

\* Log pages, with three entries to come, two of them with equal HLCs.
SomeEvents == {[runner |-> "a", seq |-> 1, hlc |-> 1], [runner |-> "b", seq |-> 1, hlc |-> 1],
               [runner |-> "a", seq |-> 2, hlc |-> 2]}
LogPages   == {[Ask("events") EXCEPT !.limit = n, !.runner = r] : n \in {0, 1, 2}, r \in {"a", Absent}}
LogDb   == Db(NoRows, NoRows)
Logging == [asked |-> Asked(LogPages, {}), runners |-> Nothing, labels |-> Nothing,
            events |-> SomeEvents, writes |-> 3]

Workloads == [db \in MixedDbs \cup {ReadDb, ServeDb, WalkDb, LogDb} |->
                CASE db = ReadDb  -> Reading
                  [] db = ServeDb -> Serving
                  [] db = WalkDb  -> Walking
                  [] db = LogDb   -> Logging
                  [] OTHER        -> Placing]

Extremes == {-5000, 4999}
=============================================================================
