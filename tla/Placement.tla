----------------------------- MODULE Placement ------------------------------
(***************************************************************************)
(* The pure part of internal/api/api.go and of the reads of                *)
(* internal/engine/store/store.go: pages of a list, labels, the choice of  *)
(* candidates and their ranking, the cluster totals, pages of the log.     *)
(*                                                                         *)
(* Scores are kept in thousandths of a point and loads in percent, so that *)
(* the formula of scoreRunner is exact on integers.                        *)
(***************************************************************************)
EXTENDS Integers, Sequences, FiniteSetsExt, Functions

CONSTANTS
  LabelKey,   \* the keys labels and filters use
  Absent,     \* a key a label map does not have
  Jitter      \* the jitters rand may produce, in thousandths of a point

ASSUME PlacementAssumption == \A j \in Jitter : j \in Int /\ -5000 <= j /\ j <= 4999

NoLabels == [k \in LabelKey |-> Absent]

\* The elements of s at the positions in I, in their order: what a loop that
\* appends the elements it keeps, or a WHERE with an ORDER BY, leaves.
Nth(I, k)   == CHOOSE i \in I : Cardinality({j \in I : j <= i}) = k
Among(s, I) == [k \in 1..Cardinality(I) |-> s[Nth(I, k)]]

-----------------------------------------------------------------------------
(* Pages. *)

\* parsePagination: what the limit and offset parameters come to.
PageLimit(limit)   == IF limit # Absent /\ limit > 0 THEN limit ELSE -1
PageOffset(offset) == IF offset >= 0 THEN offset ELSE 0

Page_OffByOne(list, limit, offset) ==
  IF limit > 0 THEN SubSeq(list, offset + 2, Min({Len(list), offset + 1 + limit}))
  ELSE SubSeq(list, offset + 1, Len(list))

\* List's LIMIT and OFFSET over the rows in key order.
Page(list, limit, offset) ==
  IF limit > 0 THEN SubSeq(list, offset + 1, Min({Len(list), offset + limit}))
  ELSE SubSeq(list, offset + 1, Len(list))

EventLimit_NoFloor(limit) == IF limit = Absent THEN 100 ELSE Min({1000, limit})

\* handleEvents: 100 without a parameter, otherwise within 1..1000.
EventLimit(limit) == IF limit = Absent THEN 100 ELSE Max({1, Min({1000, limit})})

\* Store.Events: the newest events, in ascending order; SQLite may break ties
\* between equal HLCs as it likes.  The filter by runner comes after the limit.
EventPages(log, limit, runner) ==
  LET n      == Min({Cardinality(log), limit})
      Newest == {S \in SUBSET log : /\ Cardinality(S) = n
                                    /\ \A e \in S, f \in log \ S : e.hlc >= f.hlc}
      Sorted(s) == \A i, j \in DOMAIN s : i < j => s[i].hlc <= s[j].hlc
      Wanted(s)  == {i \in DOMAIN s : runner = Absent \/ s[i].runner = runner}
  IN {Among(s, Wanted(s)) : s \in UNION {{t \in Bijection(1..n, S) : Sorted(t)} : S \in Newest}}

-----------------------------------------------------------------------------
(* Labels. *)

\* mergeMetaLabelsOne and handleGetLabels: the API's labels over the runner's own.
MergeLabels(own, extra) == [k \in LabelKey |-> IF extra[k] # Absent THEN extra[k] ELSE own[k]]

\* Reading a Go map: a missing key reads as the empty string.
LabelOf(labels, k) == IF labels[k] = Absent THEN "" ELSE labels[k]

\* A filter is <<key, value>>, or <<text>> when it has no colon.
MatchLabels(r, filters) ==
  \A f \in filters : Len(f) = 2 => LabelOf(r.labels, f[1]) = f[2]

-----------------------------------------------------------------------------
(* handleBestRunner. *)

Eligible(r, filters) ==
  /\ r.status = "active"
  /\ r.workers # 0
  /\ MatchLabels(r, filters)

InRegion(r, region) == region = "" \/ r.region = region

\* The runners that are scored and the penalty they get: those of the region,
\* or all of them with 1000 points off when the region has none.
Candidates(list, region, filters) ==
  LET all  == Among(list, {i \in DOMAIN list : Eligible(list[i], filters)})
      near == Among(all, {i \in DOMAIN all : InRegion(all[i], region)})
  IN IF near # <<>> THEN [runners |-> near, penalty |-> 0]
                    ELSE [runners |-> all, penalty |-> 1000000]

BaseScore(r) == r.workers * 10000 - r.cpu * 500 - r.mem * 300 + r.disk

ScoreRunner_Wide(r, jitter) == BaseScore(r) + 2 * jitter

ScoreRunner(r, jitter) == BaseScore(r) + jitter

\* Every answer the jitter allows: the scored candidates in descending order;
\* sort.Slice leaves equal scores in any order.
Rankings(c) ==
  LET n      == Len(c.runners)
      Scored == {[i \in 1..n |-> [runner |-> c.runners[i],
                                  score |-> ScoreRunner(c.runners[i], j[i]) - c.penalty]] : j \in [1..n -> Jitter]}
  IN {a \in {[i \in 1..n |-> s[p[i]]] : s \in Scored, p \in Bijection(1..n, 1..n)} :
        \A i, k \in 1..n : i < k => a[i].score >= a[k].score}

-----------------------------------------------------------------------------
(* handleCluster; handleMetrics shows the same counts and sums, without the *)
(* averages and with the number of all runners.                             *)

Sum(list, Of(_)) == SumFunction([i \in DOMAIN list |-> Of(list[i])])

\* An average is its sum and count; without active runners it is 0.
ClusterTotals(list) ==
  LET active == Among(list, {i \in DOMAIN list : list[i].status = "active"})
      Avg(total) == IF active = <<>> THEN <<0, 1>> ELSE <<total, Len(active)>>
  IN [all       |-> Len(list),
      runners   |-> Len(active),
      capacity  |-> Sum(active, LAMBDA r : r.capacity),
      available |-> Sum(active, LAMBDA r : r.workers),
      cpu       |-> Avg(Sum(active, LAMBDA r : r.cpu)),
      mem       |-> Avg(Sum(active, LAMBDA r : r.mem))]
=============================================================================
