----------------------------- MODULE PageProofs -----------------------------
(***************************************************************************)
(* What the operators of the read API compute, for every set of runner ids *)
(* and every database: ranks and pages, the candidates of a placement,     *)
(* pages of the event log, and rows with labels merged over them.          *)
(***************************************************************************)
EXTENDS QueryApi, TLAPS, FiniteSetTheorems

-----------------------------------------------------------------------------
(* The positions a filter keeps. *)

\* The position of i among the members of I.
Rank(I, i) == Cardinality({j \in I : j <= i})

\* Positions of a sequence are finitely many, and so are those a filter keeps.
LEMMA RankType ==
  ASSUME NEW n \in Nat, NEW I \in SUBSET (1..n)
  PROVE  /\ IsFiniteSet(I) /\ Cardinality(I) \in 0..n
         /\ \A i \in I : Rank(I, i) \in 1..Cardinality(I)
<1>1. IsFiniteSet(1..n) /\ Cardinality(1..n) = n
  BY FS_Interval
<1>2. IsFiniteSet(I) /\ Cardinality(I) <= n /\ Cardinality(I) \in Nat
  BY <1>1, FS_Subset, FS_CardinalityType, Zenon
<1>3. ASSUME NEW i \in I PROVE Rank(I, i) \in 1..Cardinality(I)
  <2> DEFINE U == {j \in I : j <= i}
  <2>1. U \in SUBSET I /\ i \in U
    OBVIOUS
  <2>2. IsFiniteSet(U) /\ Cardinality(U) <= Cardinality(I) /\ Cardinality(U) \in Nat
    BY <1>2, <2>1, FS_Subset, FS_CardinalityType
  <2>3. Cardinality(U) # 0
    BY <2>1, <2>2, FS_EmptySet
  <2> QED
    BY <1>2, <2>2, <2>3 DEF Rank
<1> QED
  BY <1>2, <1>3

\* A later member has a higher rank.
LEMMA RankGrows ==
  ASSUME NEW n \in Nat, NEW I \in SUBSET (1..n), NEW i \in I, NEW j \in I, i < j
  PROVE  Rank(I, i) < Rank(I, j)
<1> DEFINE U == {m \in I : m <= i}
           V == {m \in I : m <= j}
<1>1. U \in SUBSET V /\ j \in V /\ j \notin U /\ V \in SUBSET I
  <2>1. i \in Int /\ j \in Int /\ \A m \in I : m \in Int
    OBVIOUS
  <2>2. \A m \in I : m <= i => m <= j
    BY <2>1
  <2>3. ~ (j <= i) /\ j <= j
    BY <2>1
  <2> QED
    BY <2>2, <2>3, Zenon
<1>2. IsFiniteSet(V) /\ Cardinality(V) \in Nat
  BY <1>1, RankType, FS_Subset, FS_CardinalityType
<1>3. IsFiniteSet(U) /\ Cardinality(U) \in Nat /\ Cardinality(U) <= Cardinality(V) /\ Cardinality(U) # Cardinality(V)
  BY <1>1, <1>2, FS_Subset, FS_CardinalityType
<1> QED
  BY <1>2, <1>3 DEF Rank

\* So the member of a given rank is unique.
LEMMA NthOfRank ==
  ASSUME NEW n \in Nat, NEW I \in SUBSET (1..n), NEW i \in I
  PROVE  Nth(I, Rank(I, i)) = i
<1>1. \A j \in I : Rank(I, j) \in Nat
  <2>1. Cardinality(I) \in Nat /\ \A j \in I : Rank(I, j) \in 1..Cardinality(I)
    BY RankType
  <2> QED
    BY <2>1
<1>2. \A j \in I : Rank(I, j) = Rank(I, i) => j = i
  <2> SUFFICES ASSUME NEW j \in I, Rank(I, j) = Rank(I, i) PROVE ~ (j < i) /\ ~ (i < j)
    OBVIOUS
  <2>1. j < i => Rank(I, j) < Rank(I, i)
    BY RankGrows, Zenon
  <2>2. i < j => Rank(I, i) < Rank(I, j)
    BY RankGrows
  <2> QED
    BY <1>1, <2>1, <2>2
<1>3. Nth(I, Rank(I, i)) = CHOOSE j \in I : Rank(I, j) = Rank(I, i)
  BY DEF Nth, Rank
<1> QED
  BY <1>2, <1>3

\* Every rank up to the number of members is that of some member: the ranks
\* are distinct, and there are as many of them as of members.
LEMMA NthType ==
  ASSUME NEW n \in Nat, NEW I \in SUBSET (1..n), NEW k \in 1..Cardinality(I)
  PROVE  Nth(I, k) \in I /\ Rank(I, Nth(I, k)) = k
<1> DEFINE C == Cardinality(I)
           f == [i \in I |-> Rank(I, i)]
<1>1. IsFiniteSet(I) /\ C \in Nat /\ \A i \in I : Rank(I, i) \in 1..C
  BY RankType
<1>2. f \in [I -> 1..C]
  BY <1>1
<1>3. \A i, j \in I : f[i] = f[j] => i = j
  <2> SUFFICES ASSUME NEW i \in I, NEW j \in I, Rank(I, i) = Rank(I, j) PROVE i = j
    OBVIOUS
  <2> QED
    BY NthOfRank, Zenon
<1>4. f \in Injection(I, 1..C)
  BY <1>2, <1>3 DEF Injection, IsInjective
<1>5. IsFiniteSet(1..C) /\ Cardinality(1..C) = C
  BY <1>1, FS_Interval
<1>6. f \in Surjection(I, 1..C)
  BY <1>4, <1>5, FS_Injection
<1>7. \E i \in I : f[i] = k
  BY <1>6, Zenon DEF Surjection
<1>8. PICK i \in I : Rank(I, i) = k
  BY <1>7
<1> QED
  BY <1>8, NthOfRank

\* What is kept stays in order.
LEMMA NthGrows ==
  ASSUME NEW n \in Nat, NEW I \in SUBSET (1..n), NEW k \in 1..Cardinality(I), NEW l \in 1..Cardinality(I), k < l
  PROVE  Nth(I, k) < Nth(I, l)
<1> DEFINE a == Nth(I, k)
           b == Nth(I, l)
<1>1. a \in I /\ b \in I /\ Rank(I, a) = k /\ Rank(I, b) = l
  BY NthType, Zenon
<1> HIDE DEF a, b
<1>2. ~ (b < a)
  <2>1. b < a => Rank(I, b) < Rank(I, a)
    BY <1>1, RankGrows, Zenon
  <2> QED
    BY <1>1, <2>1
<1>3. a # b
  BY <1>1
<1>4. a < b
  BY <1>1, <1>2, <1>3
<1> QED
  BY <1>4 DEF a, b

\* The filter of a sequence: its length, its members, and that each kept
\* position is there.
LEMMA AmongType ==
  ASSUME NEW T, NEW s \in Seq(T), NEW I \in SUBSET DOMAIN s
  PROVE  /\ Cardinality(I) \in Nat
         /\ Among(s, I) \in Seq(T)
         /\ Len(Among(s, I)) = Cardinality(I) /\ DOMAIN Among(s, I) = 1..Cardinality(I)
         /\ \A k \in 1..Cardinality(I) : Nth(I, k) \in I /\ Among(s, I)[k] = s[Nth(I, k)]
         /\ \A i \in I : Rank(I, i) \in DOMAIN Among(s, I) /\ Among(s, I)[Rank(I, i)] = s[i]
<1>1. DOMAIN s = 1..Len(s) /\ Len(s) \in Nat
  OBVIOUS
<1>2. Cardinality(I) \in Nat /\ \A i \in I : Rank(I, i) \in 1..Cardinality(I)
  BY <1>1, RankType
<1>3. \A k \in 1..Cardinality(I) : Nth(I, k) \in I
  BY <1>1, NthType, Zenon
<1>4. \A k \in 1..Cardinality(I) : Among(s, I)[k] = s[Nth(I, k)]
  BY DEF Among
<1>5. Among(s, I) \in [1..Cardinality(I) -> T]
  BY <1>3 DEF Among
<1>6. Among(s, I) \in Seq(T) /\ Len(Among(s, I)) = Cardinality(I) /\ DOMAIN Among(s, I) = 1..Cardinality(I)
  BY <1>2, <1>5
<1>7. \A i \in I : Among(s, I)[Rank(I, i)] = s[i]
  BY <1>1, <1>2, <1>4, NthOfRank, Zenon
<1> QED
  BY <1>2, <1>3, <1>4, <1>6, <1>7

\* In a larger set a member has at least the rank it had.
LEMMA RankMonotonic ==
  ASSUME NEW n \in Nat, NEW J \in SUBSET (1..n), NEW I \in SUBSET J, NEW p \in I
  PROVE  Rank(I, p) <= Rank(J, p) /\ Rank(I, p) \in Nat /\ Rank(J, p) \in Nat
<1> DEFINE U == {j \in I : j <= p}
           V == {j \in J : j <= p}
<1>1. U \in SUBSET V /\ V \in SUBSET J
  BY I \subseteq J, Zenon
<1>2. IsFiniteSet(V) /\ Cardinality(V) \in Nat
  BY <1>1, RankType, FS_Subset, FS_CardinalityType
<1>3. Cardinality(U) <= Cardinality(V) /\ Cardinality(U) \in Nat
  BY <1>1, <1>2, FS_Subset, FS_CardinalityType
<1> QED
  BY <1>2, <1>3 DEF Rank

-----------------------------------------------------------------------------
(* Lists and pages. *)

\* The positions of the live runners in key order.
Alive(t) == {i \in DOMAIN Id : Live(t.runners, Id[i])}

\* The list of a database: every live runner once, under its own id, in key
\* order (List's query).
LEMMA ListRunnersType ==
  ASSUME NEW t \in Database
  PROVE  /\ ListRunners(t) \in Seq(Runner)
         /\ Alive(t) \in SUBSET (1..Len(Id)) /\ Len(Id) \in Nat
         /\ \A k \in DOMAIN ListRunners(t) :
              /\ Live(t.runners, ListRunners(t)[k].id)
              /\ ListRunners(t)[k] = t.runners[ListRunners(t)[k].id].value
         /\ \A k, l \in DOMAIN ListRunners(t) : ListRunners(t)[k].id = ListRunners(t)[l].id => k = l
         /\ \A i \in Alive(t) : /\ Rank(Alive(t), i) \in DOMAIN ListRunners(t)
                              /\ ListRunners(t)[Rank(Alive(t), i)].id = Id[i]
<1> DEFINE I    == Alive(t)
           live == Among(Id, I)
           C    == Cardinality(I)
<1>1. Id \in Seq(Ids) /\ I \in SUBSET DOMAIN Id /\ DOMAIN Id = 1..Len(Id) /\ Len(Id) \in Nat
  BY QueryApiAssumption DEF Alive
<1>2. /\ C \in Nat /\ live \in Seq(Ids) /\ DOMAIN live = 1..C
      /\ \A k \in 1..C : Nth(I, k) \in I /\ live[k] = Id[Nth(I, k)]
      /\ \A i \in I : Rank(I, i) \in 1..C /\ live[Rank(I, i)] = Id[i]
  <2> HIDE DEF I
  <2> QED
    BY <1>1, AmongType
<1>3. ListRunners(t) = [k \in 1..C |-> t.runners[live[k]].value]
  BY <1>2, Zenon DEF ListRunners, Alive
<1>4. \A k \in 1..C : live[k] \in Ids /\ Live(t.runners, live[k])
  BY <1>1, <1>2, Zenon DEF Alive, Ids
<1>5. \A id \in Ids : Live(t.runners, id) => t.runners[id].value \in Runner /\ t.runners[id].value.id = id
  BY DEF Database, Live, RowOf
<1>6. \A k, l \in 1..C : live[k] = live[l] => k = l
  <2> SUFFICES ASSUME NEW k \in 1..C, NEW l \in 1..C, live[k] = live[l] PROVE k = l
    OBVIOUS
  <2>1. Nth(I, k) = Nth(I, l)
    BY <1>1, <1>2, QueryApiAssumption DEF IsInjective
  <2> HIDE DEF I
  <2>2. Rank(I, Nth(I, k)) = k /\ Rank(I, Nth(I, l)) = l
    BY <1>1, NthType, Zenon
  <2> QED
    BY <2>1, <2>2
<1> HIDE DEF live, C, I
<1>7. \A k \in 1..C : /\ ListRunners(t)[k] = t.runners[live[k]].value
                      /\ ListRunners(t)[k] \in Runner /\ ListRunners(t)[k].id = live[k]
  BY <1>3, <1>4, <1>5, Zenon
<1>8. ListRunners(t) \in Seq(Runner) /\ DOMAIN ListRunners(t) = 1..C
  <2>1. ListRunners(t) \in [1..C -> Runner]
    BY <1>3, <1>7, Zenon
  <2> QED
    BY <1>2, <2>1
<1> QED
  BY <1>1, <1>2, <1>4, <1>6, <1>7, <1>8 DEF I

\* A page is a stretch of the list: what it shows, what it cannot miss, and
\* that it is full when there is more after it (LIMIT and OFFSET).
LEMMA PageType ==
  ASSUME NEW T, NEW s \in Seq(T), NEW limit \in Int, NEW offset \in Nat
  PROVE  /\ Page(s, limit, offset) \in Seq(T)
         /\ \A k \in DOMAIN Page(s, limit, offset) :
              offset + k \in DOMAIN s /\ Page(s, limit, offset)[k] = s[offset + k]
         /\ \A j \in DOMAIN s : j > offset /\ (limit > 0 => j <= offset + limit) =>
              j - offset \in DOMAIN Page(s, limit, offset) /\ Page(s, limit, offset)[j - offset] = s[j]
         /\ limit > 0 /\ Len(s) >= offset + limit => Len(Page(s, limit, offset)) = limit
<1> DEFINE m == IF limit > 0 THEN Min({Len(s), offset + limit}) ELSE Len(s)
<1>1. /\ m \in Int /\ m <= Len(s)
      /\ limit > 0 => m <= offset + limit /\ (m = Len(s) \/ m = offset + limit)
      /\ limit <= 0 => m = Len(s)
  BY DEF Min
<1>2. Page(s, limit, offset) = SubSeq(s, offset + 1, m)
  BY Zenon DEF Page
<1> HIDE DEF m
<1>3. /\ SubSeq(s, offset + 1, m) \in Seq(T)
      /\ Len(SubSeq(s, offset + 1, m)) = IF offset + 1 <= m THEN m - offset ELSE 0
      /\ \A k \in 1..(m - offset) : SubSeq(s, offset + 1, m)[k] = s[offset + k]
  BY <1>1
<1> QED
  BY <1>1, <1>2, <1>3

\* What List passes to its callback for a request: runners of the database,
\* no one twice.
LEMMA RowsType ==
  ASSUME NEW t \in Database, NEW c \in Request
  PROVE  /\ Rows(t, c) \in Seq(Runner)
         /\ \A k \in DOMAIN Rows(t, c) : /\ Live(t.runners, Rows(t, c)[k].id)
                                         /\ Rows(t, c)[k] = t.runners[Rows(t, c)[k].id].value
         /\ \A k, l \in DOMAIN Rows(t, c) : Rows(t, c)[k].id = Rows(t, c)[l].id => k = l
<1>1. CASE c.kind # "runners"
  BY <1>1, ListRunnersType, Zenon DEF Rows
<1>2. CASE c.kind = "runners"
  <2> DEFINE list   == ListRunners(t)
             limit  == PageLimit(c.limit)
             offset == PageOffset(c.offset)
  <2>1. list \in Seq(Runner) /\ limit \in Int /\ offset \in Nat
    BY ListRunnersType DEF PageLimit, PageOffset, Request
  <2>2. Rows(t, c) = Page(list, limit, offset)
    BY <1>2 DEF Rows
  <2> HIDE DEF list, limit, offset
  <2>3. /\ Page(list, limit, offset) \in Seq(Runner)
        /\ \A k \in DOMAIN Page(list, limit, offset) :
              offset + k \in DOMAIN list /\ Page(list, limit, offset)[k] = list[offset + k]
    BY <2>1, PageType
  <2>4. \A k \in DOMAIN Page(list, limit, offset) : k \in Nat
    BY <2>3
  <2>5. /\ \A k \in DOMAIN list : /\ Live(t.runners, list[k].id)
                                  /\ list[k] = t.runners[list[k].id].value
        /\ \A k, l \in DOMAIN list : list[k].id = list[l].id => k = l
    BY ListRunnersType, Zenon DEF list
  <2>6. \A k, l \in DOMAIN Page(list, limit, offset) : offset + k = offset + l => k = l
    BY <2>1, <2>4
  <2> QED
    BY <2>2, <2>3, <2>5, <2>6
<1> QED
  BY <1>1, <1>2, Zenon

\* A request for another page.
LEMMA OffsetType ==
  ASSUME NEW c \in Request, NEW o \in Int
  PROVE  /\ [c EXCEPT !.offset = o] \in Request
         /\ [c EXCEPT !.offset = o].offset = o
         /\ [c EXCEPT !.offset = o].kind = c.kind
<1> DEFINE F == SUBSET {f \in Seq(LabelKey \cup STRING) : Len(f) = 2 => f[1] \in LabelKey}
           K == Listing \cup {"runner", "labels", "events"}
           N == {Absent} \cup Int
           W == {Absent} \cup STRING
<1>1. Request = [kind : K, id : Ids, limit : N, offset : Int, region : STRING, filters : F, runner : W]
  BY DEF Request
<1> HIDE DEF F, K, N, W
<1> QED
  BY <1>1

-----------------------------------------------------------------------------
(* Placement. *)

\* The candidates are eligible runners of the list, and one from elsewhere is
\* among them only if the region has none.
WellChosen(c, list, region, filters) ==
  /\ c.runners \in Seq(Runner) /\ c.penalty \in Int
  /\ \A k \in DOMAIN c.runners : \E i \in DOMAIN list : c.runners[k] = list[i] /\ Eligible(list[i], filters)
  /\ (\E k \in DOMAIN c.runners : ~InRegion(c.runners[k], region)) =>
       \A i \in DOMAIN list : Eligible(list[i], filters) => ~InRegion(list[i], region)

\* Candidates chooses well.
LEMMA CandidatesAreEligible ==
  ASSUME NEW list \in Seq(Runner), NEW region, NEW filters
  PROVE  WellChosen(Candidates(list, region, filters), list, region, filters)
<1> SUFFICES LET c == Candidates(list, region, filters) IN
             /\ c.runners \in Seq(Runner) /\ c.penalty \in Int
             /\ \A k \in DOMAIN c.runners : \E i \in DOMAIN list : c.runners[k] = list[i] /\ Eligible(list[i], filters)
             /\ (\E k \in DOMAIN c.runners : ~InRegion(c.runners[k], region)) =>
                  \A i \in DOMAIN list : Eligible(list[i], filters) => ~InRegion(list[i], region)
  BY DEF WellChosen
<1> DEFINE I    == {i \in DOMAIN list : Eligible(list[i], filters)}
           all  == Among(list, I)
           J    == {i \in DOMAIN all : InRegion(all[i], region)}
           near == Among(all, J)
<1>1. I \in SUBSET DOMAIN list
  OBVIOUS
<1>2. Candidates(list, region, filters) = IF near # <<>> THEN [runners |-> near, penalty |-> 0]
                                                        ELSE [runners |-> all, penalty |-> 1000000]
  BY DEF Candidates
<1> HIDE DEF I
<1>3. /\ all \in Seq(Runner)
      /\ \A k \in DOMAIN all : \E i \in I : all[k] = list[i]
      /\ \A i \in I : \E k \in DOMAIN all : all[k] = list[i]
  BY <1>1, AmongType
<1> HIDE DEF all
<1>4. J \in SUBSET DOMAIN all
  OBVIOUS
<1> HIDE DEF J
<1>5. /\ near \in Seq(Runner)
      /\ \A k \in DOMAIN near : \E i \in J : near[k] = all[i]
      /\ \A i \in J : \E k \in DOMAIN near : near[k] = all[i]
  <2>1. /\ near \in Seq(Runner) /\ DOMAIN near = 1..Cardinality(J)
        /\ \A k \in 1..Cardinality(J) : Nth(J, k) \in J /\ near[k] = all[Nth(J, k)]
        /\ \A i \in J : Rank(J, i) \in DOMAIN near /\ near[Rank(J, i)] = all[i]
    BY <1>3, <1>4, AmongType
  <2> QED
    BY <2>1
<1> HIDE DEF near
<1>6. CASE near # <<>>
  <2>1. \A k \in DOMAIN near : InRegion(near[k], region)
    BY <1>5 DEF J
  <2>2. \A k \in DOMAIN near : \E i \in DOMAIN list : near[k] = list[i] /\ Eligible(list[i], filters)
    BY <1>3, <1>4, <1>5 DEF I
  <2> QED
    BY <1>2, <1>5, <1>6, <2>1, <2>2
<1>7. CASE near = <<>>
  <2>1. J = {}
    BY <1>5, <1>7
  <2>2. \A i \in I : ~InRegion(list[i], region)
    BY <1>3, <2>1 DEF J
  <2>3. \A k \in DOMAIN all : \E i \in DOMAIN list : all[k] = list[i] /\ Eligible(list[i], filters)
    BY <1>3 DEF I
  <2> QED
    BY <1>2, <1>3, <1>7, <2>2, <2>3 DEF I
<1> QED
  BY <1>6, <1>7, Zenon

\* Scores and jitters are numbers.
LEMMA ScoreType ==
  /\ \A r \in Runner : BaseScore(r) \in Int
  /\ \A j \in Jitter : j \in Int /\ -5000 <= j /\ j <= 4999
<1>1. ASSUME NEW r \in Runner PROVE BaseScore(r) \in Int
  <2>1. r.workers \in Int /\ r.cpu \in Int /\ r.mem \in Int /\ r.disk \in Int
    BY DEF Runner
  <2> QED
    BY <2>1 DEF BaseScore
<1> QED
  BY <1>1, PlacementAssumption

\* A ranking shows the candidates, and puts none below one that is ten points
\* worse: two jitters differ by less than that.
LEMMA RankingsKeepDistance ==
  ASSUME NEW c, c.runners \in Seq(Runner), c.penalty \in Int, NEW a \in Rankings(c)
  PROVE  /\ DOMAIN a = DOMAIN c.runners
         /\ \A i \in DOMAIN a : \E k \in DOMAIN c.runners : a[i].runner = c.runners[k]
         /\ \A i, k \in DOMAIN a : i < k => BaseScore(a[k].runner) - BaseScore(a[i].runner) < 10000
<1> DEFINE n == Len(c.runners)
           Score(j) == [i \in 1..n |-> [runner |-> c.runners[i],
                                        score |-> ScoreRunner(c.runners[i], j[i]) - c.penalty]]
           Scored   == {Score(j) : j \in [1..n -> Jitter]}
<1>0. n \in Nat /\ DOMAIN c.runners = 1..n
  OBVIOUS
<1>1. /\ a \in {[i \in 1..n |-> s[p[i]]] : s \in Scored, p \in Bijection(1..n, 1..n)}
      /\ \A i, k \in 1..n : i < k => a[i].score >= a[k].score
  BY DEF Rankings
<1> HIDE DEF n
<1>2. PICK s \in Scored, p \in Bijection(1..n, 1..n) : a = [i \in 1..n |-> s[p[i]]]
  BY <1>1
<1>3. PICK j \in [1..n -> Jitter] : s = Score(j)
  OBVIOUS
<1>4. p \in [1..n -> 1..n]
  BY DEF Bijection, Injection
<1>5. \A i \in 1..n : /\ a[i].runner = c.runners[p[i]]
                      /\ a[i].score = ScoreRunner(c.runners[p[i]], j[p[i]]) - c.penalty
  BY <1>2, <1>3, <1>4, Zenon
<1>6. DOMAIN a = 1..n
  BY <1>2
<1> HIDE DEF Scored
<1> DEFINE Bounded(u) == u \in Int /\ -5000 <= u /\ u <= 4999
<1>7. \A i \in 1..n : BaseScore(c.runners[i]) \in Int /\ Bounded(j[i])
  BY <1>0, ScoreType
<1> HIDE DEF Bounded
<1>8. ASSUME NEW i \in 1..n, NEW k \in 1..n, i < k
      PROVE  BaseScore(a[k].runner) - BaseScore(a[i].runner) < 10000
  <2> DEFINE x == BaseScore(c.runners[p[i]])
             y == BaseScore(c.runners[p[k]])
             u == j[p[i]]
             v == j[p[k]]
             w == c.penalty
  <2>1. x \in Int /\ y \in Int /\ w \in Int /\ Bounded(u) /\ Bounded(v)
    <3>1. p[i] \in 1..n /\ p[k] \in 1..n
      BY <1>4
    <3> QED
      BY <3>1, <1>7, Zenon
  <2>2. (x + u) - w >= (y + v) - w
    BY <1>1, <1>5, <1>8 DEF ScoreRunner
  <2> HIDE DEF x, y, u, v, w
  <2>3. y - x < 10000
    BY <2>1, <2>2 DEF Bounded
  <2> QED
    BY <1>5, <2>3 DEF x, y
<1>9. \A i \in 1..n : p[i] \in DOMAIN c.runners
  BY <1>0, <1>4
<1> QED
  BY <1>0, <1>5, <1>6, <1>8, <1>9

\* What it takes to be a candidate, read from the labels themselves.
LEMMA EligibleMeans ==
  ASSUME NEW x \in Runner, NEW c \in Request
  PROVE  Eligible(x, c.filters) <=> Fits(x, c)
<1>1. ASSUME NEW f \in c.filters, Len(f) = 2
      PROVE  LabelOf(x.labels, f[1]) = f[2] <=> x.labels[f[1]] \in IF f[2] = "" THEN {"", Absent} ELSE {f[2]}
  <2>1. f \in Seq(LabelKey \cup STRING)
    BY DEF Request
  <2>2. f[2] # Absent
    <3>1. f[2] \in LabelKey \cup STRING
      BY <1>1, <2>1
    <3> QED
      BY <3>1, QueryApiAssumption
  <2>3. CASE x.labels[f[1]] = Absent
    BY <2>2, <2>3, Zenon DEF LabelOf
  <2>4. CASE x.labels[f[1]] # Absent
    BY <2>2, <2>4, ZenonT(30) DEF LabelOf
  <2> QED
    BY <2>3, <2>4, Zenon
<1> QED
  BY <1>1, Zenon DEF Eligible, MatchLabels, Fits

-----------------------------------------------------------------------------
(* The event log. *)

\* An enumeration of a finite set is a sequence that shows all of it.
LEMMA SeqOfSet ==
  ASSUME NEW S, IsFiniteSet(S), NEW s \in Bijection(1..Cardinality(S), S)
  PROVE  /\ s \in Seq(S) /\ DOMAIN s = 1..Cardinality(S) /\ Cardinality(S) \in Nat
         /\ \A e \in S : \E i \in DOMAIN s : s[i] = e
<1> DEFINE n == Cardinality(S)
<1>1. n \in Nat
  BY FS_CardinalityType
<1>2. s \in [1..n -> S] /\ \A e \in S : \E i \in 1..n : s[i] = e
  BY DEF Bijection, Injection, Surjection
<1> HIDE DEF n
<1> QED
  BY <1>1, <1>2 DEF n

\* A page of the log: in order, of the runner asked for, with nothing newer
\* left out, and full unless it is the whole log.
NewestPart(a, log, limit, runner) ==
  LET page == {a[i] : i \in DOMAIN a}
      mine == {e \in log : runner \in {Absent, e.runner}}
  IN /\ \A i, k \in DOMAIN a : i < k => a[i].hlc <= a[k].hlc
     /\ page \subseteq mine
     /\ \A e \in mine \ page, f \in page : f.hlc >= e.hlc
     /\ runner = Absent /\ page # mine => Cardinality(page) = limit

\* Every page listEvents can return has that shape.
LEMMA EventPagesAreNewest ==
  ASSUME NEW log \in SUBSET Entry, IsFiniteSet(log), NEW limit \in Nat \ {0}, NEW runner,
         NEW a \in EventPages(log, limit, runner)
  PROVE  NewestPart(a, log, limit, runner)
<1> SUFFICES LET page == {a[i] : i \in DOMAIN a}
                 mine == {e \in log : runner \in {Absent, e.runner}}
             IN /\ \A i, k \in DOMAIN a : i < k => a[i].hlc <= a[k].hlc
                /\ page \subseteq mine
                /\ \A e \in mine \ page, f \in page : f.hlc >= e.hlc
                /\ runner = Absent /\ page # mine => Cardinality(page) = limit
  BY DEF NewestPart
<1> DEFINE n    == Min({Cardinality(log), limit})
           W(s) == {i \in DOMAIN s : runner = Absent \/ s[i].runner = runner}
           page == {a[i] : i \in DOMAIN a}
           mine == {e \in log : runner \in {Absent, e.runner}}
           Sorted(s) == \A i, j \in DOMAIN s : i < j => s[i].hlc <= s[j].hlc
           Newest    == {S \in SUBSET log : /\ Cardinality(S) = n
                                            /\ \A e \in S, f \in log \ S : e.hlc >= f.hlc}
           Orders    == UNION {{t \in Bijection(1..n, S) : Sorted(t)} : S \in Newest}
<1>1. a \in {Among(s, W(s)) : s \in Orders}
  BY Zenon DEF EventPages
<1> HIDE DEF Orders
<1>2. PICK s \in Orders : a = Among(s, W(s))
  BY <1>1
<1> HIDE DEF n, Newest, Sorted
<1>a. PICK S \in Newest : s \in {t \in Bijection(1..n, S) : Sorted(t)}
  BY DEF Orders
<1> USE DEF Newest, Sorted
<1>3. s \in Bijection(1..n, S) /\ n = Cardinality(S) /\ Sorted(s)
  BY <1>a
<1> USE DEF n
<1> DEFINE I == W(s)
<1>4. IsFiniteSet(S) /\ Cardinality(log) \in Nat /\ (Cardinality(S) = Cardinality(log) => S = log)
  BY FS_Subset, FS_CardinalityType
<1>5. /\ s \in Seq(S) /\ DOMAIN s = 1..Cardinality(S) /\ Cardinality(S) \in Nat
      /\ \A e \in S : \E i \in DOMAIN s : s[i] = e
  BY <1>3, <1>4, SeqOfSet
<1>6. I \in SUBSET DOMAIN s /\ a = Among(s, I)
  BY <1>2
<1> HIDE DEF I
<1>7. /\ DOMAIN a = 1..Cardinality(I) /\ Cardinality(I) \in Nat
      /\ \A k \in 1..Cardinality(I) : Nth(I, k) \in I /\ a[k] = s[Nth(I, k)]
      /\ \A i \in I : Rank(I, i) \in DOMAIN a /\ a[Rank(I, i)] = s[i]
  <2> HIDE DEF Newest
  <2>1. /\ Cardinality(I) \in Nat /\ DOMAIN Among(s, I) = 1..Cardinality(I)
        /\ \A k \in 1..Cardinality(I) : Nth(I, k) \in I /\ Among(s, I)[k] = s[Nth(I, k)]
        /\ \A i \in I : Rank(I, i) \in DOMAIN Among(s, I) /\ Among(s, I)[Rank(I, i)] = s[i]
    BY <1>5, <1>6, AmongType
  <2> QED
    BY <1>6, <2>1
<1>8. \A i, k \in DOMAIN a : i < k => a[i].hlc <= a[k].hlc
  <2> SUFFICES ASSUME NEW i \in DOMAIN a, NEW k \in DOMAIN a, i < k PROVE a[i].hlc <= a[k].hlc
    OBVIOUS
  <2>1. Nth(I, i) < Nth(I, k)
    BY <1>5, <1>6, <1>7, NthGrows, Zenon
  <2> QED
    <3>1. Nth(I, i) \in DOMAIN s /\ Nth(I, k) \in DOMAIN s /\ a[i] = s[Nth(I, i)] /\ a[k] = s[Nth(I, k)]
      BY <1>6, <1>7
    <3> QED
      BY <1>3, <2>1, <3>1
<1>9. page = {e \in S : runner = Absent \/ e.runner = runner}
  <2>1. ASSUME NEW k \in DOMAIN a PROVE a[k] \in S /\ (runner = Absent \/ a[k].runner = runner)
    <3>1. Nth(I, k) \in I /\ a[k] = s[Nth(I, k)]
      BY <1>7
    <3>2. \A i \in I : i \in DOMAIN s /\ (runner = Absent \/ s[i].runner = runner)
      BY DEF I
    <3>3. \A i \in DOMAIN s : s[i] \in S
      BY <1>5
    <3> QED
      BY <3>1, <3>2, <3>3
  <2>2. ASSUME NEW e \in S, runner = Absent \/ e.runner = runner PROVE \E k \in DOMAIN a : a[k] = e
    <3>1. PICK i \in DOMAIN s : s[i] = e
      BY <1>5, Zenon
    <3>2. i \in I
      BY <2>2, <3>1 DEF I
    <3> QED
      BY <1>7, <3>1, <3>2
  <2> QED
    BY <2>1, <2>2
<1>10. mine = {e \in log : runner = Absent \/ e.runner = runner}
  OBVIOUS
<1> HIDE DEF page, mine
<1>11. page \subseteq mine /\ \A e \in mine \ page, f \in page : f.hlc >= e.hlc
  BY <1>3, <1>9, <1>10
<1>12. ASSUME runner = Absent, page # mine PROVE Cardinality(page) = limit
  <2>1. page = S /\ S # log
    BY <1>9, <1>10, <1>12
  <2>2. n = Cardinality(log) \/ n = limit
    BY <1>4 DEF Min
  <2> QED
    BY <1>3, <1>4, <2>1, <2>2
<1> QED
  BY <1>8, <1>11, <1>12 DEF page, mine

\* handleEvents: the limit is positive and at least the one asked for, up to
\* a thousand.
LEMMA EventLimitType ==
  ASSUME NEW limit \in {Absent} \cup Int
  PROVE  /\ EventLimit(limit) \in Nat \ {0}
         /\ EventLimit(limit) >= IF limit = Absent THEN 100 ELSE Min({1000, limit})
         /\ limit # Absent => Min({1000, limit}) \in Int
<1>1. CASE limit = Absent
  BY <1>1 DEF EventLimit
<1>2. CASE limit # Absent
  <2>1. limit \in Int
    BY <1>2
  <2>2. Min({1000, limit}) = IF limit <= 1000 THEN limit ELSE 1000
    BY <2>1 DEF Min
  <2> DEFINE m == Min({1000, limit})
  <2>3. m \in Int
    BY <2>1, <2>2
  <2> HIDE DEF m
  <2>4. Max({1, m}) = IF m <= 1 THEN 1 ELSE m
    BY <2>3 DEF Max
  <2>5. EventLimit(limit) = Max({1, m})
    BY <1>2 DEF EventLimit, m
  <2>6. EventLimit(limit) \in Nat \ {0} /\ EventLimit(limit) >= m
    BY <2>3, <2>4, <2>5
  <2> QED
    BY <1>2, <2>3, <2>6 DEF m
<1> QED
  BY <1>1, <1>2

-----------------------------------------------------------------------------
(* The rows a request reads, one by one, and the labels merged over them. *)

\* What the store shows a request at one moment.
Shown(t, c) == IF c.kind = "runner" THEN <<t.runners[c.id].value>> ELSE Rows(t, c)

\* The items are the rows of moment i; those before next have the labels of
\* a moment between i and m over their own, unless the lookup failed.
MergeOf(r, h, i, m) ==
  LET rows == Shown(h[i], r.c) IN
  /\ r.c.kind = "runner" => Live(h[i].runners, r.c.id)
  /\ DOMAIN r.items = DOMAIN rows
  /\ \A k \in DOMAIN rows :
       /\ r.items[k] = [rows[k] EXCEPT !.labels = r.items[k].labels]
       /\ k >= r.next => r.items[k].labels = rows[k].labels /\ rows[k].id \notin r.lost
       /\ rows[k].id \in r.lost => r.items[k].labels = rows[k].labels
       /\ k < r.next /\ rows[k].id \notin r.lost =>
            \E j \in i..m : r.items[k].labels = MergeLabels(rows[k].labels, ExtraLabels(h[j], rows[k].id))

\* The domain of a sequence, and when it is empty.
LEMMA SeqDomain ==
  ASSUME NEW S, NEW u \in Seq(S)
  PROVE  /\ Len(u) \in Nat /\ DOMAIN u = 1..Len(u)
         /\ IF u = <<>> THEN Len(u) = 0 ELSE 1 <= Len(u)
OBVIOUS

\* Moving the first element of one sequence to the end of another.
LEMMA MoveHead ==
  ASSUME NEW S, NEW u \in Seq(S), NEW v \in Seq(S), v # <<>>
  PROVE  LET a == Len(u)
             b == Len(v)
             x == Append(u, Head(v))
             y == Tail(v)
         IN /\ a \in Nat /\ b \in Nat \ {0} /\ DOMAIN u = 1..a /\ DOMAIN v = 1..b
            /\ x \in Seq(S) /\ Len(x) = a + 1 /\ DOMAIN x = 1..(a + 1)
            /\ y \in Seq(S) /\ Len(y) = b - 1 /\ DOMAIN y = 1..(b - 1)
            /\ \A k \in 1..a : x[k] = u[k]
            /\ x[a + 1] = v[1]
            /\ \A k \in 1..(b - 1) : y[k] = v[k + 1]
<1> DEFINE a == Len(u)
           b == Len(v)
<1>1. a \in Nat /\ b \in Nat \ {0} /\ DOMAIN u = 1..a /\ DOMAIN v = 1..b /\ Head(v) \in S /\ Head(v) = v[1]
  OBVIOUS
<1>2. LET x == Append(u, Head(v)) IN
      /\ x \in Seq(S) /\ Len(x) = a + 1 /\ DOMAIN x = 1..(a + 1)
      /\ \A k \in 1..a : x[k] = u[k]
      /\ x[a + 1] = v[1]
  BY <1>1
<1>3. LET y == Tail(v) IN
      /\ y \in Seq(S) /\ Len(y) = b - 1 /\ DOMAIN y = 1..(b - 1)
      /\ \A k \in 1..(b - 1) : y[k] = v[k + 1]
  BY <1>1
<1> QED
  BY <1>1, <1>2, <1>3

\* A runner with its own labels.
LEMMA OwnLabels ==
  ASSUME NEW x \in Runner
  PROVE  x = [x EXCEPT !.labels = x.labels]
BY DEF Runner

\* What the store shows are live rows, each runner once.
LEMMA ShownType ==
  ASSUME NEW t \in Database, NEW c \in Request, c.kind = "runner" => Live(t.runners, c.id)
  PROVE  /\ Shown(t, c) \in Seq(Runner)
         /\ \A k \in DOMAIN Shown(t, c) : Live(t.runners, Shown(t, c)[k].id) /\ Shown(t, c)[k].id \in Ids
         /\ \A k, l \in DOMAIN Shown(t, c) : Shown(t, c)[k].id = Shown(t, c)[l].id => k = l
<1>1. CASE c.kind # "runner"
  <2>1. \A x \in Runner : x.id \in Ids
    BY DEF Runner
  <2>2. \A k \in DOMAIN Rows(t, c) : Rows(t, c)[k] \in Runner
    BY RowsType
  <2> QED
    BY <1>1, <2>1, <2>2, RowsType DEF Shown
<1>2. CASE c.kind = "runner"
  <2> DEFINE v == t.runners[c.id].value
  <2>1. c.id \in Ids
    BY DEF Request
  <2>2. t.runners \in [Ids -> RowOf(Runner)] /\ t.runners[c.id] # NoRow
    BY <1>2 DEF Database, Live
  <2>3. v \in Runner /\ v.id = c.id
    BY <2>1, <2>2 DEF Database, RowOf
  <2> HIDE DEF v
  <2>4. Shown(t, c) = <<v>>
    BY <1>2 DEF Shown, v
  <2>5. <<v>> \in Seq(Runner) /\ DOMAIN <<v>> = {1} /\ <<v>>[1] = v
    BY <2>3
  <2> QED
    BY <1>2, <2>1, <2>3, <2>4, <2>5
<1> QED
  BY <1>1, <1>2

\* The labels that are laid over a runner's own.
LEMMA LabelsType ==
  ASSUME NEW t \in Database, NEW id \in Ids, NEW own \in LabelMap
  PROVE  /\ ExtraLabels(t, id) \in LabelMap
         /\ MergeLabels(own, ExtraLabels(t, id)) \in LabelMap
<1>1. t.meta \in [Ids -> RowOf(LabelMap)]
  BY DEF Database
<1>2. ExtraLabels(t, id) \in LabelMap
  <2>1. NoLabels \in LabelMap
    BY DEF NoLabels, LabelMap
  <2>2. Live(t.meta, id) => t.meta[id].value \in LabelMap
    BY <1>1 DEF Live, RowOf
  <2> QED
    BY <2>1, <2>2 DEF ExtraLabels
<1> QED
  BY <1>2 DEF MergeLabels, LabelMap

\* One more row has its labels, or goes without.
LEMMA MergeOfNext ==
  ASSUME NEW r, NEW s, NEW h \in Seq(Database), NEW i \in 1..Len(h), MergeOf(r, h, i, Len(h)),
         r.c \in Request, r.items \in Seq(Runner), r.next \in DOMAIN r.items,
         s.c = r.c, s.next = r.next + 1, DOMAIN s.items = DOMAIN r.items,
         \A k \in DOMAIN r.items : k # r.next => s.items[k] = r.items[k],
         LET x == r.items[r.next] IN
         \/ /\ s.items[r.next] = [x EXCEPT !.labels = MergeLabels(x.labels, ExtraLabels(h[Len(h)], x.id))]
            /\ s.lost = r.lost
         \/ s.items[r.next] = x /\ s.lost = r.lost \cup {x.id}
  PROVE  MergeOf(s, h, i, Len(h))
<1> DEFINE n    == Len(h)
           j    == r.next
           rows == Shown(h[i], r.c)
<1>1. n \in Nat /\ h[i] \in Database /\ j \in Nat /\ n \in i..n
  OBVIOUS
<1>2. /\ r.c.kind = "runner" => Live(h[i].runners, r.c.id)
      /\ DOMAIN r.items = DOMAIN rows
      /\ \A k \in DOMAIN rows :
           /\ r.items[k] = [rows[k] EXCEPT !.labels = r.items[k].labels]
           /\ k >= j => r.items[k].labels = rows[k].labels /\ rows[k].id \notin r.lost
           /\ rows[k].id \in r.lost => r.items[k].labels = rows[k].labels
           /\ k < j /\ rows[k].id \notin r.lost =>
                \E l \in i..n : r.items[k].labels = MergeLabels(rows[k].labels, ExtraLabels(h[l], rows[k].id))
  BY Zenon DEF MergeOf
<1>3. /\ rows \in Seq(Runner)
      /\ \A k, l \in DOMAIN rows : rows[k].id = rows[l].id => k = l
  BY <1>1, <1>2, ShownType, Zenon
<1>4. DOMAIN rows \subseteq Int /\ (\A k \in DOMAIN rows : rows[k] \in Runner)
  BY <1>3
<1> HIDE DEF rows, j, n
<1>5. \A k \in DOMAIN rows : rows[k] = [rows[k] EXCEPT !.labels = rows[k].labels]
  BY <1>4, OwnLabels, Zenon
<1>6. j \in DOMAIN rows /\ r.items[j] = rows[j] /\ rows[j].id \notin r.lost
  <2>1. j \in DOMAIN rows
    BY <1>2, Zenon DEF j
  <2>2. j >= j
    BY <1>1
  <2> QED
    BY <1>2, <1>5, <2>1, <2>2, Zenon
<1>7. \A k \in DOMAIN rows : k # j => s.items[k] = r.items[k]
  BY <1>2, Zenon DEF j
<1>8. /\ s.next = j + 1 /\ s.c = r.c /\ DOMAIN s.items = DOMAIN rows
      /\ \A k \in DOMAIN rows : k # j => ((k >= j + 1 <=> k >= j) /\ (k < j + 1 <=> k < j))
      /\ ~(j >= j + 1) /\ j < j + 1
  BY <1>1, <1>2, <1>4 DEF j
<1> DEFINE Good(k) ==
             /\ s.items[k] = [rows[k] EXCEPT !.labels = s.items[k].labels]
             /\ k >= s.next => s.items[k].labels = rows[k].labels /\ rows[k].id \notin s.lost
             /\ rows[k].id \in s.lost => s.items[k].labels = rows[k].labels
             /\ k < s.next /\ rows[k].id \notin s.lost =>
                  \E l \in i..n : s.items[k].labels = MergeLabels(rows[k].labels, ExtraLabels(h[l], rows[k].id))
<1>9. ASSUME NEW k \in DOMAIN rows, k # j PROVE Good(k)
  <2>1. rows[k].id # rows[j].id
    BY <1>3, <1>6, <1>9, Zenon
  <2>2. rows[k].id \in s.lost <=> rows[k].id \in r.lost
    BY <1>6, <2>1 DEF j
  <2> QED
    BY <1>2, <1>7, <1>8, <1>9, <2>2
<1>10. Good(j)
  <2> DEFINE L == MergeLabels(rows[j].labels, ExtraLabels(h[n], rows[j].id))
  <2>1. CASE s.items[j] = [rows[j] EXCEPT !.labels = L] /\ s.lost = r.lost
    <3>1. s.items[j].labels = L
      BY <1>4, <1>6, <2>1 DEF Runner
    <3> HIDE DEF L
    <3>2. s.items[j] = [rows[j] EXCEPT !.labels = s.items[j].labels]
      BY <2>1, <3>1, Zenon
    <3>3. \E l \in i..n : s.items[j].labels = MergeLabels(rows[j].labels, ExtraLabels(h[l], rows[j].id))
      BY <1>1, <3>1, Zenon DEF L
    <3> QED
      BY <1>6, <1>8, <2>1, <3>2, <3>3
  <2>2. CASE s.items[j] = rows[j] /\ s.lost = r.lost \cup {rows[j].id}
    BY <1>5, <1>6, <1>8, <2>2, Zenon
  <2> QED
    BY <1>6, <2>1, <2>2, Zenon DEF j, n
<1>11. \A k \in DOMAIN rows : Good(k)
  <2> HIDE DEF Good
  <2> QED
    BY <1>9, <1>10, Zenon
<1> HIDE DEF Good
<1>12. Shown(h[i], s.c) = rows
  BY Zenon DEF rows
<1> QED
  BY <1>2, <1>8, <1>11, <1>12 DEF MergeOf, Good, n

\* What a runner looks like after its labels have been replaced by its own.
LEMMA LabelsBack ==
  ASSUME NEW x \in Runner, NEW L, NEW y, y = [x EXCEPT !.labels = L]
  PROVE  [y EXCEPT !.labels = x.labels] = x /\ y.id = x.id
BY Zenon DEF Runner

\* The labels shown for a runner, key by key.
LEMMA MergedLabel ==
  ASSUME NEW t, NEW id, NEW own, NEW key \in LabelKey
  PROVE  MergeLabels(own, ExtraLabels(t, id))[key] =
           IF Live(t.meta, id) /\ t.meta[id].value[key] # Absent THEN t.meta[id].value[key] ELSE own[key]
<1>1. CASE Live(t.meta, id)
  BY <1>1 DEF MergeLabels, ExtraLabels
<1>2. CASE ~Live(t.meta, id)
  BY <1>2 DEF MergeLabels, ExtraLabels, NoLabels
<1> QED
  BY <1>1, <1>2, Zenon
=============================================================================
