--------------------------- MODULE VersionProofs ----------------------------
(***************************************************************************)
(* A version names its content: the invariant behind VersionsAgree, and    *)
(* why every step keeps it.  Then: a clock covers its store, and no pull   *)
(* takes a store back.                                                     *)
(***************************************************************************)
EXTENDS StepProofs

\* The live rows of all stores and of all batches on their way.
Versions == {r \in Row : /\ r # NoRow /\ ~r.tomb
                         /\ \E n \in Node, key \in Key : \/ rows[n][key] = r
                                                         \/ \E p \in Node : round[n][p].batch[key] = r}

\* Versions agree because a writer never uses an HLC twice: what carries an
\* agent's current epoch is older than what that agent is about to write, and
\* of what a label handler wrote since the node's start nothing has the HLC
\* of a request still to be written.
VersionInv ==
  /\ \A r, s \in Versions :
       /\ r.owner = s.owner /\ r.hlc = s.hlc
       /\ r.owner.epoch > 0 \/ epoch[r.owner.node] = 1
       => r.payload = s.payload
  /\ \A r \in Versions :
       LET m == r.owner.node IN
       r.owner.epoch > 0 =>
         /\ r.owner.epoch <= epoch[m]
         /\ r.owner.epoch = epoch[m] => /\ AtMost(r.hlc, clock[m])
                                        /\ Writing(m) => After(agent[m].hlc, r.hlc)
  /\ \A r \in Versions :
       LET m == r.owner.node IN
       r.owner.epoch = 0 /\ epoch[m] = 1 =>
         /\ AtMost(r.hlc, clock[m])
         /\ \A q \in Req : api[m][q].pc = "put" => api[m][q].hlc # r.hlc
  /\ \A n \in Node : \A q, s \in Req :
       q # s /\ api[n][q].pc = "put" /\ api[n][s].pc = "put" => api[n][q].hlc # api[n][s].hlc

\* A version present after a step was present before, or one writer made it.
LEMMA VersionOrigin ==
  ASSUME TypeInv, [Next]_vars, NEW r \in Versions'
  PROVE  \/ r \in Versions
         \/ \E n \in Node, key \in Key : AgentWrites(n, key, r)
         \/ \E n \in Node, q \in Req, key \in Key : ApiWrites(n, q, key, r)
<1>1. PICK m \in Node, key \in Key : \/ rows'[m][key] = r
                                     \/ \E p \in Node : round'[m][p].batch[key] = r
  BY DEF Versions
<1>2. r \in Row /\ r # NoRow /\ ~r.tomb
  BY DEF Versions
<1>3. ASSUME NEW n \in Node, NEW p \in Node, r \in {rows[n][key], round[n][p].batch[key]}
      PROVE  r \in Versions
  BY <1>2, <1>3, Zenon DEF Versions
<1>4. CASE rows'[m][key] = r
  BY <1>2, <1>3, <1>4, RowOrigin, Zenon DEF Buries
<1>5. ASSUME NEW p \in Node, round'[m][p].batch[key] = r PROVE r \in Versions
  <2>1. r \in {round[m][p].batch[key], rows[p][key]}
    BY <1>2, <1>5, BatchOrigin, Zenon
  <2> QED
    BY <1>3, <2>1, Zenon
<1> QED
  BY <1>1, <1>4, <1>5, Zenon

\* A fleet without rows satisfies VersionInv.
LEMMA VersionInvInit == Init => VersionInv
<1> SUFFICES ASSUME Init PROVE VersionInv
  OBVIOUS
<1>1. \A n \in Node, key \in Key : rows[n][key] = NoRow
  BY DEF Init, EmptyTable
<1>2. \A n, p \in Node, key \in Key : round[n][p].batch[key] = NoRow
  BY NoRoundType DEF Init, NewRounds, RoundState, EmptyTable
<1>3. Versions = {}
  BY <1>1, <1>2 DEF Versions
<1>4. \A n \in Node : \A q \in Req : api[n][q].pc = "idle"
  BY DEF Init, NoRequest
<1> QED
  BY <1>3, <1>4, Zenon DEF VersionInv

\* An agent's Put ends the agent's write and signs it with the current epoch.
LEMMA AgentWriter ==
  ASSUME TypeInv, NEW n \in Node, NEW key, NEW r, AgentWrites(n, key, r)
  PROVE  /\ UNCHANGED <<epoch, clock>> /\ Writing(n) /\ ~Writing(n)'
         /\ r.owner.node = n /\ r.owner.epoch = epoch[n] /\ r.owner.epoch > 0
<1>0. epoch[n] \in Nat \ {0} /\ agent \in [Node -> AgentState]
  BY DEF TypeInv, TypeOK
<1>1. UNCHANGED <<epoch, clock>> /\ Writing(n) /\ ~Writing(n)'
  BY <1>0 DEF AgentWrites, StartPut, StepPut, Writing, AgentState
<1>2. r.owner.node = n /\ r.owner.epoch = epoch[n]
  BY DEF AgentWrites, AgentOwner
<1> QED
  BY <1>0, <1>1, <1>2

\* A label PUT ends its own request only, and signs without an epoch.
LEMMA ApiWriter ==
  ASSUME TypeInv, NEW n \in Node, NEW q \in Req, NEW key, NEW r, ApiWrites(n, q, key, r)
  PROVE  /\ UNCHANGED <<epoch, clock>>
         /\ api[n][q].pc = "put" /\ api'[n][q].pc = "idle"
         /\ \A s \in Req \ {q} : api'[n][s] = api[n][s]
         /\ r.owner.node = n /\ r.owner.epoch = 0
<1>0. api \in [Node -> [Req -> RequestState]]
  BY DEF TypeInv, TypeOK
<1> QED
  BY <1>0 DEF ApiWrites, PutLabels, ApiOwner, NoRequest

\* Every step keeps VersionInv.
LEMMA VersionInvStep ==
  ASSUME TypeInv, TypeInv', LatestInv, PendingInv, VersionInv, [Next]_vars
  PROVE  VersionInv'
<1>0. PendingInv'
  BY PendingInvStep
<1>1. \A m \in Node : /\ clock[m] \in Timestamp /\ clock'[m] \in Timestamp
                      /\ epoch[m] \in Nat \ {0} /\ epoch'[m] \in Nat \ {0}
                      /\ agent[m].hlc \in Timestamp /\ agent'[m].hlc \in Timestamp
                      /\ \A q \in Req : api[m][q].hlc \in Timestamp /\ api'[m][q].hlc \in Timestamp
  <2>1. \A m \in Node : /\ clock[m] \in Timestamp /\ epoch[m] \in Nat \ {0}
                        /\ agent[m].hlc \in Timestamp /\ \A q \in Req : api[m][q].hlc \in Timestamp
    BY DEF TypeInv, TypeOK, AgentState, RequestState
  <2>2. \A m \in Node : /\ clock'[m] \in Timestamp /\ epoch'[m] \in Nat \ {0}
                        /\ agent'[m].hlc \in Timestamp /\ \A q \in Req : api'[m][q].hlc \in Timestamp
    BY <1>0 DEF TypeInv, TypeOK, AgentState, RequestState
  <2> QED
    BY <2>1, <2>2, Zenon
<1>2. \A m \in Node : epoch'[m] \in {epoch[m], epoch[m] + 1}
  BY LocalStep, Zenon
<1>3. ASSUME NEW r \in Versions', NEW s \in Versions',
             r.owner = s.owner, r.hlc = s.hlc,
             r.owner.epoch > 0 \/ epoch'[r.owner.node] = 1
      PROVE  r.payload = s.payload
  <2> DEFINE m == r.owner.node
  <2>1. m \in Node /\ r.hlc \in Timestamp /\ s.hlc \in Timestamp
    BY Zenon DEF Versions, Row, Owner
  <2>2. r.owner.epoch > 0 \/ epoch[m] = 1
    BY <1>1, <1>2, <1>3, <2>1
  <2>3. ASSUME NEW u \in Versions, NEW n \in Node, NEW key \in Key, NEW v, AgentWrites(n, key, v)
        PROVE  u.owner # v.owner \/ u.hlc # v.hlc
    <3>1. SUFFICES ASSUME u.owner = v.owner, u.hlc = v.hlc PROVE FALSE
      OBVIOUS
    <3>2. u.owner.node = n /\ u.owner.epoch = epoch[n] /\ u.owner.epoch > 0 /\ Writing(n)
      BY <2>3, <3>1, AgentWriter
    <3>3. After(agent[n].hlc, u.hlc)
      BY <3>2, Zenon DEF VersionInv
    <3>4. u.hlc = agent[n].hlc
      BY <2>3, <3>1 DEF AgentWrites
    <3> QED
      BY <1>1, <3>3, <3>4 DEF After, Timestamp
  <2>4. ASSUME NEW u \in Versions, NEW n \in Node, NEW q \in Req, NEW key \in Key, NEW v,
               ApiWrites(n, q, key, v), epoch[n] = 1
        PROVE  u.owner # v.owner \/ u.hlc # v.hlc
    <3>1. SUFFICES ASSUME u.owner = v.owner, u.hlc = v.hlc PROVE FALSE
      OBVIOUS
    <3>2. u.owner.node = n /\ u.owner.epoch = 0 /\ api[n][q].pc = "put"
      BY <2>4, <3>1, ApiWriter
    <3>3. api[n][q].hlc # u.hlc
      BY <2>4, <3>2, Zenon DEF VersionInv
    <3> QED
      BY <2>4, <3>1, <3>3, Zenon DEF ApiWrites
  <2>5. CASE r \in Versions /\ s \in Versions
    BY <1>3, <2>2, <2>5, Zenon DEF VersionInv
  <2>6. ASSUME NEW n \in Node, NEW key \in Key, AgentWrites(n, key, r) PROVE r = s
    <3>1. s \notin Versions
      BY <1>3, <2>3, <2>6
    <3>2. r.owner.node = n /\ r.owner.epoch > 0
      BY <2>6, AgentWriter
    <3>3. PICK o \in Node, k \in Key : AgentWrites(o, k, s) \/ \E q \in Req : ApiWrites(o, q, k, s)
      BY <3>1, VersionOrigin
    <3>4. AgentWrites(o, k, s) /\ o = n
      BY <1>3, <3>2, <3>3, AgentWriter, ApiWriter
    <3> QED
      BY <2>6, <3>4, Zenon DEF AgentWrites
  <2>7. ASSUME NEW n \in Node, NEW q \in Req, NEW key \in Key, ApiWrites(n, q, key, r) PROVE r = s
    <3>1. r.owner.node = n /\ r.owner.epoch = 0 /\ api[n][q].pc = "put"
      BY <2>7, ApiWriter
    <3>2. epoch[n] = 1
      BY <2>2, <3>1
    <3>3. s \notin Versions
      BY <1>3, <2>4, <2>7, <3>2
    <3>4. PICK o \in Node, k \in Key : AgentWrites(o, k, s) \/ \E z \in Req : ApiWrites(o, z, k, s)
      BY <3>3, VersionOrigin
    <3>5. PICK z \in Req : ApiWrites(o, z, k, s)
      BY <1>3, <3>1, <3>4, AgentWriter, ApiWriter
    <3>6. o = n /\ api[n][z].pc = "put"
      BY <1>3, <3>1, <3>5, ApiWriter
    <3>7. api[n][q].hlc = api[n][z].hlc
      BY <1>3, <2>7, <3>5, <3>6, Zenon DEF ApiWrites
    <3>8. q = z
      BY <3>1, <3>6, <3>7, Zenon DEF VersionInv
    <3> QED
      BY <2>7, <3>5, <3>6, <3>8, Zenon DEF ApiWrites
  <2>8. CASE r \in Versions
    <3>1. ASSUME NEW n \in Node, NEW key \in Key, AgentWrites(n, key, s) PROVE FALSE
      BY <1>3, <2>3, <2>8, <3>1
    <3>2. ASSUME NEW n \in Node, NEW q \in Req, NEW key \in Key, ApiWrites(n, q, key, s) PROVE FALSE
      <4>1. s.owner.node = n /\ s.owner.epoch = 0
        BY <3>2, ApiWriter
      <4>2. epoch[n] = 1
        BY <1>3, <2>2, <4>1
      <4> QED
        BY <1>3, <2>4, <2>8, <3>2, <4>2
    <3> QED
      BY <2>5, <2>8, <3>1, <3>2, VersionOrigin
  <2> QED
    BY <2>6, <2>7, <2>8, VersionOrigin
<1>4. ASSUME NEW r \in Versions', r.owner.epoch > 0
      PROVE  LET m == r.owner.node IN
             /\ r.owner.epoch <= epoch'[m]
             /\ r.owner.epoch = epoch'[m] => /\ AtMost(r.hlc, clock'[m])
                                             /\ Writing(m)' => After(agent'[m].hlc, r.hlc)
  <2> DEFINE m == r.owner.node
  <2>1. m \in Node /\ r.hlc \in Timestamp /\ r.owner.epoch \in Nat
    BY DEF Versions, Row, Owner
  <2> HIDE DEF m
  <2>2. CASE r \in Versions
    <3>1. /\ r.owner.epoch <= epoch[m]
          /\ r.owner.epoch = epoch[m] => /\ AtMost(r.hlc, clock[m])
                                         /\ Writing(m) => After(agent[m].hlc, r.hlc)
      BY <1>4, <2>2, Zenon DEF VersionInv, m
    <3>2. r.owner.epoch <= epoch'[m]
      BY <1>1, <1>2, <2>1, <3>1
    <3>3. ASSUME r.owner.epoch = epoch'[m]
          PROVE  AtMost(r.hlc, clock'[m]) /\ (Writing(m)' => After(agent'[m].hlc, r.hlc))
      <4>1. epoch'[m] = epoch[m] /\ AtMost(clock[m], clock'[m])
        BY <1>1, <2>1, <3>1, <3>3, LocalStep
      <4>2. AtMost(r.hlc, clock[m])
        BY <3>1, <3>3, <4>1
      <4>3. AtMost(r.hlc, clock'[m])
        BY <1>1, <2>1, <4>1, <4>2, AtMostFacts, Zenon
      <4>4. ASSUME Writing(m)' PROVE After(agent'[m].hlc, r.hlc)
        <5>1. CASE agent'[m] = agent[m]
          BY <3>1, <3>3, <4>1, <4>4, <5>1 DEF Writing
        <5>2. CASE After(agent'[m].hlc, clock[m])
          BY <1>1, <2>1, <4>2, <5>2, AtMostFacts, Zenon
        <5> QED
          BY <2>1, <4>4, <5>1, <5>2, LocalStep, Zenon
      <4> QED
        BY <4>3, <4>4
    <3> QED
      BY <3>2, <3>3, Zenon DEF m
  <2>3. ASSUME NEW n \in Node, NEW key \in Key, AgentWrites(n, key, r)
        PROVE  /\ r.owner.epoch <= epoch'[m]
               /\ AtMost(r.hlc, clock'[m]) /\ ~Writing(m)'
    <3>1. m = n /\ r.owner.epoch = epoch[n] /\ UNCHANGED <<epoch, clock>> /\ ~Writing(n)'
      BY <2>3, AgentWriter DEF m
    <3>2. AtMost(r.hlc, clock[n])
      BY <2>3, Zenon DEF AgentWrites, PendingInv
    <3> QED
      BY <1>1, <3>1, <3>2
  <2>4. ASSUME NEW n \in Node, NEW q \in Req, NEW key \in Key, ApiWrites(n, q, key, r) PROVE FALSE
    BY <1>4, <2>4, ApiWriter
  <2> QED
    BY <2>2, <2>3, <2>4, VersionOrigin, Zenon DEF m
<1>5. ASSUME NEW r \in Versions', r.owner.epoch = 0, epoch'[r.owner.node] = 1
      PROVE  LET m == r.owner.node IN
             /\ AtMost(r.hlc, clock'[m])
             /\ \A q \in Req : api'[m][q].pc = "put" => api'[m][q].hlc # r.hlc
  <2> DEFINE m == r.owner.node
  <2>1. m \in Node /\ r.hlc \in Timestamp /\ r.owner.epoch \in Nat
    BY DEF Versions, Row, Owner
  <2>2. epoch[m] = 1 /\ AtMost(clock[m], clock'[m])
    BY <1>1, <1>5, <2>1, LocalStep
  <2> HIDE DEF m
  <2>3. CASE r \in Versions
    <3>1. /\ AtMost(r.hlc, clock[m])
          /\ \A q \in Req : api[m][q].pc = "put" => api[m][q].hlc # r.hlc
      BY <1>5, <2>2, <2>3, Zenon DEF VersionInv, m
    <3>2. AtMost(r.hlc, clock'[m])
      BY <1>1, <2>1, <2>2, <3>1, AtMostFacts, Zenon
    <3>3. ASSUME NEW q \in Req, api'[m][q].pc = "put" PROVE api'[m][q].hlc # r.hlc
      <4>1. CASE api'[m][q] = api[m][q]
        BY <3>1, <3>3, <4>1, Zenon
      <4>2. CASE After(api'[m][q].hlc, clock[m])
        BY <3>1, <4>2, Zenon DEF AtMost
      <4> QED
        BY <2>1, <3>3, <4>1, <4>2, LocalStep, Zenon
    <3> QED
      BY <3>2, <3>3, Zenon DEF m
  <2>4. ASSUME NEW n \in Node, NEW key \in Key, AgentWrites(n, key, r) PROVE FALSE
    BY <1>5, <2>4, AgentWriter
  <2>5. ASSUME NEW n \in Node, NEW q \in Req, NEW key \in Key, ApiWrites(n, q, key, r)
        PROVE  /\ AtMost(r.hlc, clock'[m])
               /\ \A s \in Req : api'[m][s].pc = "put" => api'[m][s].hlc # r.hlc
    <3>1. /\ m = n /\ UNCHANGED clock /\ api[n][q].pc = "put" /\ api'[n][q].pc = "idle"
          /\ \A s \in Req \ {q} : api'[n][s] = api[n][s]
      BY <2>5, ApiWriter DEF m
    <3>2. r.hlc = api[n][q].hlc
      BY <2>5, Zenon DEF ApiWrites
    <3>3. AtMost(r.hlc, clock'[m])
      BY <3>1, <3>2, Zenon DEF PendingInv
    <3> QED
      BY <3>1, <3>2, <3>3 DEF VersionInv
  <2> QED
    BY <2>3, <2>4, <2>5, VersionOrigin, Zenon DEF m
<1>6. ASSUME NEW n \in Node, NEW q \in Req, NEW s \in Req, q # s,
             api'[n][q].pc = "put", api'[n][s].pc = "put"
      PROVE  api'[n][q].hlc # api'[n][s].hlc
  <2>1. CASE api'[n][q] = api[n][q] /\ api'[n][s] = api[n][s]
    BY <1>6, <2>1 DEF VersionInv
  <2>2. ASSUME NEW x \in {q, s}, After(api'[n][x].hlc, clock[n]),
               \A z \in Req \ {x} : api'[n][z] = api[n][z]
        PROVE  api'[n][q].hlc # api'[n][s].hlc
    <3>1. \A z \in Req \ {x} : AtMost(api'[n][z].hlc, clock[n])
      BY <2>2, Zenon DEF PendingInv
    <3> QED
      BY <1>6, <2>2, <3>1, Zenon DEF AtMost
  <2> QED
    BY <1>6, <2>1, <2>2, LocalStep
<1> QED
  BY <1>3, <1>4, <1>5, <1>6 DEF VersionInv

-----------------------------------------------------------------------------

\* Of what a node holds in its first life, all that is above its clock came
\* with a batch whose clock update is still to come.
Covered(n, h) ==
  \/ AtMost(h, clock[n])
  \/ \E p \in Node : /\ round[n][p].pc = "updateRows"
                     /\ \E key \in KeysOf(round[n][p].batch) : AtMost(h, round[n][p].batch[key].hlc)

CoverInv ==
  \A n \in Node : epoch[n] = 1 => \A key \in KeysOf(rows[n]) : Covered(n, rows[n][key].hlc)

\* Only the clock update, or a crash, ends the time between the two.
LEMMA UpdateRowsStays ==
  ASSUME TypeInv, [Next]_vars, NEW m \in Node, NEW o \in Node, round[m][o].pc = "updateRows"
  PROVE  round'[m][o] = round[m][o] \/ UpdateFromRows(m, o) \/ Restart(m)
<1>0. round \in [Node -> [Node -> RoundState]]
  BY DEF TypeInv, TypeOK
<1>1. CASE UNCHANGED vars
  BY <1>1 DEF vars
<1>2. CASE Next
  <2>1. PICK n \in Node : \/ AgentStep(n) \/ MemberStep(n) \/ EngineStep(n) \/ Restart(n)
                          \/ \E q \in Req : ApiStep(n, q)
                          \/ \E p \in Node : PullStep(n, p) \/ RoundFails(n, p)
    BY <1>2, NextCases
  <2>2. CASE AgentStep(n) \/ MemberStep(n) \/ \E q \in Req : ApiStep(n, q)
    BY <2>2, AgentFrame, MemberFrame, ApiFrame, Zenon
  <2>3. CASE EngineStep(n)
    <3>1. RoundAll(n) \/ UNCHANGED round
      BY <2>3, EngineFrame, Zenon
    <3>2. ASSUME RoundAll(n) PROVE round'[m] = round[m]
      <4>1. round[n][o].pc \in {"done", "failed"} /\ round' = [round EXCEPT ![n] = NewRounds(n)]
        BY <3>2, Zenon DEF RoundAll, AllReturned
      <4>2. m # n
        BY <4>1
      <4> QED
        BY <1>0, <4>1, <4>2, Zenon
    <3> QED
      BY <3>1, <3>2, Zenon
  <2>4. CASE Restart(n)
    BY <1>0, <2>4, Zenon DEF Restart
  <2>5. ASSUME NEW p \in Node, PullStep(n, p) \/ RoundFails(n, p)
        PROVE  round'[m][o] = round[m][o] \/ UpdateFromRows(m, o)
    <3>1. CASE m = n /\ o = p
      BY <2>5, <3>1, Zenon DEF PullStep, SendPull, ServePull, ApplyRows, ApplyLog, SetEventWatermark,
                        UpdateFromEvents, RoundFails
    <3>2. CASE ~(m = n /\ o = p)
      BY <2>5, <3>2, PullBatch
    <3> QED
      BY <3>1, <3>2
  <2> QED
    BY <2>1, <2>2, <2>3, <2>4, <2>5, Zenon
<1> QED
  BY <1>1, <1>2

\* Every step keeps CoverInv: local writes use an HLC at or below the clock, and
\* the rows of a pull stay in the batch until clock.Update has seen them.
LEMMA CoverInvStep ==
  ASSUME TypeInv, TypeInv', LatestInv, PendingInv, CoverInv, [Next]_vars
  PROVE  CoverInv'
<1> DEFINE CoveredNext(n, h) ==
             \/ AtMost(h, clock'[n])
             \/ \E p \in Node :
                  /\ round'[n][p].pc = "updateRows"
                  /\ \E k \in KeysOf(round'[n][p].batch) : AtMost(h, round'[n][p].batch[k].hlc)
<1> SUFFICES ASSUME NEW m \in Node, epoch'[m] = 1, NEW key \in KeysOf(rows'[m])
             PROVE  CoveredNext(m, rows'[m][key].hlc)
  BY Zenon DEF CoverInv, Covered
<1> DEFINE r == rows'[m][key]
<1>1. /\ key \in Key /\ r # NoRow /\ r \in Row /\ r.hlc \in Timestamp
      /\ clock[m] \in Timestamp /\ clock'[m] \in Timestamp
      /\ epoch[m] \in Nat \ {0} /\ epoch'[m] \in Nat \ {0}
  <2>1. key \in Key /\ r # NoRow
    BY DEF KeysOf
  <2>2. r \in Row /\ clock'[m] \in Timestamp /\ epoch'[m] \in Nat \ {0}
    BY <2>1 DEF TypeInv, TypeOK, Table
  <2>3. clock[m] \in Timestamp /\ epoch[m] \in Nat \ {0}
    BY Zenon DEF TypeInv, TypeOK
  <2> QED
    BY <2>1, <2>2, <2>3, Zenon DEF Row
<1>2. epoch[m] = 1 /\ AtMost(clock[m], clock'[m])
  BY <1>1, LocalStep
<1> HIDE DEF r, CoveredNext
<1>3. ASSUME AtMost(r.hlc, clock[m]) PROVE CoveredNext(m, r.hlc)
  BY <1>1, <1>2, <1>3, AtMostFacts, Zenon DEF CoveredNext
<1>4. CASE r = rows[m][key]
  <2>1. Covered(m, r.hlc)
    BY <1>1, <1>2, <1>4, Zenon DEF CoverInv, KeysOf
  <2>2. ASSUME NEW p \in Node, round[m][p].pc = "updateRows", NEW k \in KeysOf(round[m][p].batch),
               AtMost(r.hlc, round[m][p].batch[k].hlc)
        PROVE  CoveredNext(m, r.hlc)
    <3>1. CASE round'[m][p] = round[m][p]
      BY <2>2, <3>1, Zenon DEF CoveredNext
    <3>2. CASE UpdateFromRows(m, p)
      <4> DEFINE S == HLCs(round[m][p].batch, Kind)
      <4>1. Latest(S) \in Timestamp /\ \A h \in S : AtMost(h, Latest(S))
        BY <2>2, Zenon DEF LatestInv
      <4>2. round[m][p].batch[k].hlc \in S
        BY <2>2, Zenon DEF HLCs, KeysOf, Key
      <4>3. round[m][p].batch \in Table
        BY DEF TypeInv, TypeOK, RoundState
      <4>4. S \subseteq Timestamp
        BY <4>3, HLCsType, Zenon
      <4>5. clock'[m] = Update(clock[m], Latest(S))
        BY <3>2, Zenon DEF UpdateFromRows, TypeInv, TypeOK
      <4> HIDE DEF S
      <4>6. AtMost(Latest(S), clock'[m])
        BY <1>1, <4>1, <4>5, UpdateIsJoin, Zenon
      <4>7. AtMost(r.hlc, Latest(S))
        BY <1>1, <2>2, <4>1, <4>2, <4>4, AtMostFacts
      <4>8. AtMost(r.hlc, clock'[m])
        BY <1>1, <4>1, <4>6, <4>7, AtMostFacts, Zenon
      <4> QED
        BY <4>8 DEF CoveredNext
    <3>3. ~Restart(m)
      BY <1>1, <1>2 DEF Restart, TypeInv, TypeOK
    <3> QED
      BY <2>2, <3>1, <3>2, <3>3, UpdateRowsStays, Zenon
  <2> QED
    BY <1>3, <2>1, <2>2, Zenon DEF Covered, r
<1>5. ASSUME NEW p \in Node, ApplyRows(m, p), r = round[m][p].batch[key] PROVE CoveredNext(m, r.hlc)
  <2>1. round'[m][p].pc = "updateRows" /\ round'[m][p].batch = round[m][p].batch
    BY <1>5, PullBatch, Zenon DEF PullStep
  <2>2. key \in KeysOf(round'[m][p].batch) /\ AtMost(r.hlc, round'[m][p].batch[key].hlc)
    BY <1>1, <1>5, <2>1, AtMostFacts, ZenonT(30) DEF KeysOf
  <2> QED
    BY <2>1, <2>2, Zenon DEF CoveredNext
<1>6. CASE AgentWrites(m, key, r) \/ (\E q \in Req : ApiWrites(m, q, key, r)) \/ Buries(m, r)
  <2>1. AtMost(r.hlc, clock[m])
    BY <1>6, Zenon DEF AgentWrites, ApiWrites, Buries, PendingInv
  <2> QED
    BY <1>3, <2>1, Zenon DEF r
<1> QED
  BY <1>1, <1>4, <1>5, <1>6, RowOrigin, ZenonT(30) DEF r

\* No step that changes a node's pulls drops one of its rows or takes it back.
LEMMA PullStepKeeps ==
  ASSUME TypeInv, [Next]_vars, NEW m \in Node, NEW key \in Key,
         \A o, p \in Owner : ~(OwnerAbove(o, p) /\ OwnerAbove(p, o))
  PROVE  round'[m] # round[m] /\ rows[m][key] # NoRow
           => rows'[m][key] # NoRow /\ ~Newer(rows[m][key], rows'[m][key])
<1> DEFINE Keeps == round'[m] # round[m] /\ rows[m][key] # NoRow
                      => rows'[m][key] # NoRow /\ ~Newer(rows[m][key], rows'[m][key])
<1>0. /\ rows \in [Node -> Table] /\ rows[m] \in Table
      /\ \A r \in Row : ~Newer(r, r)
  <2>1. \A r \in Row : r.owner \in Owner /\ r.hlc \in Timestamp
    BY DEF Row
  <2>2. \A r \in Row : ~Newer(r, r)
    BY <2>1, AtMostFacts, Zenon DEF Newer, AtMost
  <2> QED
    BY <2>2 DEF TypeInv, TypeOK
<1>1. ASSUME rows'[m] = rows[m] PROVE Keeps
  BY <1>0, <1>1 DEF Table
<1>2. ASSUME round'[m] = round[m] PROVE Keeps
  BY <1>2
<1> HIDE DEF Keeps
<1>3. ASSUME UNCHANGED vars PROVE Keeps
  BY <1>2, <1>3 DEF vars
<1>4. ASSUME Next PROVE Keeps
  <2>1. PICK n \in Node : \/ AgentStep(n) \/ MemberStep(n) \/ EngineStep(n) \/ Restart(n)
                          \/ \E q \in Req : ApiStep(n, q)
                          \/ \E p \in Node : PullStep(n, p) \/ RoundFails(n, p)
    BY <1>4, NextCases
  <2>2. CASE AgentStep(n) \/ MemberStep(n) \/ \E q \in Req : ApiStep(n, q)
    <3>1. UNCHANGED round
      BY <2>2, AgentFrame, MemberFrame, ApiFrame, Zenon
    <3> QED
      BY <1>2, <3>1
  <2>3. CASE EngineStep(n) \/ Restart(n)
    <3>1. UNCHANGED rows \/ UNCHANGED round
      BY <2>3, EngineFrame, Zenon DEF GC, Restart, durable
    <3> QED
      BY <1>1, <1>2, <3>1
  <2>4. ASSUME NEW p \in Node, PullStep(n, p) \/ RoundFails(n, p) PROVE Keeps
    <3>1. CASE ApplyRows(n, p) /\ n = m
      <4>1. round[n][p].batch \in Table
        BY DEF TypeInv, TypeOK, RoundState
      <4>2. rows'[m] = ApplyRemote(rows[m], round[n][p].batch)
        BY <1>0, <3>1, Zenon DEF ApplyRows
      <4> QED
        BY <1>0, <4>1, <4>2, ApplyRemoteIsJoin DEF Keeps
    <3>2. CASE ~(ApplyRows(n, p) /\ n = m)
      <4>1. rows'[m] = rows[m]
        <5>1. UNCHANGED rows \/ (ApplyRows(n, p) /\ n # m)
          BY <2>4, <3>2, PullFrame
        <5> QED
          BY <1>0, <5>1, Zenon DEF ApplyRows
      <4> QED
        BY <1>1, <4>1
    <3> QED
      BY <3>1, <3>2
  <2> QED
    BY <2>1, <2>2, <2>3, <2>4
<1> QED
  BY <1>3, <1>4, Zenon DEF Keeps

=============================================================================
