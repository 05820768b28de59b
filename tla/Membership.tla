---------------------------- MODULE Membership ------------------------------
(***************************************************************************)
(* From gossip to rows: what becomes of the runner row of one node, the    *)
(* subject, when it dies.  The memberlist (external) of every other node   *)
(* forms a belief; each change of belief is a callback that puts an event  *)
(* in a channel, or drops it when the channel is full (delegate.go); the   *)
(* agent's membership handler takes the events one by one and buries the   *)
(* rows of a node that left (agent.go); meanwhile the nodes go on pulling  *)
(* the row from each other and from the subject (sync.go).                 *)
(*                                                                         *)
(* An HLC is a number here, and a pull brings the one row: how rows travel *)
(* is the subject of Replication.                                          *)
(***************************************************************************)
EXTENDS Naturals, Sequences

CONSTANTS
  Watcher,       \* the nodes that watch the subject
  Subject,       \* the node whose row this is about
  NoCopy,        \* no row
  Met,           \* the nodes that hold the subject's row at the beginning
  Cap,           \* the channel's capacity
  Wall,          \* Wall[n]: bound: readings of n's wall clock
  MaxBeat,       \* bound: heartbeats of the subject
  MaxFlaps,      \* bound: times a node takes back what it believes, or learns an update
  MaxRelaunches  \* bound: restarts of the watching nodes

ASSUME MembershipAssumption ==
  /\ Subject \notin Watcher /\ Met \subseteq Watcher
  /\ Cap \in Nat \ {0}
  /\ Wall \in [Watcher -> SUBSET Nat]
  /\ NoCopy \notin [hlc : Nat, dead : BOOLEAN]
  /\ MaxBeat \in Nat \ {0} /\ MaxFlaps \in Nat /\ MaxRelaunches \in Nat

VARIABLES
  running,   \* the subject runs
  beat,      \* the HLC of the subject's row in its own store
  copy,      \* the subject's row in each node's store
  clock,     \* each node's clock
  round,     \* a pull in progress
  belief,    \* what each memberlist believes of the subject
  channel,   \* each delegate's channel
  job,       \* the membership handler
  missed,    \* an event was dropped, or pruning after a leave failed
  flaps, relaunches

watch == <<belief, channel, flaps, missed>>
memberVars == <<running, beat, copy, clock, round, belief, channel, job, flaps, relaunches, missed>>

NoRound == [pc |-> "idle", copy |-> NoCopy]
NoJob   == [pc |-> "idle", hlc |-> 0]
Version(hlc, dead) == [hlc |-> hlc, dead |-> dead]
LiveCopy(n) == copy[n] # NoCopy /\ ~copy[n].dead
Larger(a, b) == IF a > b THEN a ELSE b

MemberInit ==
  /\ running = TRUE /\ beat = 1
  /\ copy = [n \in Watcher |-> IF n \in Met THEN Version(1, FALSE) ELSE NoCopy]
  /\ clock = [n \in Watcher |-> IF n \in Met THEN 1 ELSE 0]
  /\ round = [n \in Watcher |-> NoRound]
  /\ belief = [n \in Watcher |-> "alive"]
  /\ channel = [n \in Watcher |-> <<"join">>]
  /\ job = [n \in Watcher |-> NoJob]
  /\ flaps = 0 /\ relaunches = 0 /\ missed = FALSE

-----------------------------------------------------------------------------
(* The subject, and what the memberlists make of it. *)

Beat ==
  /\ running /\ beat < MaxBeat
  /\ beat' = beat + 1
  /\ UNCHANGED <<running, copy, clock, round, watch, job, relaunches>>

Crash ==
  /\ running
  /\ running' = FALSE
  /\ UNCHANGED <<beat, copy, clock, round, watch, job, relaunches>>

\* trySend: a full channel drops the event.
TrySend(n, e) ==
  /\ channel' = IF Len(channel[n]) < Cap THEN [channel EXCEPT ![n] = Append(@, e)] ELSE channel
  /\ missed' = (missed \/ Len(channel[n]) = Cap)

NotifyJoin(n) ==
  /\ belief[n] = "unknown" \/ (belief[n] = "dead" /\ running)
  /\ belief' = [belief EXCEPT ![n] = "alive"]
  /\ TrySend(n, "join")
  /\ UNCHANGED <<running, beat, copy, clock, round, job, flaps, relaunches>>

\* The failure detector is right in the end, and may be wrong before.
NotifyLeave(n) ==
  /\ belief[n] = "alive"
  /\ running => flaps < MaxFlaps
  /\ flaps' = IF running THEN flaps + 1 ELSE flaps
  /\ belief' = [belief EXCEPT ![n] = "dead"]
  /\ TrySend(n, "leave")
  /\ UNCHANGED <<running, beat, copy, clock, round, job, relaunches>>

NotifyUpdate(n) ==
  /\ belief[n] = "alive" /\ flaps < MaxFlaps
  /\ flaps' = flaps + 1
  /\ TrySend(n, "update")
  /\ UNCHANGED <<running, beat, copy, clock, round, belief, job, relaunches>>

-----------------------------------------------------------------------------
(* handleMembershipEvents: every event costs a Tick, a leave buries the row. *)

TakeEvent_SkipLeave(n) ==
  /\ job[n].pc = "idle" /\ channel[n] # <<>>
  /\ \E now \in Wall[n] : clock' = [clock EXCEPT ![n] = Larger(@ + 1, now)]
  /\ channel' = [channel EXCEPT ![n] = Tail(@)]
  /\ UNCHANGED <<running, beat, copy, round, belief, job, flaps, relaunches, missed>>

TakeEvent(n) ==
  /\ job[n].pc = "idle" /\ channel[n] # <<>>
  /\ \E now \in Wall[n] :
       /\ clock' = [clock EXCEPT ![n] = Larger(@ + 1, now)]
       /\ job' = [job EXCEPT ![n] = IF Head(channel[n]) = "leave"
                                    THEN [pc |-> "prune", hlc |-> clock'[n]] ELSE NoJob]
  /\ channel' = [channel EXCEPT ![n] = Tail(@)]
  /\ UNCHANGED <<running, beat, copy, round, belief, flaps, relaunches, missed>>

DeleteByNode_KeepHLC(n) ==
  /\ job[n].pc = "prune"
  /\ copy' = IF LiveCopy(n) THEN [copy EXCEPT ![n].dead = TRUE] ELSE copy
  /\ job' = [job EXCEPT ![n] = NoJob]
  /\ UNCHANGED <<running, beat, clock, round, watch, relaunches>>

\* DeleteByNode: a live row, whatever its HLC, becomes a tombstone of this HLC.
DeleteByNode(n) ==
  /\ job[n].pc = "prune"
  /\ copy' = IF LiveCopy(n) THEN [copy EXCEPT ![n] = Version(job[n].hlc, TRUE)] ELSE copy
  /\ job' = [job EXCEPT ![n] = NoJob]
  /\ UNCHANGED <<running, beat, clock, round, watch, relaunches>>

\* A deletion that fails is only logged.
PruneFails(n) ==
  /\ job[n].pc = "prune"
  /\ job' = [job EXCEPT ![n] = NoJob]
  /\ missed' = TRUE
  /\ UNCHANGED <<running, beat, copy, clock, round, belief, channel, flaps, relaunches>>

-----------------------------------------------------------------------------
(* Pulls: the answer, the merge, the clock; one at a time per node. *)

Served(src) == IF src = Subject THEN Version(beat, FALSE) ELSE copy[src]

Answer(n, src) ==
  /\ round[n].pc = "idle" /\ src # n
  /\ src = Subject => running /\ belief[n] = "alive"
  /\ src \in Watcher => copy[src] # NoCopy
  /\ round' = [round EXCEPT ![n] = [pc |-> "apply", copy |-> Served(src)]]
  /\ UNCHANGED <<running, beat, copy, clock, watch, job, relaunches>>

Apply(n) ==
  LET new == round[n].copy IN
  /\ round[n].pc = "apply"
  /\ copy' = IF copy[n] = NoCopy \/ new.hlc > copy[n].hlc THEN [copy EXCEPT ![n] = new] ELSE copy
  /\ round' = [round EXCEPT ![n].pc = "clock"]
  /\ UNCHANGED <<running, beat, clock, watch, job, relaunches>>

\* The call, or ApplyRemote, fails: the round is given up.
RoundFails(n) ==
  /\ round[n].pc = "apply"
  /\ round' = [round EXCEPT ![n] = NoRound]
  /\ UNCHANGED <<running, beat, copy, clock, watch, job, relaunches>>

UpdateClock(n) ==
  /\ round[n].pc = "clock"
  /\ clock' = [clock EXCEPT ![n] = Larger(@, round[n].copy.hlc)]
  /\ round' = [round EXCEPT ![n] = NoRound]
  /\ UNCHANGED <<running, beat, copy, watch, job, relaunches>>

\* The process dies and is started again: the store stays, the memberlist and
\* its channel do not.
Relaunch(n) ==
  /\ relaunches < MaxRelaunches
  /\ relaunches' = relaunches + 1
  /\ clock' = [clock EXCEPT ![n] = 0]
  /\ belief' = [belief EXCEPT ![n] = "unknown"]
  /\ channel' = [channel EXCEPT ![n] = <<>>]
  /\ job' = [job EXCEPT ![n] = NoJob]
  /\ round' = [round EXCEPT ![n] = NoRound]
  /\ UNCHANGED <<running, beat, copy, flaps, missed>>

MemberNext ==
  \/ Beat \/ Crash
  \/ \E n \in Watcher : \/ NotifyJoin(n) \/ NotifyLeave(n) \/ NotifyUpdate(n)
                        \/ TakeEvent(n) \/ DeleteByNode(n) \/ PruneFails(n)
                        \/ Apply(n) \/ RoundFails(n) \/ UpdateClock(n) \/ Relaunch(n)
                        \/ \E src \in Watcher \cup {Subject} : Answer(n, src)

MemberSpec == MemberInit /\ [][MemberNext]_memberVars

(* A node that has met the subject finds out that it is dead, and its        *)
(* handler goes on; rounds may come, fail or stop as they like.              *)
MemberFairness ==
  \A n \in Watcher :
    /\ WF_memberVars(NotifyLeave(n) /\ ~running)
    /\ WF_memberVars(TakeEvent(n)) /\ WF_memberVars(DeleteByNode(n))

MemberFairSpec == MemberSpec /\ MemberFairness

-----------------------------------------------------------------------------
(* Properties.  They hold where every handler reads a later time than the    *)
(* subject's last heartbeat (a subject that is wrongly believed dead and     *)
(* goes on beating past that time does come back), and the second and third  *)
(* where every watcher has met it.                                           *)

FastClocks == \A n \in Watcher : \A now \in Wall[n] : now > MaxBeat

\* A buried row stays buried: no stale copy that a peer still serves, no
\* heartbeat that was late and no restart brings it back to life (DeleteByNode
\* writes the handler's HLC, ApplyRemote keeps the higher one).
BurialIsFinal ==
  [][\A n \in Watcher : copy[n] # NoCopy /\ ~LiveCopy(n)
                        => copy'[n] # NoCopy /\ ~LiveCopy(n)']_memberVars

Doomed(n) == job[n].pc = "prune" \/ \E i \in DOMAIN channel[n] : channel[n][i] = "leave"

\* Whoever believes the node dead and still holds its live row has the burial
\* before it: in the channel or in the handler's hands.  Provided no event was
\* dropped, no pruning failed and no watching node was restarted (NotifyLeave,
\* trySend, handleMembershipEvents).
BurialIsPending ==
  ~missed /\ relaunches = 0 => \A n \in Watcher : LiveCopy(n) /\ belief[n] = "dead" => Doomed(n)

Buried == \A n \in Watcher : ~LiveCopy(n)

\* When a node dies its row is buried in every store and stays so, although
\* stale copies are still on their way: provided no event was dropped, no
\* pruning failed and no watching node was restarted. (NotifyLeave, trySend,
\* handleMembershipEvents, DeleteByNode, ApplyRemote.)
DeadNodesVanish == [](~missed /\ relaunches = 0) /\ <>(~running) => <>[]Buried
=============================================================================
