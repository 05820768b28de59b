------------------------------- MODULE Drain --------------------------------
(***************************************************************************)
(* Self-draining: internal/agent/agent.go's Start and Step over what       *)
(* internal/backend/stub reads from the host.  A reading that fails is     *)
(* reported as zero; a Put that fails leaves the old row; a restart starts *)
(* counting from nothing.                                                  *)
(***************************************************************************)
EXTENDS Naturals, Sequences

CONSTANTS
  Load,         \* the loads [cpu, mem, disk] a host may have: percent, percent, MB free
  Threshold,    \* ticks in a row that decide
  NoRow,        \* the store holds no row of this node
  MaxRestarts   \* bound: restarts

DrainAssumption ==
  /\ Load \subseteq [cpu : 0..100, mem : 0..100, disk : Nat]
  /\ Threshold \in Nat \ {0}
  /\ MaxRestarts \in Nat

VARIABLES
  host,       \* the host's load
  broken,     \* the sensors that fail
  started,    \* Start is done
  high, normal, draining,   \* the agent's fields
  row,        \* the status in the node's own row
  past,       \* history: was the reading hot, of the last Threshold ticks
  restarts

drainVars == <<host, broken, started, high, normal, draining, row, past, restarts>>

Sensor == {"cpu", "mem", "disk"}

\* isHot.
Hot(r) == r.cpu >= 90 \/ r.mem >= 90 \/ r.disk < 2000

\* Snapshot: what cannot be read is zero.
Snapshot == [s \in Sensor |-> IF s \in broken THEN 0 ELSE host[s]]

NewAgent == started' = FALSE /\ high' = 0 /\ normal' = 0 /\ draining' = FALSE /\ past' = <<>>

DrainInit ==
  /\ host \in Load /\ broken = {}
  /\ started = FALSE /\ high = 0 /\ normal = 0 /\ draining = FALSE
  /\ row = NoRow /\ past = <<>> /\ restarts = 0

\* The world: the load changes, sensors fail and recover, the daemon restarts.
LoadChanges ==
  /\ host' \in Load
  /\ UNCHANGED <<broken, started, high, normal, draining, row, past, restarts>>

SensorChanges ==
  /\ broken' \in SUBSET Sensor
  /\ UNCHANGED <<host, started, high, normal, draining, row, past, restarts>>

Restart ==
  /\ restarts < MaxRestarts
  /\ restarts' = restarts + 1
  /\ NewAgent
  /\ UNCHANGED <<host, broken, row>>

-----------------------------------------------------------------------------
\* Start: an active row, whatever the host's load; a Put that fails ends the
\* daemon, which is a restart.
Start ==
  /\ ~started
  /\ row' = "active"
  /\ started' = TRUE
  /\ UNCHANGED <<host, broken, high, normal, draining, past, restarts>>

\* The counters only matter up to the threshold.
Saturated(c) == IF c > Threshold THEN Threshold ELSE c

Remember(hot) ==
  LET t == Append(past, hot)
  IN  past' = IF Len(t) > Threshold THEN Tail(t) ELSE t

Decide ==
  draining' = IF high' >= Threshold THEN TRUE ELSE IF normal' >= Threshold THEN FALSE ELSE draining

Count(hot) ==
  /\ high' = IF hot THEN Saturated(high + 1) ELSE 0
  /\ normal' = IF hot THEN 0 ELSE Saturated(normal + 1)

Tick ==
  LET hot == Hot(Snapshot) IN
  /\ started
  /\ Count(hot) /\ Decide /\ Remember(hot)
  /\ UNCHANGED <<host, broken, started, restarts>>

\* Step writes the status it has just decided.
Step == Tick /\ row' = IF draining' THEN "draining" ELSE "active"

\* Step's Put fails: counted all the same, and logged.
StepFails == Tick /\ UNCHANGED row

DrainNext == LoadChanges \/ SensorChanges \/ Restart \/ Start \/ Step \/ StepFails

DrainSpec == DrainInit /\ [][DrainNext]_drainVars

(* The ticker goes on, and not every Put fails for ever. *)
DrainFairSpec == DrainSpec /\ WF_drainVars(Start) /\ SF_drainVars(Step)

-----------------------------------------------------------------------------
Run(ticks, hot) == Len(ticks) = Threshold /\ \A i \in 1..Threshold : ticks[i] = hot

\* The agent changes its mind only after a full run of equal readings, none of
\* them from before a restart, and after a full run it has made up its mind.
\* (Step: two counters that reset each other.)
DrainsAfterAFullRun ==
  [][ /\ draining' # draining /\ restarts' = restarts => Run(past', draining')
      /\ \A hot \in BOOLEAN : Run(past', hot) => draining' = hot ]_drainVars

\* What the others see follows: a host that stays hot is shown draining in the
\* end, one that stays normal is shown active again, once the sensors work,
\* although Puts may fail at any moment and a restart forgets the count.
StatusFollowsLoad ==
  <>[](broken = {}) =>
    /\ <>[](Hot(host)) => <>[](row = "draining")
    /\ <>[](~Hot(host)) => <>[](row = "active")
=============================================================================
