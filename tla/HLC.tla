-------------------------------- MODULE HLC --------------------------------
(***************************************************************************)
(* The hybrid logical clock of internal/model/hlc.go: a timestamp is a     *)
(* wall-clock millisecond and a sequence number that breaks ties inside    *)
(* the millisecond.  A Clock holds the last timestamp it handed out or     *)
(* learnt of, so its state is itself a timestamp.  Both fields are int64   *)
(* in the code; no run of the program comes near 2^63 ticks in one         *)
(* millisecond, so they are naturals here.                                 *)
(***************************************************************************)
EXTENDS Integers

Timestamp == [ts : Nat, seq : Nat]

\* The zero HLC: a new Clock, and the watermark of a peer never pulled from.
Zero == [ts |-> 0, seq |-> 0]

\* HLC.Compare and HLC.After: lexicographic on (TS, Seq).
After(h, o) == \/ h.ts > o.ts
               \/ h.ts = o.ts /\ h.seq > o.seq

AtMost(h, o) == ~After(h, o)

Tick_NoSeq(c, now) == IF now > c.ts THEN [ts |-> now, seq |-> 0] ELSE c

\* Clock.Tick when the wall clock reads now: the wall clock may have stepped
\* back or stood still, the result may not.
Tick(c, now) == IF now > c.ts THEN [ts |-> now, seq |-> 0]
                              ELSE [ts |-> c.ts, seq |-> c.seq + 1]

Update_SeqOnly(c, o) == IF o.ts = c.ts /\ o.seq > c.seq THEN o ELSE c

\* Clock.Update: adopt o when it is ahead of the clock.
Update(c, o) == IF After(o, c) THEN o ELSE c

\* maxHLC folded over the timestamps of a batch.
Latest(S) == CHOOSE h \in S : \A o \in S : AtMost(o, h)

=============================================================================
