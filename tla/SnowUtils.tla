----------------------------- MODULE SnowUtils -----------------------------
(***************************************************************************)
(* SnowUtils.nextId: the ids of the rows that DataBaseStore writes from    *)
(* the threads of the scheduler. nextId is one critical section of the     *)
(* class monitor; the one thing that changes while it is held is the       *)
(* system clock, which the code reads once, and again and again while it   *)
(* waits for the next millisecond.                                         *)
(*                                                                         *)
(* Times are milliseconds since twepoch, so that the -1 of lastTimestamp   *)
(* is before every reading of the clock; they stay below 2^41, where the   *)
(* shifted timestamp would reach the sign bit. The shifts and ors of       *)
(* disjoint bit fields are sums of products.                               *)
(***************************************************************************)
EXTENDS Integers

CONSTANTS
  Thread,
  SeqSize,    \* 2^sequenceBits
  NodeCount,  \* 2^(datacenterIdBits + workerIdBits)
  Node,       \* datacenterId and workerId as one field
  MaxGap,     \* bound: how far the clock runs ahead of lastTimestamp
  MaxBack,    \* bound: times the clock is set back
  MaxCall     \* bound: calls of nextId

ASSUME SeqAssumption   == SeqSize \in Nat \ {0}
ASSUME NodeAssumption  == NodeCount \in Nat \ {0} /\ Node \in 0..NodeCount-1
ASSUME BoundAssumption == MaxGap \in Nat \ {0} /\ MaxBack \in Nat /\ MaxCall \in Nat

VARIABLES
  clock,          \* System.currentTimeMillis, since twepoch
  lastTimestamp,
  sequence,
  pc,             \* each thread: out of nextId, at its monitor, in tilNextMillis
  last,           \* the id returned last, -1 before the first
  setBack,        \* times the clock was set back
  calls           \* calls so far

vars == <<clock, lastTimestamp, sequence, pc, last, setBack, calls>>
statics == <<lastTimestamp, sequence>>

TypeOK ==
  /\ clock \in Nat
  /\ lastTimestamp \in Nat \cup {-1}
  /\ sequence \in 0..SeqSize-1
  /\ pc \in [Thread -> {"out", "wait", "spin"}]
  /\ last \in Nat \cup {-1}
  /\ setBack \in 0..MaxBack
  /\ calls \in Nat

Init ==
  /\ clock = 0
  /\ lastTimestamp = -1
  /\ sequence = 0
  /\ pc = [t \in Thread |-> "out"]
  /\ last = -1
  /\ setBack = 0
  /\ calls = 0

-----------------------------------------------------------------------------
Goto(t, from, to) == pc[t] = from /\ pc' = [pc EXCEPT ![t] = to]

\* Time, node and sequence in disjoint bit fields.
Id(time, seq) == (time * NodeCount + Node) * SeqSize + seq

\* The monitor is free unless a thread waits for the clock inside it.
Enter(t) == pc[t] = "wait" /\ \A u \in Thread : pc[u] # "spin"

\* nextId returns: the statics are written and the id handed out.
Return(t, from, time, seq) ==
  /\ Goto(t, from, "out")
  /\ lastTimestamp' = time /\ sequence' = seq
  /\ last' = Id(time, seq)

Call(t) ==
  /\ calls < MaxCall /\ calls' = calls + 1
  /\ Goto(t, "out", "wait")
  /\ UNCHANGED <<clock, statics, last, setBack>>

\* The clock is behind lastTimestamp: RuntimeException, nothing changed.
Refuse(t) ==
  /\ Enter(t) /\ clock < lastTimestamp
  /\ Goto(t, "wait", "out")
  /\ UNCHANGED <<clock, statics, last, setBack, calls>>

\* Seeded fault: a wrapped sequence does not wait for the next millisecond.
SameMilli_NoWait(t) ==
  /\ Enter(t) /\ clock = lastTimestamp
  /\ Return(t, "wait", clock, (sequence + 1) % SeqSize)
  /\ UNCHANGED <<clock, setBack, calls>>

SameMilli(t) ==
  /\ Enter(t) /\ clock = lastTimestamp
  /\ sequence + 1 < SeqSize
  /\ Return(t, "wait", clock, sequence + 1)
  /\ UNCHANGED <<clock, setBack, calls>>

\* The sequence wraps to 0 and the thread waits in tilNextMillis.
Overflow(t) ==
  /\ Enter(t) /\ clock = lastTimestamp
  /\ sequence + 1 = SeqSize
  /\ Goto(t, "wait", "spin") /\ sequence' = 0
  /\ UNCHANGED <<clock, lastTimestamp, last, setBack, calls>>

\* Seeded fault: a clock that was set back is not refused.
NewMilli_AnyClock(t) ==
  /\ Enter(t) /\ clock # lastTimestamp
  /\ Return(t, "wait", clock, 0)
  /\ UNCHANGED <<clock, setBack, calls>>

NewMilli(t) ==
  /\ Enter(t) /\ clock > lastTimestamp
  /\ Return(t, "wait", clock, 0)
  /\ UNCHANGED <<clock, setBack, calls>>

\* Seeded fault: tilNextMillis waits for the very next millisecond.
NextMilli_Exact(t) ==
  /\ pc[t] = "spin" /\ clock = lastTimestamp + 1
  /\ Return(t, "spin", clock, sequence)
  /\ UNCHANGED <<clock, setBack, calls>>

\* tilNextMillis reads a later time, however far the clock went meanwhile.
NextMilli(t) ==
  /\ pc[t] = "spin" /\ clock > lastTimestamp
  /\ Return(t, "spin", clock, sequence)
  /\ UNCHANGED <<clock, setBack, calls>>

\* The system clock goes on (MaxGap caps it), or is set back to any earlier time.
Tick ==
  /\ clock' = IF clock <= lastTimestamp + MaxGap THEN clock + 1 ELSE clock
  /\ UNCHANGED <<statics, pc, last, setBack, calls>>

SetBack ==
  /\ setBack < MaxBack /\ setBack' = setBack + 1
  /\ \E time \in 0..clock : time < clock /\ clock' = time
  /\ UNCHANGED <<statics, pc, last, calls>>

-----------------------------------------------------------------------------
NextId(t) == Refuse(t) \/ SameMilli(t) \/ Overflow(t) \/ NewMilli(t) \/ NextMilli(t)

Next == \/ \E t \in Thread : Call(t) \/ NextId(t)
        \/ Tick
        \/ SetBack

\* Threads are scheduled, and time passes.
Fairness == WF_vars(Tick) /\ \A t \in Thread : WF_vars(NextId(t))

Spec == Init /\ [][Next]_vars /\ Fairness

-----------------------------------------------------------------------------
(***************************************************************************)
(* Properties                                                              *)
(***************************************************************************)

\* nextId implements an id source: whatever the threads, the wraps of the
\* sequence and the clock do, each id is greater than all returned before.
Ids == INSTANCE IdSource
SnowUtilsIsIdSource == Ids!Spec

\* Every call of nextId returns or raises, though a thread that waits for the
\* clock keeps the monitor and the clock may be set back under it.
CallsEnd == \A t \in Thread : pc[t] # "out" ~> pc[t] = "out"

(***************************************************************************)
(* The inductive invariant                                                 *)
(***************************************************************************)
Spinning == \E t \in Thread : pc[t] = "spin"

\* The last id is what the statics say; while a thread waits for the clock the
\* sequence has wrapped and the last id had the last number of its millisecond.
LastFromStatics ==
  /\ lastTimestamp = -1 => last = -1 /\ ~ Spinning
  /\ lastTimestamp # -1 =>
       last = Id(lastTimestamp, IF Spinning THEN SeqSize - 1 ELSE sequence)
  /\ Spinning => sequence = 0

\* One thread in the monitor.
OneSpins == \A t, u \in Thread : pc[t] = "spin" /\ pc[u] = "spin" => t = u

\* The inductive invariant: statics and last id agree, so the next id is greater.
IInv == TypeOK /\ LastFromStatics /\ OneSpins
=============================================================================
