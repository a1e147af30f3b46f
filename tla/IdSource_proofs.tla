-------------------------- MODULE IdSource_proofs --------------------------
(***************************************************************************)
(* SnowUtils implements IdSource, for any number of threads, any size of   *)
(* the fields of an id and every behaviour of the clock.                   *)
(***************************************************************************)
EXTENDS SnowUtils, TLAPS

\* Multiplication by a natural number keeps a strict order, with room for one more.
LEMMA TimesGrows ==
  ASSUME NEW a \in Nat, NEW b \in Nat, NEW m \in Nat, a < b
  PROVE  a * m + m <= b * m
<1>1. PICK d \in Nat : b = a + 1 + d
  <2>1. b - a - 1 \in Nat /\ b = a + 1 + (b - a - 1)
    OBVIOUS
  <2> QED
    BY <2>1
<1>2. b * m = a * m + m + d * m
  BY <1>1
<1>3. d * m \in Nat /\ a * m \in Nat
  OBVIOUS
<1> QED
  BY <1>2, <1>3

\* An id of a later millisecond is greater, whatever the two sequence numbers.
LEMMA IdGrows ==
  ASSUME NEW t \in Nat, NEW u \in Nat, t < u,
         NEW p \in 0..SeqSize-1, NEW q \in 0..SeqSize-1
  PROVE  Id(t, p) < Id(u, q)
<1> USE SeqAssumption, NodeAssumption
<1> DEFINE a == t * NodeCount + Node
           b == u * NodeCount + Node
<1>1. t * NodeCount + NodeCount <= u * NodeCount
  BY TimesGrows
<1>2. a \in Nat /\ b \in Nat /\ a < b
  BY <1>1
<1> HIDE DEF a, b
<1>3. a * SeqSize + SeqSize <= b * SeqSize /\ a * SeqSize \in Nat /\ b * SeqSize \in Nat
  BY <1>2, TimesGrows
<1>4. a * SeqSize + p < b * SeqSize + q
  BY <1>3
<1> QED
  BY <1>4 DEF Id, a, b

\* Ids are natural numbers.
LEMMA IdNat ==
  ASSUME NEW t \in Nat, NEW p \in 0..SeqSize-1
  PROVE  Id(t, p) \in Nat
<1> DEFINE a == t * NodeCount + Node
<1>1. a \in Nat
  BY NodeAssumption
<1> HIDE DEF a
<1>2. a * SeqSize + p \in Nat
  BY <1>1, SeqAssumption
<1> QED
  BY <1>2 DEF Id, a

-----------------------------------------------------------------------------
LEMMA InitIInv == Init => IInv
BY SeqAssumption, BoundAssumption
   DEF Init, IInv, TypeOK, LastFromStatics, OneSpins, Spinning

\* A call that returns from the monitor returns a greater id, and keeps the invariant:
\* it is the only one inside.
LEMMA ReturnStep ==
  ASSUME IInv, NEW t \in Thread, NEW from \in {"wait", "spin"},
         NEW time \in Nat, NEW seq \in 0..SeqSize-1, Return(t, from, time, seq),
         \A u \in Thread : pc[u] = "spin" => u = t,
         last < Id(time, seq)
  PROVE  /\ LastFromStatics' /\ OneSpins' /\ last' \in Nat /\ last' > last
         /\ pc' \in [Thread -> {"out", "wait", "spin"}]
         /\ lastTimestamp' = time /\ sequence' = seq
<1>1. last' = Id(time, seq) /\ lastTimestamp' = time /\ sequence' = seq
  BY DEF Return
<1>2. last' \in Nat /\ last' > last
  BY <1>1, IdNat DEF IInv, TypeOK
<1>3. pc' \in [Thread -> {"out", "wait", "spin"}] /\ ~ Spinning'
  BY DEF Return, Goto, IInv, TypeOK, Spinning
<1>4. LastFromStatics' /\ OneSpins'
  BY <1>1, <1>3 DEF LastFromStatics, OneSpins, Spinning, Id
<1> QED
  BY <1>1, <1>2, <1>3, <1>4

\* The three ways to return: the next number of the millisecond, the first of a
\* later one, and the first after the wait.
LEMMA SameMilliStep ==
  ASSUME IInv, NEW t \in Thread, SameMilli(t)
  PROVE  IInv' /\ last' \in Nat /\ last' > last
<1> USE SeqAssumption DEF IInv
<1>1. /\ Return(t, "wait", clock, sequence + 1) /\ clock = lastTimestamp /\ ~ Spinning
      /\ clock \in Nat /\ sequence + 1 \in 0..SeqSize-1
      /\ UNCHANGED <<clock, setBack, calls>>
  BY DEF SameMilli, Enter, Spinning, TypeOK
<1>2. last = Id(clock, sequence)
  BY <1>1 DEF LastFromStatics
<1>3. last < Id(clock, sequence + 1)
  <2> DEFINE a == (clock * NodeCount + Node) * SeqSize
  <2>1. a \in Int
    BY <1>1, NodeAssumption
  <2>2. Id(clock, sequence) = a + sequence /\ Id(clock, sequence + 1) = a + (sequence + 1)
    BY DEF Id
  <2> HIDE DEF a
  <2> QED
    BY <1>1, <1>2, <2>1, <2>2 DEF TypeOK
<1>4. \A u \in Thread : pc[u] # "spin"
  BY <1>1 DEF Spinning
<1>5. /\ LastFromStatics' /\ OneSpins' /\ last' \in Nat /\ last' > last
      /\ pc' \in [Thread -> {"out", "wait", "spin"}]
      /\ lastTimestamp' = clock /\ sequence' = sequence + 1
  <2> HIDE DEF IInv
  <2> QED
    BY <1>1, <1>3, <1>4, ReturnStep
<1> QED
  BY <1>1, <1>5 DEF TypeOK

LEMMA LaterStep ==
  ASSUME IInv, NEW t \in Thread, NewMilli(t) \/ NextMilli(t)
  PROVE  IInv' /\ last' \in Nat /\ last' > last
<1> USE SeqAssumption DEF IInv
<1>1. PICK from \in {"wait", "spin"} : Return(t, from, clock, 0)
  BY DEF NewMilli, NextMilli, LastFromStatics, Spinning
<1>2. /\ clock > lastTimestamp /\ clock \in Nat /\ 0 \in 0..SeqSize-1
      /\ UNCHANGED <<clock, setBack, calls>>
  BY DEF NewMilli, NextMilli, TypeOK
<1>3. last < Id(clock, 0)
  <2>1. CASE lastTimestamp = -1
    BY <1>2, <2>1, IdNat DEF LastFromStatics
  <2>2. CASE lastTimestamp \in Nat
    <3>1. PICK p \in 0..SeqSize-1 : last = Id(lastTimestamp, p)
      BY <2>2 DEF LastFromStatics, TypeOK
    <3> QED
      BY <1>2, <2>2, <3>1, IdGrows
  <2> QED
    BY <2>1, <2>2 DEF TypeOK
<1>4. \A u \in Thread : pc[u] = "spin" => u = t
  BY DEF NewMilli, NextMilli, Enter, OneSpins
<1>5. /\ LastFromStatics' /\ OneSpins' /\ last' \in Nat /\ last' > last
      /\ pc' \in [Thread -> {"out", "wait", "spin"}]
      /\ lastTimestamp' = clock /\ sequence' = 0
  <2> HIDE DEF IInv
  <2> QED
    BY <1>1, <1>2, <1>3, <1>4, ReturnStep
<1> QED
  BY <1>2, <1>5 DEF TypeOK

\* The sequence wraps: the last id has the last number of its millisecond.
LEMMA OverflowStep ==
  ASSUME IInv, NEW t \in Thread, Overflow(t)
  PROVE  IInv'
<1> USE SeqAssumption DEF IInv
<1>1. TypeOK'
  BY DEF Overflow, Goto, TypeOK
<1>2. pc' = [pc EXCEPT ![t] = "spin"] /\ ~ Spinning /\ Spinning'
  BY DEF Overflow, Goto, Enter, Spinning, TypeOK
<1>3. LastFromStatics'
  <2>1. /\ sequence = SeqSize - 1 /\ sequence' = 0 /\ lastTimestamp = clock
        /\ UNCHANGED <<last, lastTimestamp>> /\ lastTimestamp # -1
    BY DEF Overflow, TypeOK
  <2> QED
    BY <1>2, <2>1 DEF LastFromStatics, Id
<1>4. OneSpins'
  BY <1>2 DEF OneSpins, Spinning, TypeOK
<1> QED
  BY <1>1, <1>3, <1>4

\* Steps outside the monitor leave the statics and the last id alone.
LEMMA OutsideStep ==
  ASSUME IInv, UNCHANGED <<statics, last>>,
         \A t \in Thread : pc'[t] = "spin" <=> pc[t] = "spin"
  PROVE  LastFromStatics' /\ OneSpins'
<1>1. Spinning' <=> Spinning
  BY DEF Spinning
<1>2. /\ lastTimestamp' = lastTimestamp /\ sequence' = sequence /\ last' = last
      /\ LastFromStatics /\ OneSpins
  BY DEF IInv, statics
<1>3. LastFromStatics'
  BY <1>1, <1>2 DEF LastFromStatics, Id
<1> QED
  BY <1>2, <1>3 DEF OneSpins

\* Every step keeps the invariant and hands out a greater id or none.
LEMMA StepIInv ==
  ASSUME IInv, [Next]_vars
  PROVE  IInv' /\ [Ids!HandOut]_last
<1> USE SeqAssumption, BoundAssumption
<1>1. ASSUME NEW t \in Thread, Call(t) PROVE IInv' /\ last' = last
  <2>1. TypeOK' /\ UNCHANGED <<statics, last>>
    BY <1>1 DEF Call, Goto, IInv, TypeOK, statics
  <2>2. \A u \in Thread : pc'[u] = "spin" <=> pc[u] = "spin"
    BY <1>1 DEF Call, Goto, IInv, TypeOK
  <2> QED
    BY <2>1, <2>2, OutsideStep DEF IInv
<1>2. ASSUME NEW t \in Thread, Refuse(t) PROVE IInv' /\ last' = last
  <2>1. TypeOK' /\ UNCHANGED <<statics, last>>
    BY <1>2 DEF Refuse, Goto, IInv, TypeOK, statics
  <2>2. \A u \in Thread : pc'[u] = "spin" <=> pc[u] = "spin"
    BY <1>2 DEF Refuse, Enter, Goto, IInv, TypeOK
  <2> QED
    BY <2>1, <2>2, OutsideStep DEF IInv
<1>3. ASSUME NEW t \in Thread, Overflow(t) PROVE IInv' /\ last' = last
  BY <1>3, OverflowStep DEF Overflow
<1>4. ASSUME NEW t \in Thread, SameMilli(t) \/ NewMilli(t) \/ NextMilli(t)
      PROVE  IInv' /\ Ids!HandOut
  BY <1>4, SameMilliStep, LaterStep DEF Ids!HandOut
<1>5. ASSUME Tick \/ SetBack PROVE IInv' /\ last' = last
  <2>1. TypeOK' /\ UNCHANGED <<statics, last, pc>>
    BY <1>5 DEF Tick, SetBack, IInv, TypeOK, statics
  <2> QED
    BY <2>1, OutsideStep DEF IInv
<1>6. CASE UNCHANGED vars
  <2>1. TypeOK' /\ UNCHANGED <<statics, last, pc>>
    BY <1>6 DEF vars, IInv, TypeOK, statics
  <2> QED
    BY <2>1, OutsideStep DEF IInv
<1> QED
  BY <1>1, <1>2, <1>3, <1>4, <1>5, <1>6 DEF Next, NextId

\* Statics and last id agree in every reachable state.
THEOREM IInvHolds == Spec => []IInv
<1>1. IInv /\ [Next]_vars => IInv'
  BY StepIInv
<1> QED
  BY <1>1, InitIInv, PTL DEF Spec

\* nextId hands out greater and greater ids, whatever the threads, the wraps of the
\* sequence and the clock do.
THEOREM SnowUtilsImplementsIdSource == Spec => SnowUtilsIsIdSource
<1>1. Init => Ids!Init
  BY DEF Init, Ids!Init
<1>2. IInv /\ [Next]_vars => [Ids!HandOut]_last
  BY StepIInv
<1> QED
  BY <1>1, <1>2, IInvHolds, PTL DEF Spec, SnowUtilsIsIdSource, Ids!Spec

=============================================================================
