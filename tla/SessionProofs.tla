--------------------------- MODULE SessionProofs ----------------------------
(***************************************************************************)
(* Proofs about the ring buffer, the message buffer that is built on it,   *)
(* and the session that fills it.                                          *)
(***************************************************************************)
EXTENDS Session, FilterTheorems, FiniteSetTheorems, SequenceTheorems, TLAPS

(***************************************************************************)
(* The ring buffer is type correct, keeps its window in order, and         *)
(* implements the bounded queue, for every capacity.                       *)
(***************************************************************************)
\* The index k places after h on the circle.
Pos(h, k) == (h + k) % Capacity

\* Wrapping around the circle subtracts the capacity at most once.
LEMMA Wrap ==
    ASSUME NEW i \in Nat, i < 2 * Capacity
    PROVE  i % Capacity = IF i < Capacity THEN i ELSE i - Capacity
<1>. DEFINE N == Capacity
<1>1. N \in Nat \ {0}
  BY CapacityAssumption
<1>2. CASE i < N
  BY <1>1, <1>2
<1>3. CASE i >= N
  <2>1. i = (i - N) + N * 1
    BY <1>1
  <2>2. (i - N) \in 0 .. N - 1
    BY <1>1, <1>3
  <2>. QED
    BY <1>1, <1>3, <2>1, <2>2
<1>. QED
  BY <1>1, <1>2, <1>3

\* Positions on the circle without the modulus.
LEMMA PosValue ==
    ASSUME NEW h \in Index, NEW k \in 0 .. Capacity
    PROVE  /\ Pos(h, k) = IF h + k < Capacity THEN h + k ELSE h + k - Capacity
           /\ Pos(h, k) \in Index
<1>1. h + k \in Nat /\ h + k < 2 * Capacity
  BY CapacityAssumption DEF Index
<1>2. (h + k) % Capacity = IF h + k < Capacity THEN h + k ELSE (h + k) - Capacity
  BY <1>1, Wrap
<1>. QED
  BY <1>1, <1>2, CapacityAssumption DEF Pos, Index

\* Succ moves one place on, from an index or from a position.
LEMMA SuccPos ==
    ASSUME NEW h \in Index
    PROVE  /\ Succ(h) \in Index
           /\ \A k \in 0 .. Capacity - 1 : /\ Succ(Pos(h, k)) = Pos(h, k + 1)
                                           /\ Pos(Succ(h), k) = Pos(h, k + 1)
<1>1. 1 \in 0 .. Capacity
  BY CapacityAssumption
<1>2. \A i \in Index : Succ(i) = Pos(i, 1)
  BY DEF Succ, Pos
<1>3. \A i \in Index : Succ(i) \in Index /\ Succ(i) = IF i + 1 < Capacity THEN i + 1 ELSE 0
  <2>. SUFFICES ASSUME NEW i \in Index
                PROVE  Succ(i) \in Index /\ Succ(i) = IF i + 1 < Capacity THEN i + 1 ELSE 0
    OBVIOUS
  <2>1. /\ Pos(i, 1) = IF i + 1 < Capacity THEN i + 1 ELSE i + 1 - Capacity
        /\ Pos(i, 1) \in Index
    BY <1>1, PosValue
  <2>. QED
    BY <1>2, <2>1, CapacityAssumption DEF Index
<1>4. ASSUME NEW k \in 0 .. Capacity - 1
      PROVE  Succ(Pos(h, k)) = Pos(h, k + 1) /\ Pos(Succ(h), k) = Pos(h, k + 1)
  <2>1. k \in 0 .. Capacity /\ k + 1 \in 0 .. Capacity
    BY CapacityAssumption
  <2>2. /\ Pos(h, k) = IF h + k < Capacity THEN h + k ELSE h + k - Capacity
        /\ Pos(h, k) \in Index
    BY <2>1, PosValue
  <2>3. Pos(h, k + 1) = IF h + (k + 1) < Capacity THEN h + (k + 1)
                                                  ELSE h + (k + 1) - Capacity
    BY <2>1, PosValue
  <2>4. /\ Succ(h) \in Index
        /\ Succ(h) = IF h + 1 < Capacity THEN h + 1 ELSE 0
    BY <1>3
  <2>5. Pos(Succ(h), k) = IF Succ(h) + k < Capacity THEN Succ(h) + k
                                                    ELSE Succ(h) + k - Capacity
    BY <2>1, <2>4, PosValue
  <2>6. Succ(Pos(h, k)) = IF Pos(h, k) + 1 < Capacity THEN Pos(h, k) + 1 ELSE 0
    BY <1>3, <2>2
  <2>7. Succ(Pos(h, k)) = Pos(h, k + 1)
    BY <2>2, <2>3, <2>6, CapacityAssumption DEF Index
  <2>8. Pos(Succ(h), k) = Pos(h, k + 1)
    BY <2>3, <2>4, <2>5, CapacityAssumption DEF Index
  <2>. QED
    BY <2>7, <2>8
<1>. QED
  BY <1>3, <1>4

\* A full turn comes back to where it started.
LEMMA FullTurn ==
    ASSUME NEW h \in Index
    PROVE  Pos(h, 0) = h /\ Pos(h, Capacity) = h
<1>1. 0 \in 0 .. Capacity /\ Capacity \in 0 .. Capacity
  BY CapacityAssumption
<1>2. /\ Pos(h, 0) = IF h + 0 < Capacity THEN h + 0 ELSE h + 0 - Capacity
      /\ Pos(h, Capacity) = IF h + Capacity < Capacity THEN h + Capacity
                                                       ELSE h + Capacity - Capacity
  BY <1>1, PosValue
<1>. QED
  BY <1>2, CapacityAssumption DEF Index

\* Different places are different slots, and every slot has a place.
LEMMA PosBijective ==
    ASSUME NEW h \in Index
    PROVE  /\ \A j, k \in 0 .. Capacity - 1 : Pos(h, j) = Pos(h, k) => j = k
           /\ \A i \in Index : \E k \in 0 .. Capacity - 1 : i = Pos(h, k)
<1>1. \A k \in 0 .. Capacity - 1 :
          Pos(h, k) = IF h + k < Capacity THEN h + k ELSE h + k - Capacity
  BY PosValue, CapacityAssumption
<1>2. \A j, k \in 0 .. Capacity - 1 : Pos(h, j) = Pos(h, k) => j = k
  BY <1>1, CapacityAssumption DEF Index
<1>3. ASSUME NEW i \in Index PROVE \E k \in 0 .. Capacity - 1 : i = Pos(h, k)
  <2>. DEFINE k == IF i >= h THEN i - h ELSE i - h + Capacity
  <2>1. k \in 0 .. Capacity - 1
    BY CapacityAssumption DEF Index
  <2>2. Pos(h, k) = IF h + k < Capacity THEN h + k ELSE h + k - Capacity
    BY <1>1, <2>1
  <2>3. i = Pos(h, k)
    BY <2>1, <2>2, CapacityAssumption DEF Index
  <2>. QED
    BY <2>1, <2>3
<1>. QED
  BY <1>2, <1>3
-----------------------------------------------------------------------------
LEMMA RingTypeStep == RingTypeOK /\ [RingNext]_ringVars => RingTypeOK'
<1>. SUFFICES ASSUME RingTypeOK, [RingNext]_ringVars PROVE RingTypeOK'
  OBVIOUS
<1>a. Succ(head) \in Index /\ Succ(tail) \in Index
  BY SuccPos DEF RingTypeOK
<1>b. At(len) \in Index
  BY PosValue DEF RingTypeOK, At, Pos
<1>. USE <1>a, <1>b, CapacityAssumption, MaxDroppedAssumption DEF RingTypeOK
<1>1. ASSUME NEW slot \in Slots, RingPush(slot) PROVE RingTypeOK'
  BY <1>1 DEF RingPush, PushStored, PushOverwrites, PushRefused, PushRaises, Store, IsFull
<1>2. CASE RingPop
  BY <1>2 DEF RingPop, EmptyCall
<1>3. CASE RingPeek
  BY <1>3 DEF RingPeek, EmptyCall
<1>4. CASE RingDrain \/ RingDrainWithSequences
  BY <1>4 DEF RingDrain, RingDrainWithSequences, Emptied
<1>5. CASE RingClear
  BY <1>5 DEF RingClear, Index
<1>6. CASE ResetDroppedCounter
  BY <1>6 DEF ResetDroppedCounter
<1>7. CASE UNCHANGED ringVars
  BY <1>7 DEF ringVars
<1>. QED
  BY <1>1, <1>2, <1>3, <1>4, <1>5, <1>6, <1>7 DEF RingNext

\* The fields of RingBuffer keep their types, for every capacity.
THEOREM RingTypeCorrect == RingSpec => []RingTypeOK
<1>1. RingInit => RingTypeOK
  BY CapacityAssumption, MaxDroppedAssumption DEF RingInit, RingTypeOK, Index, Policies
<1>. QED
  BY <1>1, RingTypeStep, PTL DEF RingSpec
-----------------------------------------------------------------------------
LEMMA WindowStep ==
    RingTypeOK /\ RingTypeOK' /\ WindowInv /\ [RingNext]_ringVars => WindowInv'
<1>. SUFFICES ASSUME RingTypeOK, RingTypeOK', WindowInv, [RingNext]_ringVars
              PROVE  WindowInv'
  OBVIOUS
<1>. DEFINE K == 0 .. Capacity - 1
<1>a. /\ Capacity \in Nat \ {0}
      /\ head \in Index /\ len \in 0 .. Capacity
      /\ buf \in [Index -> Slots \cup {None}]
  BY CapacityAssumption DEF RingTypeOK
<1>b. /\ tail = Pos(head, len)
      /\ \A k \in K : buf[Pos(head, k)] # None <=> k < len
  BY DEF WindowInv, At, Pos
<1>c. /\ \A j, k \in K : Pos(head, j) = Pos(head, k) => j = k
      /\ \A i \in Index : \E k \in K : i = Pos(head, k)
  BY <1>a, PosBijective
<1>d. \A k \in K : Pos(head, k) \in Index
  BY <1>a, PosValue
<1>e. /\ \A k \in K : Succ(Pos(head, k)) = Pos(head, k + 1)
      /\ \A k \in K : Pos(Succ(head), k) = Pos(head, k + 1)
  BY <1>a, SuccPos
<1>f. Pos(head, 0) = head /\ Pos(head, Capacity) = head
  BY <1>a, FullTurn
<1>. SUFFICES /\ tail' = Pos(head', len')
              /\ \A k \in K : buf'[Pos(head', k)] # None <=> k < len'
  BY DEF WindowInv, At, Pos
<1>1. ASSUME NEW slot \in Slots, PushStored(slot)
      PROVE  /\ tail' = Pos(head', len')
             /\ \A k \in K : buf'[Pos(head', k)] # None <=> k < len'
  <2>1. /\ len \in K /\ len' = len + 1 /\ head' = head /\ tail' = Succ(tail)
        /\ buf' = [buf EXCEPT ![tail] = slot]
    BY <1>a, <1>1 DEF PushStored, Store, IsFull
  <2>2. tail' = Pos(head', len')
    BY <1>b, <1>e, <2>1
  <2>3. slot # None
    BY NoneAssumption
  <2>4. \A k \in K : buf'[Pos(head, k)] = IF k = len THEN slot ELSE buf[Pos(head, k)]
    BY <1>a, <1>b, <1>c, <1>d, <2>1
  <2>. QED
    BY <1>a, <1>b, <2>1, <2>2, <2>3, <2>4
<1>2. ASSUME NEW slot \in Slots, PushOverwrites(slot)
      PROVE  /\ tail' = Pos(head', len')
             /\ \A k \in K : buf'[Pos(head', k)] # None <=> k < len'
  <2>1. /\ len = Capacity /\ len' = Capacity /\ head' = Succ(head) /\ tail' = Succ(tail)
        /\ buf' = [buf EXCEPT ![tail] = slot]
    BY <1>2 DEF PushOverwrites, Store, IsFull
  <2>2. tail = head
    BY <1>b, <1>f, <2>1
  <2>3. Pos(Succ(head), Capacity) = Succ(head)
    BY <1>a, SuccPos, FullTurn
  <2>4. \A i \in Index : buf'[i] # None
    <3>1. \A i \in Index : buf[i] # None
      BY <1>a, <1>b, <1>c, <2>1
    <3>. QED
      BY <1>a, <2>1, <3>1, NoneAssumption
  <2>5. \A k \in K : Pos(head', k) \in Index
    BY <1>a, <2>1, SuccPos, PosValue
  <2>. QED
    BY <1>a, <2>1, <2>2, <2>3, <2>4, <2>5
<1>3. CASE PushRefused \/ PushRaises \/ RingPeek \/ ResetDroppedCounter \/ UNCHANGED ringVars
  BY <1>3, <1>b DEF PushRefused, PushRaises, RingPeek, EmptyCall, ResetDroppedCounter, ringVars
<1>4. CASE RingPop
  <2>1. CASE EmptyCall("pop")
    BY <2>1, <1>b DEF EmptyCall
  <2>2. CASE ~EmptyCall("pop")
    <3>1. /\ len > 0 /\ len' = len - 1 /\ head' = Succ(head) /\ tail' = tail
          /\ buf' = [buf EXCEPT ![head] = None]
      BY <1>4, <2>2 DEF RingPop
    <3>2. \A k \in K : Pos(head', k) = Pos(head, k + 1)
      BY <1>e, <3>1
    <3>3. tail' = Pos(head', len')
      BY <1>a, <1>b, <3>1, <3>2
    <3>4. \A k \in K : buf'[Pos(head, k)] = IF k = 0 THEN None ELSE buf[Pos(head, k)]
      BY <1>a, <1>c, <1>d, <1>f, <3>1
    <3>5. ASSUME NEW k \in K PROVE buf'[Pos(head', k)] # None <=> k < len'
      <4>1. CASE k + 1 \in K
        BY <1>a, <1>b, <3>1, <3>2, <3>4, <4>1
      <4>2. CASE k + 1 = Capacity
        <5>1. Pos(head', k) = Pos(head, 0)
          BY <1>f, <3>2, <4>2
        <5>. QED
          BY <1>a, <3>1, <3>4, <4>2, <5>1
      <4>. QED
        BY <1>a, <4>1, <4>2
    <3>. QED
      BY <3>3, <3>5
  <2>. QED
    BY <2>1, <2>2
<1>5. CASE RingDrain \/ RingDrainWithSequences
  <2>1. /\ len' = 0 /\ head' = Pos(head, len) /\ tail' = tail
        /\ buf' = [i \in Index |->
                     IF \E k \in 0 .. len - 1 : i = Pos(head, k) THEN None ELSE buf[i]]
    BY <1>5 DEF RingDrain, RingDrainWithSequences, Emptied, At, Pos
  <2>2. \A i \in Index : buf'[i] = None
    <3>. SUFFICES ASSUME NEW i \in Index PROVE buf'[i] = None
      OBVIOUS
    <3>1. PICK k \in K : i = Pos(head, k)
      BY <1>c
    <3>2. CASE k < len
      BY <1>a, <2>1, <3>1, <3>2
    <3>3. CASE ~(k < len)
      BY <1>b, <2>1, <3>1, <3>3
    <3>. QED
      BY <3>2, <3>3
  <2>3. head' \in Index
    BY DEF RingTypeOK
  <2>4. Pos(head', 0) = head'
    BY <2>3, FullTurn
  <2>5. \A k \in K : Pos(head', k) \in Index
    BY <1>a, <2>3, PosValue
  <2>. QED
    BY <1>a, <1>b, <2>1, <2>2, <2>4, <2>5
<1>6. CASE RingClear
  <2>1. 0 \in Index
    BY <1>a DEF Index
  <2>2. Pos(0, 0) = 0 /\ \A k \in K : Pos(0, k) \in Index
    BY <1>a, <2>1, FullTurn, PosValue
  <2>. QED
    BY <1>a, <1>6, <2>2 DEF RingClear
<1>. QED
  BY <1>1, <1>2, <1>3, <1>4, <1>5, <1>6 DEF RingNext, RingPush

\* The window delimited by the two indices and the length holds exactly the
\* occupied slots, for every capacity.
THEOREM RingWindowCorrect == RingSpec => []WindowInv
<1>1. RingInit => RingTypeOK /\ WindowInv
  <2>. SUFFICES ASSUME RingInit PROVE RingTypeOK /\ WindowInv
    OBVIOUS
  <2>1. RingTypeOK
    BY CapacityAssumption, MaxDroppedAssumption DEF RingInit, RingTypeOK, Index, Policies
  <2>2. 0 \in Index
    BY CapacityAssumption DEF Index
  <2>3. Pos(0, 0) = 0 /\ \A k \in 0 .. Capacity - 1 : Pos(0, k) \in Index
    BY <2>2, FullTurn, PosValue, CapacityAssumption
  <2>4. WindowInv
    <3>1. \A k : At(k) = Pos(0, k)
      BY DEF RingInit, At, Pos
    <3>. QED
      BY <2>3, <3>1, CapacityAssumption DEF RingInit, WindowInv
  <2>. QED
    BY <2>1, <2>4
<1>. QED
  BY <1>1, RingTypeStep, WindowStep, PTL DEF RingSpec
-----------------------------------------------------------------------------
(***************************************************************************)
(* The ring buffer implements the bounded queue, for every capacity: its   *)
(* window, read from the head on, is the queue.                            *)
(***************************************************************************)
RingInv == RingTypeOK /\ WindowInv

\* The window is a sequence of slots, as long as the buffer says.
LEMMA WindowIsSeq ==
    ASSUME RingInv
    PROVE  /\ Window \in Seq(Slots)
           /\ Len(Window) = len
           /\ \A i \in 1 .. len : Window[i] = buf[Pos(head, i - 1)]
<1>1. ASSUME NEW i \in 1 .. len PROVE buf[At(i - 1)] \in Slots
  <2>1. i - 1 \in 0 .. Capacity - 1 /\ i - 1 < len /\ i - 1 \in 0 .. Capacity
    BY CapacityAssumption DEF RingInv, RingTypeOK
  <2>2. At(i - 1) \in Index
    BY <2>1, PosValue DEF RingInv, RingTypeOK, At, Pos
  <2>. QED
    BY <2>1, <2>2 DEF RingInv, RingTypeOK, WindowInv
<1>2. len \in Nat
  BY CapacityAssumption DEF RingInv, RingTypeOK
<1>. QED
  BY <1>1, <1>2 DEF Window, At, Pos

LEMMA StoreAppends ==
    ASSUME RingInv, RingInv', NEW slot \in Slots, PushStored(slot)
    PROVE  Window' = Append(Window, slot)
<1>1. /\ len \in 0 .. Capacity - 1 /\ len' = len + 1 /\ head' = head
      /\ buf' = [buf EXCEPT ![Pos(head, len)] = slot]
      /\ head \in Index /\ buf \in [Index -> Slots \cup {None}]
  BY CapacityAssumption
  DEF RingInv, RingTypeOK, WindowInv, PushStored, Store, IsFull, At, Pos
<1>2. \A k \in 0 .. Capacity - 1 :
          buf'[Pos(head, k)] = IF k = len THEN slot ELSE buf[Pos(head, k)]
  <2>1. \A j, k \in 0 .. Capacity - 1 : Pos(head, j) = Pos(head, k) => j = k
    BY <1>1, PosBijective
  <2>2. \A k \in 0 .. Capacity - 1 : Pos(head, k) \in Index
    BY <1>1, PosValue, CapacityAssumption
  <2>. QED
    BY <1>1, <2>1, <2>2
<1>3. /\ Window \in Seq(Slots) /\ Len(Window) = len
      /\ \A i \in 1 .. len : Window[i] = buf[Pos(head, i - 1)]
  BY WindowIsSeq
<1>4. /\ Window' \in Seq(Slots) /\ Len(Window') = len + 1
      /\ \A i \in 1 .. len + 1 : Window'[i] = buf'[Pos(head, i - 1)]
  <2>1. /\ (Window \in Seq(Slots))'
        /\ (Len(Window) = len)'
        /\ (\A i \in 1 .. len : Window[i] = buf[Pos(head, i - 1)])'
    BY WindowIsSeq, PTL
  <2>. QED
    BY <1>1, <2>1 DEF Slots, Pos
<1>5. /\ Append(Window, slot) \in Seq(Slots)
      /\ Len(Append(Window, slot)) = len + 1
      /\ \A i \in 1 .. len + 1 :
            Append(Window, slot)[i] = IF i = len + 1 THEN slot ELSE Window[i]
  BY <1>1, <1>3
<1>6. ASSUME NEW i \in 1 .. len + 1 PROVE Window'[i] = Append(Window, slot)[i]
  <2>1. i - 1 \in 0 .. Capacity - 1
    BY <1>1, CapacityAssumption
  <2>2. buf'[Pos(head, i - 1)] = IF i - 1 = len THEN slot ELSE buf[Pos(head, i - 1)]
    BY <1>2, <2>1
  <2>3. i - 1 = len <=> i = len + 1
    BY <1>1, CapacityAssumption
  <2>4. i = len + 1 \/ i \in 1 .. len
    BY <1>1, CapacityAssumption
  <2>. QED
    BY <1>3, <1>4, <1>5, <2>2, <2>3, <2>4
<1>. QED
  BY <1>4, <1>5, <1>6, SeqEqual

\* The first slot of a window that is not empty is the one at the head.
LEMMA HeadTail ==
    ASSUME RingInv, len > 0
    PROVE  /\ Window # <<>> /\ Head(Window) = buf[head]
           /\ Tail(Window) \in Seq(Slots) /\ Len(Tail(Window)) = len - 1
           /\ \A i \in 1 .. len - 1 : Tail(Window)[i] = buf[Pos(head, i)]
<1>1. /\ Window \in Seq(Slots) /\ Len(Window) = len
      /\ \A i \in 1 .. len : Window[i] = buf[Pos(head, i - 1)]
  BY WindowIsSeq
<1>2. len \in Nat /\ head \in Index
  BY CapacityAssumption DEF RingInv, RingTypeOK
<1>3. Window # <<>>
  BY <1>1, <1>2
<1>4. Pos(head, 0) = head
  BY <1>2, FullTurn
<1>5. Head(Window) = buf[head]
  BY <1>1, <1>2, <1>3, <1>4
<1>6. /\ Tail(Window) \in Seq(Slots) /\ Len(Tail(Window)) = len - 1
      /\ \A i \in 1 .. len - 1 : Tail(Window)[i] = Window[i + 1]
  BY <1>1, <1>2, <1>3, HeadTailProperties
<1>7. ASSUME NEW i \in 1 .. len - 1 PROVE Tail(Window)[i] = buf[Pos(head, i)]
  <2>1. i + 1 \in 1 .. len /\ (i + 1) - 1 = i
    BY <1>2
  <2>. QED
    BY <1>1, <1>6, <2>1
<1>. QED
  BY <1>3, <1>5, <1>6, <1>7

LEMMA PopTakesTail ==
    ASSUME RingInv, RingInv', len > 0, len' = len - 1, head' = Succ(head),
           buf' = [buf EXCEPT ![head] = None]
    PROVE  Window' = Tail(Window)
<1>1. len \in 1 .. Capacity /\ head \in Index /\ buf \in [Index -> Slots \cup {None}]
  BY CapacityAssumption DEF RingInv, RingTypeOK
<1>2. /\ Tail(Window) \in Seq(Slots) /\ Len(Tail(Window)) = len - 1
      /\ \A i \in 1 .. len - 1 : Tail(Window)[i] = buf[Pos(head, i)]
  BY HeadTail
<1>3. /\ Window' \in Seq(Slots) /\ Len(Window') = len - 1
      /\ \A i \in 1 .. len - 1 : Window'[i] = buf'[Pos(Succ(head), i - 1)]
  <2>1. /\ (Window \in Seq(Slots))'
        /\ (Len(Window) = len)'
        /\ (\A i \in 1 .. len : Window[i] = buf[Pos(head, i - 1)])'
    BY WindowIsSeq, PTL
  <2>. QED
    BY <2>1 DEF Slots, Pos
<1>4. ASSUME NEW i \in 1 .. len - 1 PROVE Window'[i] = Tail(Window)[i]
  <2>1. /\ i - 1 \in 0 .. Capacity - 1 /\ i \in 0 .. Capacity - 1 /\ i # 0
        /\ 0 \in 0 .. Capacity - 1 /\ (i - 1) + 1 = i /\ i \in 0 .. Capacity
    BY <1>1, CapacityAssumption
  <2>2. Pos(Succ(head), i - 1) = Pos(head, i)
    BY <1>1, <2>1, SuccPos
  <2>3. Pos(head, 0) = head /\ Pos(head, i) # Pos(head, 0) /\ Pos(head, i) \in Index
    BY <1>1, <2>1, FullTurn, PosBijective, PosValue
  <2>4. buf'[Pos(head, i)] = buf[Pos(head, i)]
    BY <1>1, <2>3
  <2>. QED
    BY <1>2, <1>3, <2>2, <2>4
<1>. QED
  BY <1>2, <1>3, <1>4, SeqEqual

LEMMA OverwriteReplaces ==
    ASSUME RingInv, RingInv', NEW slot \in Slots, PushOverwrites(slot)
    PROVE  Window' = Append(Tail(Window), slot)
<1>1. /\ len = Capacity /\ len' = Capacity /\ head' = Succ(head) /\ tail = head
      /\ buf' = [buf EXCEPT ![head] = slot]
      /\ head \in Index /\ buf \in [Index -> Slots \cup {None}] /\ Capacity \in Nat \ {0}
  <2>1. /\ len = Capacity /\ len' = Capacity /\ head' = Succ(head)
        /\ buf' = [buf EXCEPT ![tail] = slot] /\ tail = Pos(head, len)
        /\ head \in Index /\ buf \in [Index -> Slots \cup {None}]
    BY DEF RingInv, RingTypeOK, WindowInv, PushOverwrites, Store, IsFull, At, Pos
  <2>2. tail = head
    BY <2>1, FullTurn
  <2>. QED
    BY <2>1, <2>2, CapacityAssumption
<1>2. /\ Tail(Window) \in Seq(Slots) /\ Len(Tail(Window)) = Capacity - 1
      /\ \A i \in 1 .. Capacity - 1 : Tail(Window)[i] = buf[Pos(head, i)]
  <2>1. len > 0
    BY <1>1
  <2>. QED
    BY <1>1, <2>1, HeadTail
<1>3. /\ Window' \in Seq(Slots) /\ Len(Window') = Capacity
      /\ \A i \in 1 .. Capacity : Window'[i] = buf'[Pos(Succ(head), i - 1)]
  <2>1. /\ (Window \in Seq(Slots))'
        /\ (Len(Window) = len)'
        /\ (\A i \in 1 .. len : Window[i] = buf[Pos(head, i - 1)])'
    BY WindowIsSeq, PTL
  <2>. QED
    BY <1>1, <2>1 DEF Slots, Pos
<1>4. /\ Append(Tail(Window), slot) \in Seq(Slots)
      /\ Len(Append(Tail(Window), slot)) = Capacity
      /\ \A i \in 1 .. Capacity : Append(Tail(Window), slot)[i] =
            IF i = Capacity THEN slot ELSE Tail(Window)[i]
  BY <1>1, <1>2
<1>5. ASSUME NEW i \in 1 .. Capacity PROVE Window'[i] = Append(Tail(Window), slot)[i]
  <2>1. i - 1 \in 0 .. Capacity - 1 /\ (i - 1) + 1 = i /\ i \in 0 .. Capacity
    BY <1>1
  <2>2. Pos(Succ(head), i - 1) = Pos(head, i)
    BY <1>1, <2>1, SuccPos
  <2>3. CASE i = Capacity
    <3>1. Pos(head, i) = head
      BY <1>1, <2>3, FullTurn
    <3>. QED
      BY <1>1, <1>3, <1>4, <2>2, <2>3, <3>1
  <2>4. CASE i # Capacity
    <3>1. i \in 0 .. Capacity - 1 /\ 0 \in 0 .. Capacity - 1 /\ i # 0 /\ i \in 1 .. Capacity - 1
      BY <1>1, <2>4
    <3>2. Pos(head, 0) = head /\ Pos(head, i) # Pos(head, 0) /\ Pos(head, i) \in Index
      BY <1>1, <2>1, <3>1, FullTurn, PosBijective, PosValue
    <3>3. buf'[Pos(head, i)] = buf[Pos(head, i)]
      BY <1>1, <3>2
    <3>. QED
      BY <1>2, <1>3, <1>4, <2>2, <2>4, <3>1, <3>3
  <2>. QED
    BY <2>3, <2>4
<1>. QED
  BY <1>3, <1>4, <1>5, SeqEqual, <1>1

LEMMA EmptyWindow == ASSUME len = 0 PROVE Window = <<>>
BY DEF Window

LEMMA RefinementStep ==
    ASSUME RingInv, RingInv', [RingNext]_ringVars
    PROVE  [Queue!Next]_(Queue!vars)
<1>a. Len(Window) = len /\ Window \in Seq(Slots) /\ len \in Nat
  BY WindowIsSeq, CapacityAssumption DEF RingInv, RingTypeOK
<1>b. len' = 0 => Window' = <<>>
  BY DEF Window
<1>c. buf' = buf /\ head' = head /\ len' = len => Window' = Window
  BY DEF Window, At
<1>1. ASSUME NEW slot \in Slots, PushStored(slot) PROVE Queue!Accept(slot)
  <2>1. Window' = Append(Window, slot)
    BY <1>1, StoreAppends
  <2>2. Len(Window) < Capacity
    BY <1>a, <1>1, CapacityAssumption DEF PushStored, IsFull, RingInv, RingTypeOK
  <2>. QED
    BY <1>1, <2>1, <2>2
    DEF PushStored, Store, Queue!Accept, Result, Queue!Result
<1>2. ASSUME NEW slot \in Slots, PushOverwrites(slot) PROVE Queue!ReplaceOldest(slot)
  <2>1. Window' = Append(Tail(Window), slot)
    BY <1>2, OverwriteReplaces
  <2>. QED
    BY <1>2, <1>a, <2>1
    DEF PushOverwrites, Store, IsFull, Queue!ReplaceOldest, Result, Queue!Result
<1>3. CASE PushRefused
  BY <1>3, <1>a, <1>c
  DEF PushRefused, IsFull, Queue!Next, Queue!RefuseNewest, Result, Queue!Result
<1>4. CASE PushRaises
  BY <1>4, <1>a, <1>c
  DEF PushRaises, IsFull, Queue!Next, Queue!Overflow, Result, Queue!Result
<1>5. CASE EmptyCall("pop") \/ EmptyCall("peek")
  <2>1. Window = <<>> /\ Window' = Window
    BY <1>5, <1>c, EmptyWindow DEF EmptyCall
  <2>. QED
    BY <1>5, <2>1
    DEF EmptyCall, Queue!Next, Queue!NothingThere, Result, Queue!Result
<1>6. CASE RingPop /\ ~EmptyCall("pop")
  <2>1. /\ len > 0 /\ len' = len - 1 /\ head' = Succ(head)
        /\ buf' = [buf EXCEPT ![head] = None]
        /\ result' = Result("pop", <<buf[head].item>>)
        /\ UNCHANGED <<policy, total_dropped>>
    BY <1>6 DEF RingPop
  <2>2. Window # <<>> /\ Head(Window) = buf[head] /\ Window' = Tail(Window)
    BY <2>1, HeadTail, PopTakesTail
  <2>. QED
    BY <2>1, <2>2 DEF Queue!Next, Queue!Take, Result, Queue!Result
<1>7. CASE RingPeek /\ ~EmptyCall("peek")
  <2>1. /\ len > 0
        /\ result' = Result("peek", <<buf[head].item>>)
        /\ UNCHANGED <<buf, head, len, policy, total_dropped>>
    BY <1>7 DEF RingPeek
  <2>2. Window # <<>> /\ Head(Window) = buf[head] /\ Window' = Window
    BY <2>1, <1>c, HeadTail
  <2>. QED
    BY <2>1, <2>2 DEF Queue!Next, Queue!Look, Result, Queue!Result
<1>8. CASE RingDrain
  <2>1. Present = Queue!Present
    <3>1. \A item \in Items : \E slot \in Slots : slot.item = item
      <4>1. \A item \in Items : [item |-> item, seq |-> None] \in Slots
        BY DEF Slots
      <4>. QED
        BY <4>1
    <3>2. \A slot \in Slots : slot.item \in Items
      BY DEF Slots
    <3>. QED
      BY <3>1, <3>2 DEF Present, Queue!Present
  <2>2. Filter(ItemsOf(Window), Present) = Queue!Filter(Queue!ItemsOf(Window), Queue!Present)
    BY <2>1 DEF ItemsOf, Queue!ItemsOf, Filter, Queue!Filter
  <2>. QED
    BY <1>8, <1>b, <2>2
    DEF RingDrain, Emptied, Queue!Next, Queue!TakeAll, Result, Queue!Result
<1>9. CASE RingDrainWithSequences
  BY <1>9, <1>b
  DEF RingDrainWithSequences, Emptied, Queue!Next, Queue!TakeAllPairs, Result, Queue!Result
<1>10. CASE RingClear
  BY <1>10, <1>b DEF RingClear, Queue!Next, Queue!Forget, Result, Queue!Result
<1>11. CASE ResetDroppedCounter
  BY <1>11, <1>c DEF ResetDroppedCounter, Queue!Next, Queue!ForgetDropped, Result, Queue!Result
<1>12. CASE UNCHANGED ringVars
  BY <1>12, <1>c DEF ringVars, Queue!vars
<1>. QED
  BY <1>1, <1>2, <1>3, <1>4, <1>5, <1>6, <1>7, <1>8, <1>9, <1>10, <1>11, <1>12
  DEF RingNext, RingPush, RingPop, RingPeek, Queue!Next

\* The circular buffer implements the bounded FIFO queue, for every capacity
\* and every overflow policy: calls return what the queue would return.
THEOREM RingImplementsQueue == RingSpec => RefinesQueue
<1>1. RingInit => Queue!Init
  BY EmptyWindow DEF RingInit, Queue!Init, Result, Queue!Result
<1>2. RingSpec => []RingInv
  BY RingTypeCorrect, RingWindowCorrect, PTL DEF RingInv
<1>. QED
  BY <1>1, <1>2, RefinementStep, PTL DEF RingSpec, RefinesQueue, Queue!Spec
-----------------------------------------------------------------------------
(***************************************************************************)
(* A window of buffered pairs, as a sequence w, and a list s of seen ids.  *)
(***************************************************************************)
Numbered(w, a, b) == {k \in a .. b : w[k].seq # None}

\* The last id is that of the newest numbered pair.
Newest(w, id) == \A i \in 1 .. Len(w) :
    w[i].seq # None => w[i].seq = id \/ \E j \in i + 1 .. Len(w) : w[j].seq # None

\* Pairs with one id are far apart.
Apart(w) == \A i, j \in 1 .. Len(w) :
    i < j /\ w[i].seq = w[j].seq /\ w[i].seq # None =>
        Cardinality(Numbered(w, i + 1, j - 1)) >= DedupWindow

\* Counted from the end, numbered pairs and seen ids agree; where the seen ids
\* end first, the window of ids is full.
Behind(w, i) == Cardinality(Numbered(w, i + 1, Len(w)))
Agree(w, s) == \A i \in 1 .. Len(w) : w[i].seq # None =>
    /\ Behind(w, i) < Len(s) => s[Len(s) - Behind(w, i)] = w[i].seq
    /\ Behind(w, i) >= Len(s) => Len(s) = DedupWindow

LEMMA NumberedFinite ==
    ASSUME NEW w, NEW a \in Int, NEW b \in Int
    PROVE  IsFiniteSet(Numbered(w, a, b)) /\ Cardinality(Numbered(w, a, b)) \in Nat
<1>1. IsFiniteSet(a .. b) /\ Numbered(w, a, b) \in SUBSET (a .. b)
  BY FS_Interval DEF Numbered
<1>2. IsFiniteSet(Numbered(w, a, b))
  BY <1>1, FS_Subset
<1>. QED
  BY <1>2, FS_CardinalityType

\* Without the oldest pair the others move up by one.
LEMMA NumberedTail ==
    ASSUME NEW w \in Seq(Slots), w # <<>>, NEW a \in Nat \ {0}, NEW b \in Int, b <= Len(w) - 1
    PROVE  Cardinality(Numbered(Tail(w), a, b)) = Cardinality(Numbered(w, a + 1, b + 1))
<1>. DEFINE S == Numbered(Tail(w), a, b)
            T == Numbered(w, a + 1, b + 1)
            f == [k \in S |-> k + 1]
<1>1. Len(w) \in Nat /\ \A k \in a .. b : Tail(w)[k] = w[k + 1]
  <2>1. Len(Tail(w)) = Len(w) - 1 /\ \A k \in 1 .. Len(Tail(w)) : Tail(w)[k] = w[k + 1]
    BY HeadTailProperties
  <2>2. \A k \in a .. b : k \in 1 .. Len(w) - 1
    OBVIOUS
  <2>. QED
    BY <2>1, <2>2
<1>2. \A k \in S : k \in Int /\ k + 1 \in T
  BY <1>1 DEF Numbered
<1>3. \A m \in T : m - 1 \in S /\ (m - 1) + 1 = m
  BY <1>1 DEF Numbered
<1>4. IsFiniteSet(S)
  BY NumberedFinite
<1>. HIDE DEF S, T
<1>5. f \in [S -> T]
  BY <1>2
<1>6. \A x, y \in S : f[x] = f[y] => x = y
  BY <1>2
<1>7. \A m \in T : \E k \in S : f[k] = m
  BY <1>3
<1>8. f \in Bijection(S, T)
  BY <1>5, <1>6, <1>7 DEF Bijection, Injection, Surjection, IsInjective
<1>9. ExistsBijection(S, T)
  BY <1>8 DEF ExistsBijection
<1>10. Cardinality(T) = Cardinality(S)
  BY <1>4, <1>9, FS_Bijection
<1>. QED
  BY <1>10 DEF S, T

LEMMA NumberedAppend ==
    ASSUME NEW w \in Seq(Slots), NEW p \in Slots, NEW a \in Nat \ {0}
    PROVE  /\ \A b \in Int : b <= Len(w) => Numbered(Append(w, p), a, b) = Numbered(w, a, b)
           /\ a <= Len(w) + 1 =>
                Cardinality(Numbered(Append(w, p), a, Len(w) + 1)) =
                    IF p.seq = None THEN Cardinality(Numbered(w, a, Len(w)))
                    ELSE Cardinality(Numbered(w, a, Len(w))) + 1
<1>1. \A b \in Int : b <= Len(w) => Numbered(Append(w, p), a, b) = Numbered(w, a, b)
  BY DEF Numbered
<1>2. ASSUME a <= Len(w) + 1
      PROVE  Cardinality(Numbered(Append(w, p), a, Len(w) + 1)) =
                    IF p.seq = None THEN Cardinality(Numbered(w, a, Len(w)))
                    ELSE Cardinality(Numbered(w, a, Len(w))) + 1
  <2>1. p.seq = None => Numbered(Append(w, p), a, Len(w) + 1) = Numbered(w, a, Len(w))
    BY <1>2 DEF Numbered
  <2>2. p.seq # None => Numbered(Append(w, p), a, Len(w) + 1)
                            = Numbered(w, a, Len(w)) \cup {Len(w) + 1}
    BY <1>2 DEF Numbered
  <2>3. IsFiniteSet(Numbered(w, a, Len(w))) /\ Len(w) + 1 \notin Numbered(w, a, Len(w))
    BY NumberedFinite DEF Numbered
  <2>4. Cardinality(Numbered(w, a, Len(w)) \cup {Len(w) + 1})
            = Cardinality(Numbered(w, a, Len(w))) + 1
    BY <2>3, FS_AddElement
  <2>. QED
    BY <2>1, <2>2, <2>4
<1>. QED
  BY <1>1, <1>2
LEMMA TailParts ==
    ASSUME NEW w \in Seq(Slots), w # <<>>
    PROVE  /\ Tail(w) \in Seq(Slots) /\ Len(w) \in Nat \ {0} /\ Len(Tail(w)) = Len(w) - 1
           /\ \A k \in 1 .. Len(w) - 1 : Tail(w)[k] = w[k + 1]
BY HeadTailProperties

LEMMA AppendParts ==
    ASSUME NEW w \in Seq(Slots), NEW p \in Slots
    PROVE  /\ Append(w, p) \in Seq(Slots) /\ Len(w) \in Nat /\ Len(Append(w, p)) = Len(w) + 1
           /\ \A k \in 1 .. Len(w) : Append(w, p)[k] = w[k]
           /\ Append(w, p)[Len(w) + 1] = p
OBVIOUS

\* The oldest pair is taken or dropped.
LEMMA DropOldest ==
    ASSUME NEW w \in Seq(Slots), w # <<>>
    PROVE  /\ \A id : Newest(w, id) => Newest(Tail(w), id)
           /\ Apart(w) => Apart(Tail(w))
           /\ \A s : Agree(w, s) => Agree(Tail(w), s)
<1>. DEFINE t == Tail(w)
<1>1. /\ t \in Seq(Slots) /\ Len(w) \in Nat \ {0} /\ Len(t) = Len(w) - 1
      /\ \A k \in 1 .. Len(w) - 1 : t[k] = w[k + 1]
  BY TailParts
<1>2. \A a \in Nat \ {0}, b \in Int : b <= Len(w) - 1 =>
          Cardinality(Numbered(t, a, b)) = Cardinality(Numbered(w, a + 1, b + 1))
  BY NumberedTail
<1>. HIDE DEF t
<1>3. \A id : Newest(w, id) => Newest(t, id)
  <2>. SUFFICES ASSUME NEW id, Newest(w, id), NEW i \in 1 .. Len(t), t[i].seq # None,
                       t[i].seq # id
                PROVE  \E j \in i + 1 .. Len(t) : t[j].seq # None
    BY DEF Newest
  <2>1. i + 1 \in 1 .. Len(w) /\ t[i] = w[i + 1]
    BY <1>1
  <2>2. PICK j \in i + 2 .. Len(w) : w[j].seq # None
    BY <2>1 DEF Newest
  <2>3. j - 1 \in i + 1 .. Len(t) /\ j - 1 \in 1 .. Len(w) - 1 /\ (j - 1) + 1 = j
    BY <1>1
  <2>4. t[j - 1] = w[j]
    BY <1>1, <2>3
  <2>. QED
    BY <2>2, <2>3, <2>4
<1>4. Apart(w) => Apart(t)
  <2>. SUFFICES ASSUME Apart(w), NEW i \in 1 .. Len(t), NEW j \in 1 .. Len(t),
                       i < j, t[i].seq = t[j].seq, t[i].seq # None
                PROVE  Cardinality(Numbered(t, i + 1, j - 1)) >= DedupWindow
    BY DEF Apart
  <2>1. /\ i + 1 \in 1 .. Len(w) /\ j + 1 \in 1 .. Len(w) /\ i + 1 < j + 1
        /\ t[i] = w[i + 1] /\ t[j] = w[j + 1]
    BY <1>1
  <2>2. Cardinality(Numbered(w, (i + 1) + 1, (j + 1) - 1)) >= DedupWindow
    BY <2>1 DEF Apart
  <2>3. /\ i + 1 \in Nat \ {0} /\ j - 1 \in Int /\ j - 1 <= Len(w) - 1
        /\ (j - 1) + 1 = (j + 1) - 1
    BY <1>1
  <2>4. Cardinality(Numbered(t, i + 1, j - 1))
            = Cardinality(Numbered(w, (i + 1) + 1, (j - 1) + 1))
    BY <1>2, <2>3
  <2>. QED
    BY <2>2, <2>3, <2>4
<1>5. \A s : Agree(w, s) => Agree(t, s)
  <2>. SUFFICES ASSUME NEW s, Agree(w, s), NEW i \in 1 .. Len(t), t[i].seq # None
                PROVE  /\ Behind(t, i) < Len(s) => s[Len(s) - Behind(t, i)] = t[i].seq
                       /\ Behind(t, i) >= Len(s) => Len(s) = DedupWindow
    BY DEF Agree
  <2>1. i + 1 \in 1 .. Len(w) /\ t[i] = w[i + 1] /\ i + 1 \in Nat \ {0}
        /\ Len(t) \in Int /\ Len(t) <= Len(w) - 1 /\ Len(t) + 1 = Len(w)
    BY <1>1
  <2>2. Cardinality(Numbered(t, i + 1, Len(t)))
            = Cardinality(Numbered(w, (i + 1) + 1, Len(t) + 1))
    BY <1>2, <2>1
  <2>3. Behind(t, i) = Behind(w, i + 1)
    BY <2>1, <2>2 DEF Behind
  <2>4. /\ Behind(w, i + 1) < Len(s) => s[Len(s) - Behind(w, i + 1)] = w[i + 1].seq
        /\ Behind(w, i + 1) >= Len(s) => Len(s) = DedupWindow
    BY <2>1 DEF Agree
  <2>. QED
    BY <2>1, <2>3, <2>4, Zenon
<1>. QED
  BY <1>3, <1>4, <1>5 DEF t

\* A pair without a sequence id is stored.
LEMMA StoreUnnumbered ==
    ASSUME NEW w \in Seq(Slots), NEW p \in Slots, p.seq = None
    PROVE  /\ \A id : Newest(w, id) => Newest(Append(w, p), id)
           /\ Apart(w) => Apart(Append(w, p))
           /\ \A s : Agree(w, s) => Agree(Append(w, p), s)
<1>. DEFINE t == Append(w, p)
<1>1. /\ t \in Seq(Slots) /\ Len(w) \in Nat /\ Len(t) = Len(w) + 1
      /\ \A k \in 1 .. Len(w) : t[k] = w[k]
      /\ t[Len(w) + 1] = p
  BY AppendParts
<1>2. \A a \in Nat \ {0}, b \in Int : b <= Len(w) => Numbered(t, a, b) = Numbered(w, a, b)
  BY NumberedAppend
<1>3. \A a \in Nat \ {0} : a <= Len(w) + 1 =>
          Cardinality(Numbered(t, a, Len(w) + 1)) = Cardinality(Numbered(w, a, Len(w)))
  BY NumberedAppend
<1>. HIDE DEF t
<1>4. \A i \in 1 .. Len(t) : t[i].seq # None => i \in 1 .. Len(w) /\ t[i] = w[i]
  BY <1>1
<1>5. \A id : Newest(w, id) => Newest(t, id)
  <2>. SUFFICES ASSUME NEW id, Newest(w, id), NEW i \in 1 .. Len(t), t[i].seq # None,
                       t[i].seq # id
                PROVE  \E j \in i + 1 .. Len(t) : t[j].seq # None
    BY DEF Newest
  <2>1. i \in 1 .. Len(w) /\ t[i] = w[i]
    BY <1>4
  <2>2. PICK j \in i + 1 .. Len(w) : w[j].seq # None
    BY <2>1 DEF Newest
  <2>3. j \in 1 .. Len(w) /\ j \in i + 1 .. Len(t) /\ t[j] = w[j]
    BY <1>1
  <2>. QED
    BY <2>2, <2>3
<1>6. Apart(w) => Apart(t)
  <2>. SUFFICES ASSUME Apart(w), NEW i \in 1 .. Len(t), NEW j \in 1 .. Len(t),
                       i < j, t[i].seq = t[j].seq, t[i].seq # None
                PROVE  Cardinality(Numbered(t, i + 1, j - 1)) >= DedupWindow
    BY DEF Apart
  <2>1. i \in 1 .. Len(w) /\ t[i] = w[i] /\ j \in 1 .. Len(w) /\ t[j] = w[j]
    BY <1>4
  <2>2. Cardinality(Numbered(w, i + 1, j - 1)) >= DedupWindow
    BY <2>1 DEF Apart
  <2>3. i + 1 \in Nat \ {0} /\ j - 1 \in Int /\ j - 1 <= Len(w)
    BY <1>1, <2>1
  <2>. QED
    BY <1>2, <2>2, <2>3
<1>7. \A s : Agree(w, s) => Agree(t, s)
  <2>. SUFFICES ASSUME NEW s, Agree(w, s), NEW i \in 1 .. Len(t), t[i].seq # None
                PROVE  /\ Behind(t, i) < Len(s) => s[Len(s) - Behind(t, i)] = t[i].seq
                       /\ Behind(t, i) >= Len(s) => Len(s) = DedupWindow
    BY DEF Agree
  <2>1. i \in 1 .. Len(w) /\ t[i] = w[i]
    BY <1>4
  <2>2. i + 1 \in Nat \ {0} /\ i + 1 <= Len(w) + 1
    BY <1>1, <2>1
  <2>3. Behind(t, i) = Behind(w, i)
    BY <1>1, <1>3, <2>2 DEF Behind
  <2>4. /\ Behind(w, i) < Len(s) => s[Len(s) - Behind(w, i)] = w[i].seq
        /\ Behind(w, i) >= Len(s) => Len(s) = DedupWindow
    BY <2>1 DEF Agree
  <2>. QED
    BY <2>1, <2>3, <2>4, Zenon
<1>. QED
  BY <1>5, <1>6, <1>7 DEF t
\* u is the list of seen ids s once id was tracked.
Follows(u, s, id) ==
    /\ Len(u) = IF Len(s) < DedupWindow THEN Len(s) + 1 ELSE DedupWindow
    /\ u[Len(u)] = id
    /\ \A k \in 1 .. Len(u) - 1 : u[Len(u) - k] = s[Len(s) + 1 - k]

\* A pair with a sequence id is stored, and the id was not among the seen ones.
LEMMA StoreNumbered ==
    ASSUME NEW w \in Seq(Slots), NEW p \in Slots, p.seq # None,
           NEW s \in Seq(SeqIds), Len(s) <= DedupWindow, NEW u, Follows(u, s, p.seq),
           \A i \in 1 .. Len(s) : s[i] # p.seq,
           Apart(w), Agree(w, s)
    PROVE  Apart(Append(w, p)) /\ Agree(Append(w, p), u)
<1>. DEFINE t == Append(w, p)
<1>0. DedupWindow \in Nat \ {0} /\ Len(s) \in Nat
  BY DedupWindowAssumption
<1>1. /\ t \in Seq(Slots) /\ Len(w) \in Nat /\ Len(t) = Len(w) + 1
      /\ \A k \in 1 .. Len(w) : t[k] = w[k]
      /\ t[Len(w) + 1] = p
  BY AppendParts
<1>2. \A a \in Nat \ {0}, b \in Int : b <= Len(w) => Numbered(t, a, b) = Numbered(w, a, b)
  BY NumberedAppend
<1>3. \A a \in Nat \ {0} : a <= Len(w) + 1 =>
          Cardinality(Numbered(t, a, Len(w) + 1)) = Cardinality(Numbered(w, a, Len(w))) + 1
  BY NumberedAppend
<1>. HIDE DEF t
<1>4. \A i \in 1 .. Len(w) : Behind(w, i) \in Nat /\ Behind(t, i) = Behind(w, i) + 1
  <2>. SUFFICES ASSUME NEW i \in 1 .. Len(w)
                PROVE  Behind(w, i) \in Nat /\ Behind(t, i) = Behind(w, i) + 1
    OBVIOUS
  <2>1. i + 1 \in Nat \ {0} /\ i + 1 <= Len(w) + 1 /\ i + 1 \in Int /\ Len(w) \in Int
    BY <1>1
  <2>2. Cardinality(Numbered(w, i + 1, Len(w))) \in Nat
    BY <2>1, NumberedFinite
  <2>. QED
    BY <1>1, <1>3, <2>1, <2>2 DEF Behind
<1>5. \A i \in 1 .. Len(w) : w[i].seq # None =>
          /\ Behind(w, i) < Len(s) => s[Len(s) - Behind(w, i)] = w[i].seq
          /\ Behind(w, i) >= Len(s) => Len(s) = DedupWindow
  BY DEF Agree
<1>6. /\ Len(u) = IF Len(s) < DedupWindow THEN Len(s) + 1 ELSE DedupWindow
      /\ u[Len(u)] = p.seq
      /\ \A k \in 1 .. Len(u) - 1 : u[Len(u) - k] = s[Len(s) + 1 - k]
  BY DEF Follows
<1>7. ASSUME NEW i \in 1 .. Len(t), NEW j \in 1 .. Len(t),
             i < j, t[i].seq = t[j].seq, t[i].seq # None
      PROVE  Cardinality(Numbered(t, i + 1, j - 1)) >= DedupWindow
  <2>1. i \in 1 .. Len(w) /\ t[i] = w[i]
    BY <1>1, <1>7
  <2>2. i + 1 \in Nat \ {0} /\ j - 1 \in Int /\ j - 1 <= Len(w)
    BY <1>1, <2>1
  <2>3. Numbered(t, i + 1, j - 1) = Numbered(w, i + 1, j - 1)
    BY <1>2, <2>2
  <2>4. CASE j <= Len(w)
    <3>1. j \in 1 .. Len(w) /\ t[j] = w[j]
      BY <1>1, <2>4
    <3>2. Cardinality(Numbered(w, i + 1, j - 1)) >= DedupWindow
      BY <1>7, <2>1, <3>1 DEF Apart
    <3>. QED
      BY <2>3, <3>2
  <2>5. CASE j = Len(w) + 1
    <3>1. w[i].seq = p.seq /\ j - 1 = Len(w)
      BY <1>1, <1>7, <2>1, <2>5
    <3>2. Behind(w, i) \in Nat
      BY <1>4, <2>1
    <3>3. ~(Behind(w, i) < Len(s))
      <4>1. SUFFICES ASSUME Behind(w, i) < Len(s) PROVE FALSE
        OBVIOUS
      <4>2. s[Len(s) - Behind(w, i)] = p.seq
        BY <1>5, <1>7, <2>1, <3>1, <4>1
      <4>3. Len(s) - Behind(w, i) \in 1 .. Len(s)
        BY <1>0, <3>2, <4>1
      <4>. QED
        BY <4>2, <4>3
    <3>4. Behind(w, i) >= Len(s) /\ Len(s) = DedupWindow
      BY <1>0, <1>5, <1>7, <2>1, <3>2, <3>3
    <3>5. Cardinality(Numbered(t, i + 1, j - 1)) = Behind(w, i)
      BY <2>3, <3>1 DEF Behind
    <3>. QED
      BY <3>4, <3>5
  <2>. QED
    BY <1>1, <2>4, <2>5
<1>8. ASSUME NEW i \in 1 .. Len(t), t[i].seq # None
      PROVE  /\ Behind(t, i) < Len(u) => u[Len(u) - Behind(t, i)] = t[i].seq
             /\ Behind(t, i) >= Len(u) => Len(u) = DedupWindow
  <2>1. CASE i \in 1 .. Len(w)
    <3>. DEFINE c == Behind(w, i)
    <3>1. c \in Nat /\ Behind(t, i) = c + 1 /\ t[i] = w[i]
      BY <1>1, <1>4, <2>1
    <3>2. /\ c < Len(s) => s[Len(s) - c] = w[i].seq
          /\ c >= Len(s) => Len(s) = DedupWindow
      BY <1>5, <1>8, <2>1, <3>1
    <3>. HIDE DEF c
    <3>3. c + 1 >= Len(u) => Len(u) = DedupWindow
      BY <1>0, <1>6, <3>1, <3>2
    <3>4. ASSUME c + 1 < Len(u)
          PROVE  u[Len(u) - (c + 1)] = w[i].seq
      <4>1. c < Len(s) /\ c + 1 \in 1 .. Len(u) - 1 /\ Len(s) + 1 - (c + 1) = Len(s) - c
        BY <1>0, <1>6, <3>1, <3>4
      <4>2. u[Len(u) - (c + 1)] = s[Len(s) + 1 - (c + 1)]
        BY <1>6, <4>1
      <4>. QED
        BY <3>2, <4>1, <4>2
    <3>. QED
      BY <3>1, <3>3, <3>4
  <2>2. CASE i = Len(w) + 1
    <3>1. Behind(t, i) = 0
      <4>1. Numbered(t, i + 1, Len(t)) = {}
        BY <1>1, <2>2 DEF Numbered
      <4>. QED
        BY <4>1, FS_EmptySet DEF Behind
    <3>2. Len(u) \in Nat /\ Len(u) > 0 /\ Len(u) - 0 = Len(u)
      BY <1>0, <1>6
    <3>. QED
      BY <1>1, <1>6, <2>2, <3>1, <3>2
  <2>. QED
    BY <1>1, <2>1, <2>2
<1>. QED
  BY <1>7, <1>8 DEF t, Apart, Agree

LEMMA StoreNewest ==
    ASSUME NEW w \in Seq(Slots), NEW p \in Slots, p.seq # None
    PROVE  Newest(Append(w, p), p.seq)
<1>. DEFINE t == Append(w, p)
<1>1. Len(w) \in Nat /\ Len(t) = Len(w) + 1 /\ t[Len(w) + 1] = p
  OBVIOUS
<1>. HIDE DEF t
<1>2. ASSUME NEW i \in 1 .. Len(t), t[i].seq # p.seq
      PROVE  \E j \in i + 1 .. Len(t) : t[j].seq # None
  <2>1. Len(t) \in i + 1 .. Len(t)
    BY <1>1, <1>2
  <2>. QED
    BY <1>1, <2>1
<1>. QED
  BY <1>2 DEF t, Newest
-----------------------------------------------------------------------------
(***************************************************************************)
(* The message buffer.                                                     *)
(***************************************************************************)
MsgTypes == /\ seen \in Seq(SeqIds) /\ Len(seen) <= DedupWindow
            /\ last_sequence_id \in SeqIds \cup {None}

MsgInv == /\ RingInv
          /\ MsgTypes
          /\ BoundaryIsRefused
          /\ policy = "drop_oldest" => Newest(Window, last_sequence_id)
          /\ policy = "drop_oldest" /\ enable_dedup /\ ~stale =>
                 Apart(Window) /\ Agree(Window, seen)

LEMMA MaxOfTwo ==
    ASSUME NEW n \in Int
    PROVE  Max({1, n}) = IF n <= 1 THEN 1 ELSE n
<1>. DEFINE P(x) == x \in {1, n} /\ \A y \in {1, n} : x >= y
<1>1. \E x : P(x)
  OBVIOUS
<1>2. P(CHOOSE x : P(x))
  BY <1>1
<1>3. Max({1, n}) = CHOOSE x : P(x)
  BY DEF Max
<1>. QED
  BY <1>2, <1>3

\* An id that was not seen is tracked.
LEMMA TrackFollows ==
    ASSUME MsgTypes, NEW id \in SeqIds, ~IsDuplicate(id), Track(id)
    PROVE  /\ seen' \in Seq(SeqIds) /\ Len(seen') <= DedupWindow
           /\ seen' # <<>> /\ Last(seen') = id
           /\ Follows(seen', seen, id)
           /\ \A i \in 1 .. Len(seen) : seen[i] # id
<1>0. seen \in Seq(SeqIds) /\ Len(seen) \in Nat /\ Len(seen) <= DedupWindow
      /\ DedupWindow \in Nat \ {0}
  BY DedupWindowAssumption DEF MsgTypes
<1>1. \A i \in 1 .. Len(seen) : seen[i] # id
  BY <1>0 DEF IsDuplicate, ToSet
<1>2. Filter(seen, SeqIds \ {id}) = seen
  <2>1. seen \in Seq(SeqIds \ {id})
    BY <1>0, <1>1
  <2>. QED
    BY <2>1, FilterAll
<1>. DEFINE s == Append(seen, id)
            m == Max({1, Len(s) - DedupWindow + 1})
<1>3. seen' = SubSeq(s, m, Len(s))
  BY <1>2 DEF Track
<1>4. /\ s \in Seq(SeqIds) /\ Len(s) = Len(seen) + 1 /\ s[Len(seen) + 1] = id
      /\ \A i \in 1 .. Len(seen) : s[i] = seen[i]
  BY <1>0
<1>. HIDE DEF s
<1>5. m = IF Len(seen) < DedupWindow THEN 1 ELSE 2
  <2>1. Len(s) - DedupWindow + 1 \in Int
    BY <1>0, <1>4
  <2>2. m = IF Len(s) - DedupWindow + 1 <= 1 THEN 1 ELSE Len(s) - DedupWindow + 1
    BY <2>1, MaxOfTwo
  <2>. QED
    BY <1>0, <1>4, <2>2
<1>. HIDE DEF m
<1>6. m \in 1 .. Len(s) /\ Len(s) \in Nat
  BY <1>0, <1>4, <1>5
<1>7. /\ seen' \in Seq(SeqIds) /\ Len(seen') = Len(s) - m + 1
      /\ \A i \in 1 .. Len(s) - m + 1 : seen'[i] = s[m + i - 1]
  BY <1>3, <1>4, <1>6, SubSeqProperties
<1>8. Len(seen') = IF Len(seen) < DedupWindow THEN Len(seen) + 1 ELSE DedupWindow
  BY <1>0, <1>4, <1>5, <1>7
<1>9. seen'[Len(seen')] = id
  <2>1. Len(seen') \in 1 .. Len(s) - m + 1 /\ m + Len(seen') - 1 = Len(seen) + 1
    BY <1>0, <1>4, <1>6, <1>7
  <2>. QED
    BY <1>4, <1>7, <2>1
<1>10. ASSUME NEW k \in 1 .. Len(seen') - 1
       PROVE  seen'[Len(seen') - k] = seen[Len(seen) + 1 - k]
  <2>1. /\ Len(seen') - k \in 1 .. Len(s) - m + 1
        /\ m + (Len(seen') - k) - 1 = Len(seen) + 1 - k
        /\ Len(seen) + 1 - k \in 1 .. Len(seen)
    BY <1>0, <1>4, <1>6, <1>7
  <2>. QED
    BY <1>4, <1>7, <2>1
<1>11. Follows(seen', seen, id)
  BY <1>8, <1>9, <1>10 DEF Follows
<1>12. Len(seen') <= DedupWindow /\ seen' # <<>>
  BY <1>0, <1>7, <1>8
<1>. QED
  BY <1>1, <1>7, <1>9, <1>11, <1>12 DEF Last
LEMMA RingInvStep == RingInv /\ [RingNext]_ringVars => RingInv'
BY RingTypeStep, WindowStep DEF RingInv

LEMMA SameWindow ==
    ASSUME RingInv, UNCHANGED <<buf, head, tail, len, policy, total_dropped>>
    PROVE  RingInv' /\ Window' = Window
BY DEF RingInv, RingTypeOK, WindowInv, Window, At

LEMMA EmptyGood ==
    ASSUME NEW w, w = <<>>
    PROVE  (\A id : Newest(w, id)) /\ Apart(w) /\ (\A s : Agree(w, s))
BY DEF Newest, Apart, Agree

LEMMA PushEffect ==
    ASSUME RingInv, NEW p \in Slots, RingPush(p)
    PROVE  /\ RingInv' /\ policy' = policy
           /\ policy = "drop_oldest" =>
                \/ Window' = Append(Window, p)
                \/ Window # <<>> /\ Window' = Append(Tail(Window), p)
<1>1. RingInv'
  BY RingInvStep DEF RingNext
<1>2. policy' = policy
  BY DEF RingPush, PushStored, PushOverwrites, PushRefused, PushRaises, Store
<1>3. CASE PushStored(p)
  BY <1>1, <1>2, <1>3, StoreAppends
<1>4. CASE PushOverwrites(p)
  <2>1. Window # <<>>
    <3>1. len > 0
      BY <1>4, CapacityAssumption DEF PushOverwrites, IsFull
    <3>. QED
      BY <3>1, HeadTail
  <2>. QED
    BY <1>1, <1>2, <1>4, <2>1, OverwriteReplaces
<1>5. CASE PushRefused \/ PushRaises
  BY <1>1, <1>2, <1>5 DEF PushRefused, PushRaises
<1>. QED
  BY <1>3, <1>4, <1>5 DEF RingPush

\* Messages leave the buffer: one, all, or none because there are none.
Leaves == RingPop \/ RingDrain \/ RingDrainWithSequences \/ RingClear

LEMMA LeavesEffect ==
    ASSUME RingInv, Leaves
    PROVE  /\ RingInv' /\ policy' = policy
           /\ Window' = <<>> \/ Window' = Window \/ (Window # <<>> /\ Window' = Tail(Window))
<1>1. RingInv'
  BY RingInvStep DEF RingNext, Leaves
<1>2. policy' = policy
  BY DEF Leaves, RingPop, EmptyCall, RingDrain, RingDrainWithSequences, Emptied, RingClear
<1>3. CASE RingDrain \/ RingDrainWithSequences \/ RingClear
  <2>1. len' = 0
    BY <1>3 DEF RingDrain, RingDrainWithSequences, Emptied, RingClear
  <2>2. Window' = <<>>
    BY <2>1 DEF Window
  <2>. QED
    BY <1>1, <1>2, <2>2
<1>4. CASE EmptyCall("pop")
  <2>1. Window' = Window
    BY <1>4, SameWindow DEF EmptyCall
  <2>. QED
    BY <1>1, <1>2, <2>1
<1>5. CASE RingPop /\ ~EmptyCall("pop")
  <2>1. len > 0 /\ len' = len - 1 /\ head' = Succ(head) /\ buf' = [buf EXCEPT ![head] = None]
    BY <1>5 DEF RingPop
  <2>2. Window # <<>> /\ Window' = Tail(Window)
    BY <1>1, <2>1, HeadTail, PopTakesTail
  <2>. QED
    BY <1>1, <1>2, <2>2
<1>. QED
  BY <1>3, <1>4, <1>5 DEF Leaves

LEMMA RememberStep ==
    ASSUME RingInv', Remember, ~stale'
    PROVE  ~stale \/ Window' = <<>>
<1>1. len' \in Nat
  BY CapacityAssumption DEF RingInv, RingTypeOK
<1>2. ~stale \/ ~(len' > 0)
  BY Zenon DEF Remember
<1>3. ~(len' > 0) => len' = 0
  BY <1>1
<1>4. len' = 0 => Window' = <<>>
  BY DEF Window
<1>. QED
  BY <1>2, <1>3, <1>4, Zenon

LEMMA LeavesKeeps ==
    ASSUME MsgInv, Leaves, Remember, UNCHANGED <<enable_dedup, last_sequence_id, seen>>
    PROVE  MsgInv'
<1>1. /\ RingInv' /\ policy' = policy
      /\ Window' = <<>> \/ Window' = Window \/ (Window # <<>> /\ Window' = Tail(Window))
  BY LeavesEffect DEF MsgInv
<1>2. MsgTypes' /\ BoundaryIsRefused'
  BY DEF MsgInv, MsgTypes, BoundaryIsRefused
<1>3. Window \in Seq(Slots)
  BY WindowIsSeq DEF MsgInv
<1>4. /\ \A id : Newest(Window, id) => Newest(Window', id)
      /\ Apart(Window) => Apart(Window')
      /\ \A s : Agree(Window, s) => Agree(Window', s)
  <2>1. CASE Window' = <<>>
    BY <2>1, EmptyGood
  <2>2. CASE Window' = Window
    BY <2>2, Zenon
  <2>3. CASE Window # <<>> /\ Window' = Tail(Window)
    <3>1. /\ \A id : Newest(Window, id) => Newest(Tail(Window), id)
          /\ Apart(Window) => Apart(Tail(Window))
          /\ \A s : Agree(Window, s) => Agree(Tail(Window), s)
      BY <1>3, <2>3, DropOldest
    <3>. QED
      BY <2>3, <3>1, Zenon
  <2>. QED
    BY <1>1, <2>1, <2>2, <2>3
<1>5. policy' = "drop_oldest" => Newest(Window', last_sequence_id')
  BY <1>1, <1>4, Zenon DEF MsgInv
<1>6. ASSUME policy' = "drop_oldest", enable_dedup', ~stale'
      PROVE  Apart(Window') /\ Agree(Window', seen')
  <2>1. CASE Window' = <<>>
    BY <2>1, EmptyGood
  <2>2. CASE ~stale
    <3>1. policy = "drop_oldest" /\ enable_dedup
      BY <1>1, <1>6, Zenon
    <3>2. Apart(Window) /\ Agree(Window, seen)
      BY <2>2, <3>1, Zenon DEF MsgInv
    <3>. QED
      BY <1>4, <3>2, Zenon
  <2>. QED
    BY <1>1, <1>6, <2>1, <2>2, RememberStep, Zenon
<1>. QED
  BY <1>1, <1>2, <1>5, <1>6, Zenon DEF MsgInv
LEMMA PushUnnumberedKeeps ==
    ASSUME MsgInv, NEW item \in Items, PushUnnumbered(item)
    PROVE  MsgInv'
<1>. DEFINE p == [item |-> item, seq |-> None]
<1>0. p \in Slots /\ p.seq = None /\ RingPush(p) /\ Remember
      /\ UNCHANGED <<enable_dedup, last_sequence_id, seen>>
  BY DEF PushUnnumbered, Slots
<1>. HIDE DEF p
<1>1. /\ RingInv' /\ policy' = policy
      /\ policy = "drop_oldest" =>
            \/ Window' = Append(Window, p)
            \/ Window # <<>> /\ Window' = Append(Tail(Window), p)
  BY <1>0, PushEffect DEF MsgInv
<1>2. MsgTypes' /\ BoundaryIsRefused'
  BY <1>0 DEF MsgInv, MsgTypes, BoundaryIsRefused
<1>3. Window \in Seq(Slots)
  BY WindowIsSeq DEF MsgInv
<1>4. ASSUME policy = "drop_oldest"
      PROVE  /\ \A id : Newest(Window, id) => Newest(Window', id)
             /\ Apart(Window) => Apart(Window')
             /\ \A s : Agree(Window, s) => Agree(Window', s)
  <2>0. \A w \in Seq(Slots) : /\ \A id : Newest(w, id) => Newest(Append(w, p), id)
                              /\ Apart(w) => Apart(Append(w, p))
                              /\ \A s : Agree(w, s) => Agree(Append(w, p), s)
    BY <1>0, StoreUnnumbered
  <2>1. CASE Window' = Append(Window, p)
    BY <1>3, <2>0, <2>1, Zenon
  <2>2. CASE Window # <<>> /\ Window' = Append(Tail(Window), p)
    <3>1. /\ \A id : Newest(Window, id) => Newest(Tail(Window), id)
          /\ Apart(Window) => Apart(Tail(Window))
          /\ \A s : Agree(Window, s) => Agree(Tail(Window), s)
      BY <1>3, <2>2, DropOldest
    <3>2. Tail(Window) \in Seq(Slots)
      BY <1>3, <2>2, TailParts
    <3>. QED
      BY <2>0, <2>2, <3>1, <3>2, Zenon
  <2>. QED
    BY <1>1, <1>4, <2>1, <2>2
<1>5. policy' = "drop_oldest" => Newest(Window', last_sequence_id')
  BY <1>0, <1>1, <1>4, Zenon DEF MsgInv
<1>6. ASSUME policy' = "drop_oldest", enable_dedup', ~stale'
      PROVE  Apart(Window') /\ Agree(Window', seen')
  <2>1. CASE Window' = <<>>
    BY <2>1, EmptyGood
  <2>2. CASE ~stale
    <3>1. policy = "drop_oldest" /\ enable_dedup
      BY <1>0, <1>1, <1>6, Zenon
    <3>2. Apart(Window) /\ Agree(Window, seen)
      BY <2>2, <3>1, Zenon DEF MsgInv
    <3>. QED
      BY <1>0, <1>4, <3>1, <3>2, Zenon
  <2>. QED
    BY <1>0, <1>1, <1>6, <2>1, <2>2, RememberStep, Zenon
<1>. QED
  BY <1>1, <1>2, <1>5, <1>6, Zenon DEF MsgInv

LEMMA PushNumberedKeeps ==
    ASSUME MsgInv, NEW item \in Items, NEW id \in SeqIds, PushNumbered(item, id)
    PROVE  MsgInv'
<1>. DEFINE p == [item |-> item, seq |-> id]
<1>0. /\ p \in Slots /\ p.seq = id /\ id # None
      /\ RingPush(p) /\ Remember /\ last_sequence_id' = id
      /\ ~(enable_dedup /\ IsDuplicate(id))
      /\ enable_dedup' = enable_dedup
  BY NoIdAssumption DEF PushNumbered, Slots
<1>0a. enable_dedup => Track(id) /\ ~IsDuplicate(id)
  BY Zenon DEF PushNumbered
<1>0b. ~enable_dedup => seen' = seen
  BY Zenon DEF PushNumbered
<1>. HIDE DEF p
<1>1. /\ RingInv' /\ policy' = policy
      /\ policy = "drop_oldest" =>
            \/ Window' = Append(Window, p)
            \/ Window # <<>> /\ Window' = Append(Tail(Window), p)
  BY <1>0, PushEffect DEF MsgInv
<1>2. MsgTypes /\ Window \in Seq(Slots)
  BY WindowIsSeq DEF MsgInv
<1>3. ASSUME enable_dedup
      PROVE  /\ seen' \in Seq(SeqIds) /\ Len(seen') <= DedupWindow
             /\ seen' # <<>> /\ Last(seen') = id
             /\ Follows(seen', seen, id)
             /\ \A i \in 1 .. Len(seen) : seen[i] # id
  BY <1>0a, <1>2, <1>3, TrackFollows
<1>4. MsgTypes' /\ BoundaryIsRefused'
  <2>1. CASE enable_dedup
    <3>1. seen' \in Seq(SeqIds) /\ Len(seen') <= DedupWindow /\ Last(seen') = id
      BY <1>3, <2>1
    <3>. QED
      BY <1>0, <3>1 DEF MsgTypes, BoundaryIsRefused
  <2>2. CASE ~enable_dedup
    <3>1. seen' = seen /\ ~enable_dedup'
      BY <1>0, <1>0b, <2>2, Zenon
    <3>2. MsgTypes'
      BY <1>0, <1>2, <3>1 DEF MsgTypes
    <3>. QED
      BY <3>1, <3>2, Zenon DEF BoundaryIsRefused
  <2>. QED
    BY <2>1, <2>2
<1>5. ASSUME policy = "drop_oldest"
      PROVE  \E w \in Seq(Slots) : /\ Window' = Append(w, p)
                                   /\ Apart(Window) => Apart(w)
                                   /\ \A s : Agree(Window, s) => Agree(w, s)
  <2>1. CASE Window' = Append(Window, p)
    BY <1>2, <2>1, Zenon
  <2>2. CASE Window # <<>> /\ Window' = Append(Tail(Window), p)
    <3>1. /\ Apart(Window) => Apart(Tail(Window))
          /\ \A s : Agree(Window, s) => Agree(Tail(Window), s)
      BY <1>2, <2>2, DropOldest
    <3>2. Tail(Window) \in Seq(Slots)
      BY <1>2, <2>2, TailParts
    <3>. QED
      BY <2>2, <3>1, <3>2, Zenon
  <2>. QED
    BY <1>1, <1>5, <2>1, <2>2
<1>6. policy' = "drop_oldest" => Newest(Window', last_sequence_id')
  <2>. SUFFICES ASSUME policy = "drop_oldest" PROVE Newest(Window', id)
    BY <1>0, <1>1, Zenon
  <2>1. PICK w \in Seq(Slots) : Window' = Append(w, p)
    BY <1>5, Zenon
  <2>2. Newest(Append(w, p), id)
    BY <1>0, StoreNewest
  <2>. QED
    BY <2>1, <2>2, Zenon
<1>7. ASSUME policy' = "drop_oldest", enable_dedup', ~stale'
      PROVE  Apart(Window') /\ Agree(Window', seen')
  <2>0. policy = "drop_oldest" /\ enable_dedup
    BY <1>0, <1>1, <1>7, Zenon
  <2>1. PICK w \in Seq(Slots) : /\ Window' = Append(w, p)
                                /\ Apart(Window) => Apart(w)
                                /\ \A s : Agree(Window, s) => Agree(w, s)
    BY <1>5, <2>0, Zenon
  <2>2. ~stale
    <3>1. Window' # <<>>
      BY <1>0, <2>1
    <3>. QED
      BY <1>0, <1>1, <1>7, <3>1, RememberStep, Zenon
  <2>3. Apart(w) /\ Agree(w, seen)
    BY <2>0, <2>1, <2>2, Zenon DEF MsgInv
  <2>4. /\ seen \in Seq(SeqIds) /\ Len(seen) <= DedupWindow
        /\ Follows(seen', seen, p.seq) /\ \A i \in 1 .. Len(seen) : seen[i] # p.seq
    BY <1>0, <1>2, <1>3, <2>0 DEF MsgTypes
  <2>5. p.seq # None
    BY <1>0
  <2>6. Apart(Append(w, p)) /\ Agree(Append(w, p), seen')
    BY <1>0, <2>3, <2>4, <2>5, StoreNumbered
  <2>. QED
    BY <2>1, <2>6, Zenon
<1>. QED
  BY <1>1, <1>4, <1>6, <1>7, Zenon DEF MsgInv

\* Nothing happens to the messages and the ids.
LEMMA IdleKeeps ==
    ASSUME MsgInv, UNCHANGED <<buf, head, tail, len, policy, total_dropped>>,
           UNCHANGED <<enable_dedup, last_sequence_id, seen, stale>>
    PROVE  MsgInv'
<1>1. RingInv' /\ Window' = Window /\ policy' = policy
  BY SameWindow DEF MsgInv
<1>2. MsgTypes' /\ BoundaryIsRefused'
  BY DEF MsgInv, MsgTypes, BoundaryIsRefused
<1>3. policy' = "drop_oldest" => Newest(Window', last_sequence_id')
  BY <1>1, Zenon DEF MsgInv
<1>4. ASSUME policy' = "drop_oldest", enable_dedup', ~stale'
      PROVE  Apart(Window') /\ Agree(Window', seen')
  <2>1. policy = "drop_oldest" /\ enable_dedup /\ ~stale
    BY <1>1, <1>4, Zenon
  <2>. QED
    BY <1>1, <2>1, Zenon DEF MsgInv
<1>. QED
  BY <1>1, <1>2, <1>3, <1>4, Zenon DEF MsgInv

LEMMA MsgPushKeeps ==
    ASSUME MsgInv, NEW item \in Items, NEW id \in SeqIds, MsgPush(item, id)
    PROVE  MsgInv'
<1>1. CASE PushDuplicate(id)
  BY <1>1, IdleKeeps DEF PushDuplicate
<1>2. CASE PushNumbered(item, id)
  BY <1>2, PushNumberedKeeps
<1>. QED
  BY <1>1, <1>2 DEF MsgPush

LEMMA ForgetKeeps ==
    ASSUME MsgInv, ClearDedup \/ Reset
    PROVE  MsgInv'
<1>1. seen' = <<>>
  BY DEF ClearDedup, Reset
<1>2. MsgTypes' /\ BoundaryIsRefused'
  <2>1. MsgTypes'
    BY <1>1, DedupWindowAssumption DEF ClearDedup, Reset, MsgInv, MsgTypes
  <2>. QED
    BY <1>1, <2>1 DEF BoundaryIsRefused
<1>3. CASE ClearDedup
  <2>1. RingInv' /\ Window' = Window /\ policy' = policy /\ last_sequence_id' = last_sequence_id
    BY <1>3, SameWindow DEF ClearDedup, MsgInv, ringVars
  <2>2. policy' = "drop_oldest" => Newest(Window', last_sequence_id')
    BY <2>1, Zenon DEF MsgInv
  <2>3. ASSUME ~stale' PROVE Apart(Window') /\ Agree(Window', seen')
    <3>1. ~(len > 0)
      BY <1>3, <2>3, Zenon DEF ClearDedup
    <3>2. len = 0
      BY <3>1, CapacityAssumption DEF MsgInv, RingInv, RingTypeOK
    <3>3. Window' = <<>>
      BY <2>1, <3>2, EmptyWindow
    <3>. QED
      BY <3>3, EmptyGood
  <2>. QED
    BY <1>2, <2>1, <2>2, <2>3, Zenon DEF MsgInv
<1>4. CASE Reset
  <2>1. RingInv' /\ RingClear
    BY <1>4, LeavesEffect DEF Reset, MsgInv, Leaves
  <2>2. Window' = <<>>
    BY <2>1 DEF RingClear, Window
  <2>. QED
    BY <1>2, <2>1, <2>2, EmptyGood, Zenon DEF MsgInv
<1>. QED
  BY <1>3, <1>4

LEMMA MsgInitInv == MsgInit => MsgInv
<1>. SUFFICES ASSUME MsgInit PROVE MsgInv
  OBVIOUS
<1>1. RingInit => RingInv
  <2>1. RingInit => RingTypeOK
    BY CapacityAssumption, MaxDroppedAssumption DEF RingInit, RingTypeOK, Index, Policies
  <2>2. RingInit => WindowInv
    BY <2>1, PosValue, CapacityAssumption DEF RingInit, WindowInv, At, Pos, RingTypeOK, Index
  <2>. QED
    BY <2>1, <2>2 DEF RingInv
<1>2. Window = <<>> /\ seen = <<>> /\ last_sequence_id = None
  BY EmptyWindow DEF MsgInit, RingInit
<1>3. RingInv
  BY <1>1 DEF MsgInit
<1>4. MsgTypes /\ BoundaryIsRefused
  BY <1>2, DedupWindowAssumption DEF MsgTypes, BoundaryIsRefused
<1>. QED
  BY <1>2, <1>3, <1>4, EmptyGood, Zenon DEF MsgInv

LEMMA MsgStepInv == MsgInv /\ [MsgNext]_msgVars => MsgInv'
<1>. SUFFICES ASSUME MsgInv, [MsgNext]_msgVars PROVE MsgInv'
  OBVIOUS
<1>1. CASE \E item \in Items : PushUnnumbered(item)
  BY <1>1, PushUnnumberedKeeps
<1>2. CASE \E item \in Items, id \in SeqIds : MsgPush(item, id)
  BY <1>2, MsgPushKeeps
<1>3. CASE MsgTake \/ MsgClear
  <2>1. Leaves /\ Remember /\ UNCHANGED <<enable_dedup, last_sequence_id, seen>>
    BY <1>3, Zenon DEF MsgTake, MsgClear, Leaves
  <2>. QED
    BY <2>1, LeavesKeeps
<1>4. CASE ClearDedup \/ Reset
  BY <1>4, ForgetKeeps
<1>5. CASE UNCHANGED msgVars
  BY <1>5, IdleKeeps DEF msgVars, ringVars
<1>. QED
  BY <1>1, <1>2, <1>3, <1>4, <1>5 DEF MsgNext

LEMMA MsgInvImplies == MsgInv => BoundaryIsRefused /\ LastIdIsNewest /\ DuplicatesFarApart
<1>. SUFFICES ASSUME MsgInv PROVE BoundaryIsRefused /\ LastIdIsNewest /\ DuplicatesFarApart
  OBVIOUS
<1>1. Len(Window) = len
  BY WindowIsSeq DEF MsgInv
<1>2. LastIdIsNewest
  BY <1>1 DEF MsgInv, Newest, LastIdIsNewest
<1>3. DuplicatesFarApart
  BY <1>1, Zenon DEF MsgInv, Apart, Numbered, DuplicatesFarApart
<1>. QED
  BY <1>2, <1>3 DEF MsgInv

\* The id a replay starts from is the newest of the ids that are refused as
\* duplicates, for every capacity and length of the window (buffer.py push()).
THEOREM BoundaryTheorem == MsgSpec => []BoundaryIsRefused
BY MsgInitInv, MsgStepInv, MsgInvImplies, PTL DEF MsgSpec

\* With drop_oldest the id a replay starts from is that of the newest numbered
\* message that is buffered.
THEOREM NewestTheorem == MsgSpec => []LastIdIsNewest
BY MsgInitInv, MsgStepInv, MsgInvImplies, PTL DEF MsgSpec

\* With drop_oldest and deduplication, two buffered messages with one id have
\* dedup_window numbered messages between them at least.
THEOREM DuplicatesTheorem == MsgSpec => []DuplicatesFarApart
BY MsgInitInv, MsgStepInv, MsgInvImplies, PTL DEF MsgSpec
-----------------------------------------------------------------------------
(***************************************************************************)
(* The session.                                                            *)
(***************************************************************************)
SessionTypes ==
    /\ mode \in {"none", "sequence_id", "full_buffer"}
    /\ phase \in {"down", "replaying", "running"}
    /\ conns \in Nat /\ srv \in 0 .. MaxMsgs /\ pos \in Nat \ {0}
    /\ chan \in Seq(0 .. MaxMsgs) /\ old \subseteq Nat \X (0 .. MaxMsgs)
    /\ last_seq \in Nat /\ early \subseteq Nat
    /\ got \in Seq(Items) /\ queue \in Seq(Items)

\* The message loop has begun before the heartbeat, and after a connection.
Started == /\ phase \notin {"down", "replaying"} \/ hb = "off"
           /\ phase # "down" => conns > 0
           /\ \A c \in early : c <= conns

\* Before on_replay() is called, only a server that does not wait for it speaks.
Silent == ToBeAsked => /\ last_seq # 0
                       /\ conns \notin early => \A k \in 1 .. Len(chan) : chan[k] = 0

\* The program knows of no message that the server has not numbered yet.
Known == Position <= srv /\ \A k \in 1 .. Len(chan) : chan[k] <= srv

\* Whatever a channel s brings, the messages before it were given or come first.
Covered(s, G) == \A k \in 1 .. Len(s) : \A m \in 1 .. s[k] - 1 :
    m \in G \/ \E l \in 1 .. k - 1 : s[l] = m

Given == {Application[k] : k \in 1 .. Len(Application)}

ReplayInv == mode = "sequence_id" /\ ~unasked /\ ~Interrupted =>
    /\ \A late \in old : \A m \in 1 .. late[2] - 1 : m \in Given
    /\ conns \notin early => Covered(chan, Given) /\ \A m \in 1 .. Position : m \in Given
    /\ phase = "replaying" => \A m \in 1 .. Position : m \in Given
    /\ phase = "replaying" => \A m \in 1 .. last_seq : m \in Given
    /\ phase = "running" /\ ~lost =>
           \A m \in 1 .. pos - 1 : m \in Given \/ \E k \in 1 .. Len(chan) : chan[k] = m

\* The next messages are newer than every one before, over all connections.
Rising(s) == \A i, j \in 1 .. Len(s) : i < j /\ s[j] # 0 => s[i] < s[j]

\* The same of messages that may be repeated if the server sent them again.
Ordered(s) == \A i, j \in 1 .. Len(s) : i < j => s[i] < s[j] \/ (s[i] = s[j] /\ s[i] \in resent)

OrderInv == ~unnumbered /\ ~orphaned /\ early = {} =>
    /\ old = {}
    /\ Ordered(Application) /\ Rising(chan)
    /\ \A i \in 1 .. Len(Application) : Application[i] <= Position
    /\ \A i \in 1 .. Len(seen) : seen[i] <= Position
    /\ \A i \in 1 .. Len(chan) :
           chan[i] # 0 => Position < chan[i] \/ (Position = chan[i] /\ chan[i] \in resent)
    /\ phase # "down" => /\ Position < pos \/ (Position = pos /\ pos \in resent)
                         /\ \A i \in 1 .. Len(chan) : chan[i] < pos
    /\ ToBeAsked => last_seq = Position
    /\ conns = 0 => Position = 0

\* What is sent back, is to be sent back, or is buffered, in this order.
Outgoing == echoed \o (toSend \o ItemsOf(Window))

Values(s) == {s[k] : k \in 1 .. Len(s)}

EchoTypes == /\ echoed \in Seq(Items) /\ toSend \in Seq(Items)
             /\ mode # "full_buffer" => echoed = <<>> /\ toSend = <<>>
             /\ phase # "replaying" => toSend = <<>>
             /\ Values(Outgoing) \subseteq Given

EchoOrder == mode = "full_buffer" /\ ~orphaned =>
    /\ old = {}
    /\ Rising(Outgoing) /\ Rising(chan)
    /\ \A x \in Values(Outgoing) \cup Values(chan) : x <= srv /\ (phase # "down" => x < pos)
    /\ \A x \in Values(Outgoing), y \in Values(chan) : y # 0 => x < y
    /\ conns = 0 => Outgoing = <<>>

\* A heartbeat that waits for an answer has one exactly if one was read.
BeatInv == hb = "pong" => IF answered THEN event ELSE pending /\ ~event

LEMMA NumbersOfMessages ==
    /\ MaxMsgs \in Nat /\ Items = 1 .. MaxMsgs /\ SeqIds = 1 .. MaxMsgs
    /\ Items \subseteq 0 .. MaxMsgs /\ Items \subseteq Nat
BY SessionAssumption

LEMMA PositionType ==
    ASSUME MsgTypes
    PROVE  Position \in 0 .. MaxMsgs
BY NumbersOfMessages DEF MsgTypes, Position

LEMMA ApplicationType ==
    ASSUME SessionTypes
    PROVE  /\ Application \in Seq(Items) /\ Application \in Seq(Nat)
           /\ Len(Application) \in Nat
           /\ \A k \in 1 .. Len(Application) : Application[k] \in Items
           /\ Given \subseteq Items
<1>1. Application \in Seq(Items)
  BY DEF SessionTypes, Application
<1>2. Application \in Seq(Nat)
  BY <1>1, NumbersOfMessages
<1>. QED
  BY <1>1, <1>2 DEF Given

\* What a channel loses when a connection is lost is its end.
LEMMA CutChannel ==
    ASSUME NEW X, NEW s \in Seq(X), NEW n \in 0 .. Len(s)
    PROVE  /\ SubSeq(s, 1, n) \in Seq(X) /\ Len(SubSeq(s, 1, n)) = n
           /\ n <= Len(s) /\ Len(s) \in Nat
           /\ \A k \in 1 .. n : SubSeq(s, 1, n)[k] = s[k]
<1>1. Len(s) \in Nat /\ n <= Len(s) /\ 1 \in 1 .. Len(s) + 1 /\ n \in 1 - 1 .. Len(s)
  OBVIOUS
<1>2. SubSeq(s, 1, n) \in Seq(X)
  BY <1>1
<1>3. Len(SubSeq(s, 1, n)) = n
  BY <1>1
<1>4. \A k \in 1 .. n : SubSeq(s, 1, n)[k] = s[k]
  BY <1>1
<1>. QED
  BY <1>1, <1>2, <1>3, <1>4

\* One turn of the message loop.
LEMMA HandleEffect ==
    ASSUME SessionTypes, NEW m \in 0 .. MaxMsgs, Handle(m), UNCHANGED got
    PROVE  /\ queue' \in Seq(Items)
           /\ \/ /\ m = 0 /\ UNCHANGED <<msgVars, unnumbered, queue>>
                 /\ Application' = Application
              \/ /\ m \in Items
                 /\ MsgPush(m, m) \/ PushUnnumbered(m)
                 /\ Application' = Append(Application, m)
<1>1. CASE m = 0
  BY <1>1 DEF Handle, SessionTypes, Application
<1>2. CASE m # 0
  <2>1. m \in Items
    BY <1>2, NumbersOfMessages
  <2>2. queue' = Append(queue, m) /\ (MsgPush(m, m) \/ PushUnnumbered(m))
    BY <1>2, Zenon DEF Handle, TrackReceived
  <2>3. Application' = Append(Application, m)
    BY <2>1, <2>2 DEF SessionTypes, Application
  <2>4. queue' \in Seq(Items)
    BY <2>1, <2>2 DEF SessionTypes
  <2>. QED
    BY <2>1, <2>2, <2>3, <2>4
<1>. QED
  BY <1>1, <1>2

\* The head of a sequence may as well be the end of the one before it.
LEMMA HeadMoves ==
    ASSUME NEW X, NEW e \in Seq(X), NEW t \in Seq(X), t # <<>>
    PROVE  /\ Append(e, Head(t)) \o Tail(t) = e \o t
           /\ Append(e, Head(t)) \in Seq(X) /\ Tail(t) \in Seq(X)
<1>. DEFINE l == Append(e, Head(t)) \o Tail(t)
            r == e \o t
<1>1. /\ Head(t) = t[1] /\ Head(t) \in X /\ Tail(t) \in Seq(X)
      /\ Len(Tail(t)) = Len(t) - 1 /\ Len(t) \in Nat \ {0} /\ Len(e) \in Nat
      /\ \A i \in 1 .. Len(t) - 1 : Tail(t)[i] = t[i + 1]
  BY HeadTailProperties
<1>2. Append(e, Head(t)) \in Seq(X) /\ Len(Append(e, Head(t))) = Len(e) + 1
  BY <1>1
<1>3. l \in Seq(X) /\ r \in Seq(X) /\ Len(l) = Len(e) + Len(t) /\ Len(r) = Len(e) + Len(t)
  BY <1>1, <1>2
<1>4. ASSUME NEW i \in 1 .. Len(e) + Len(t)
      PROVE  l[i] = r[i]
  <2>1. CASE i <= Len(e)
    BY <1>1, <1>2, <2>1
  <2>2. CASE i = Len(e) + 1
    BY <1>1, <1>2, <2>2
  <2>3. CASE i > Len(e) + 1
    BY <1>1, <1>2, <2>3
  <2>. QED
    BY <1>1, <2>1, <2>2, <2>3
<1>. HIDE DEF l, r
<1>5. l = r
  BY <1>1, <1>3, <1>4, SeqEqual
<1>. QED
  BY <1>1, <1>2, <1>5 DEF l, r

LEMMA RecvKeepsApplication ==
    ASSUME SessionTypes, Recv
    PROVE  Application' = Application /\ got' \in Seq(Items) /\ queue' \in Seq(Items)
<1>1. \A e, t \in Seq(Items) :
         t # <<>> => /\ Append(e, Head(t)) \o Tail(t) = e \o t
                     /\ Append(e, Head(t)) \in Seq(Items) /\ Tail(t) \in Seq(Items)
  BY HeadMoves
<1>2. got \in Seq(Items) /\ queue \in Seq(Items)
  BY DEF SessionTypes
<1>3. queue # <<>> /\ got' = Append(got, Head(queue)) /\ queue' = Tail(queue)
  BY DEF Recv
<1>. QED
  BY <1>1, <1>2, <1>3, Zenon DEF Application

LEMMA HeadOfChannel ==
    ASSUME NEW X, NEW s \in Seq(X), s # <<>>
    PROVE  /\ Head(s) \in X /\ Head(s) = s[1] /\ Len(s) \in Nat /\ Len(s) >= 1
           /\ Tail(s) \in Seq(X) /\ Len(Tail(s)) = Len(s) - 1
           /\ \A k \in 1 .. Len(Tail(s)) : Tail(s)[k] = s[k + 1]
<1>1. Len(s) \in Nat /\ Len(s) >= 1
  OBVIOUS
<1>. QED
  BY <1>1

LEMMA AppendToChannel ==
    ASSUME NEW X, NEW s \in Seq(X), NEW x \in X
    PROVE  /\ Append(s, x) \in Seq(X) /\ Len(Append(s, x)) = Len(s) + 1
           /\ Len(s) \in Nat
           /\ \A k \in 1 .. Len(s) : Append(s, x)[k] = s[k]
           /\ Append(s, x)[Len(s) + 1] = x
OBVIOUS

\* The session drives the message buffer through its operations.
LEMMA SessionDrivesBuffer ==
    ASSUME SessionTypes, SessionNext
    PROVE  [MsgNext]_msgVars
<1>1. CASE Receive
  <2>1. chan # <<>> /\ Handle(Head(chan)) /\ UNCHANGED got
    BY <1>1, Zenon DEF Receive
  <2>2. Head(chan) \in 0 .. MaxMsgs
    BY <2>1, HeadOfChannel DEF SessionTypes
  <2>. QED
    BY <2>1, <2>2, HandleEffect, NumbersOfMessages, Zenon DEF MsgNext
<1>2. CASE ReceiveOld
  <2>1. PICK late \in old : Handle(late[2]) /\ UNCHANGED got
    BY <1>2, Zenon DEF ReceiveOld
  <2>2. late[2] \in 0 .. MaxMsgs
    BY <2>1 DEF SessionTypes
  <2>. QED
    BY <2>1, <2>2, HandleEffect, NumbersOfMessages, Zenon DEF MsgNext
<1>3. CASE Connected
  <2>1. \/ UNCHANGED msgVars
        \/ RingDrain /\ Remember /\ UNCHANGED <<enable_dedup, last_sequence_id, seen>>
    BY <1>3, Zenon DEF Connected
  <2>. QED
    BY <2>1, Zenon DEF MsgNext, MsgTake
<1>4. CASE Produce \/ Transmit \/ Answer \/ Lose \/ Pause \/ Resume
  BY <1>4 DEF Produce, Transmit, Answer, Lose, Pause, Resume
<1>5. CASE AskReplay \/ SendBack \/ SentBack
  BY <1>5 DEF AskReplay, SendBack, SentBack
<1>6. CASE Notice \/ Recv \/ Ping \/ PongSeen \/ HeartbeatTimesOut
  BY <1>6 DEF Notice, Recv, Ping, PongSeen, HeartbeatTimesOut
<1>. QED
  BY <1>1, <1>2, <1>3, <1>4, <1>5, <1>6 DEF SessionNext
LEMMA SessionInitTypes == SessionInit => SessionTypes /\ Started /\ Silent /\ Known
BY NumbersOfMessages DEF SessionInit, SessionTypes, Started, Silent, ToBeAsked, Known, MsgInit,
                         Position

LEMMA TypesStep ==
    ASSUME SessionTypes, MsgTypes, Silent, SessionNext
    PROVE  SessionTypes'
<1>0. Position \in Nat /\ MaxMsgs \in Nat
  BY PositionType, NumbersOfMessages
<1>1. CASE Produce \/ Pause \/ Resume
  <2>1. /\ UNCHANGED <<mode, phase, conns, pos, chan, old, last_seq, early, got, queue>>
        /\ srv' = srv \/ (srv < MaxMsgs /\ srv' = srv + 1)
    BY <1>1 DEF Produce, Pause, Resume, connVars, replayVars, appVars
  <2>2. srv' \in 0 .. MaxMsgs
    BY <1>0, <2>1 DEF SessionTypes
  <2>. QED
    BY <2>1, <2>2 DEF SessionTypes
<1>2. CASE Transmit
  <2>1. chan' = Append(chan, pos) /\ pos \in 0 .. MaxMsgs /\ pos' = pos + 1
    BY <1>0, <1>2 DEF Transmit, SessionTypes
  <2>2. chan' \in Seq(0 .. MaxMsgs)
    BY <2>1, AppendToChannel DEF SessionTypes
  <2>. QED
    BY <1>2, <2>1, <2>2 DEF Transmit, SessionTypes, replayVars, appVars
<1>3. CASE Answer
  <2>1. chan' \in Seq(0 .. MaxMsgs)
    BY <1>0, <1>3, AppendToChannel DEF Answer, SessionTypes
  <2>. QED
    BY <1>3, <2>1 DEF Answer, SessionTypes, connVars, replayVars, appVars
<1>4. CASE Lose
  <2>0. PICK n \in 0 .. Len(chan) : chan' = SubSeq(chan, 1, n)
    BY <1>4 DEF Lose
  <2>1. chan' \in Seq(0 .. MaxMsgs)
    <3>1. chan \in Seq(0 .. MaxMsgs)
      BY DEF SessionTypes
    <3>. QED
      BY <2>0, <3>1, CutChannel
  <2>. QED
    BY <1>4, <2>1 DEF Lose, SessionTypes, replayVars, appVars
<1>5. CASE Connected
  <2>1. pos' \in {1, srv + 1, MaxMsgs + 1} /\ chan' = <<>> /\ conns' = conns + 1
        /\ phase' \in {"running", "replaying"} /\ UNCHANGED <<mode, appVars, old, srv, early>>
        /\ last_seq' \in {last_seq, Position}
    BY <1>5, Zenon DEF Connected, StartLoop
  <2>. QED
    BY <1>0, <2>1 DEF SessionTypes, appVars
<1>6. CASE AskReplay
  <2>1. (pos' \in {last_seq + 1, srv + 1} \/ pos' = last_seq) /\ phase' = "running"
        /\ UNCHANGED <<conns, mode, appVars, chan, old, srv, last_seq, early>> /\ ToBeAsked
    BY <1>6, Zenon DEF AskReplay, StartLoop
  <2>. QED
    BY <1>0, <2>1 DEF SessionTypes, appVars, Silent
<1>7. CASE SendBack \/ SentBack
  BY <1>7 DEF SendBack, SentBack, StartLoop, SessionTypes, connVars, replayVars, appVars
<1>8. CASE Receive
  <2>1. chan # <<>> /\ Handle(Head(chan)) /\ UNCHANGED got /\ chan' = Tail(chan)
        /\ UNCHANGED <<connVars, replayVars, old, srv>>
    BY <1>8, Zenon DEF Receive
  <2>2. Head(chan) \in 0 .. MaxMsgs /\ chan' \in Seq(0 .. MaxMsgs)
    BY <2>1, HeadOfChannel DEF SessionTypes
  <2>3. queue' \in Seq(Items)
    BY <2>1, <2>2, HandleEffect
  <2>. QED
    BY <2>1, <2>2, <2>3 DEF SessionTypes, connVars, replayVars
<1>9. CASE ReceiveOld
  <2>1. PICK late \in old : /\ Handle(late[2]) /\ UNCHANGED got /\ old' = old \ {late}
                            /\ UNCHANGED <<connVars, replayVars, chan, srv>>
    BY <1>9, Zenon DEF ReceiveOld
  <2>2. late[2] \in 0 .. MaxMsgs /\ old' \subseteq Nat \X (0 .. MaxMsgs)
    BY <2>1 DEF SessionTypes
  <2>3. queue' \in Seq(Items)
    BY <2>1, <2>2, HandleEffect
  <2>. QED
    BY <2>1, <2>2, <2>3 DEF SessionTypes, connVars, replayVars
<1>10. CASE Recv
  BY <1>10, RecvKeepsApplication DEF Recv, SessionTypes, connVars, replayVars
<1>11. CASE Notice \/ Ping \/ PongSeen
  <2>1. /\ phase' \in {phase, "down"}
        /\ UNCHANGED <<conns, pos, mode, srv, got, queue, chan, old, last_seq, early>>
    BY <1>11 DEF Notice, Ping, PongSeen, Disconnect, connVars, replayVars, appVars
  <2>. QED
    BY <2>1 DEF SessionTypes
<1>12. CASE HeartbeatTimesOut
  <2>1. /\ phase' = "down" /\ chan' = <<>>
        /\ UNCHANGED <<conns, pos, mode, srv, got, queue, last_seq, early>>
        /\ \/ old' = old
           \/ \E m \in NextFrames : old' = old \cup {<<conns, m>>}
    BY <1>12, Zenon DEF HeartbeatTimesOut, Disconnect, replayVars, appVars
  <2>2. NextFrames \subseteq 0 .. MaxMsgs
    <3>1. CASE chan # <<>>
      <4>1. chan \in Seq(0 .. MaxMsgs)
        BY DEF SessionTypes
      <4>2. Head(chan) \in 0 .. MaxMsgs
        BY <3>1, <4>1, HeadOfChannel
      <4>3. NextFrames = {Head(chan)}
        BY <3>1, Zenon DEF NextFrames
      <4>. QED
        BY <4>2, <4>3
    <3>2. CASE chan = <<>>
      <4>1. pos \in Nat /\ MaxMsgs \in Nat
        BY NumbersOfMessages DEF SessionTypes
      <4>. QED
        BY <3>2, <4>1 DEF NextFrames
    <3>. QED
      BY <3>1, <3>2
  <2>3. old' \subseteq Nat \X (0 .. MaxMsgs)
    BY <2>1, <2>2 DEF SessionTypes
  <2>4. <<>> \in Seq(0 .. MaxMsgs)
    OBVIOUS
  <2>. QED
    BY <2>1, <2>3, <2>4 DEF SessionTypes
<1>. QED
  BY <1>1, <1>2, <1>3, <1>4, <1>5, <1>6, <1>7, <1>8, <1>9, <1>10, <1>11, <1>12 DEF SessionNext

LEMMA StartedStep ==
    ASSUME SessionTypes, Started, SessionNext
    PROVE  Started'
<1>1. CASE Produce \/ Answer \/ Lose \/ Pause \/ Resume \/ SendBack \/ Recv
  BY <1>1 DEF Produce, Answer, Lose, Pause, Resume, SendBack, Recv, Started, hbVars, connVars
<1>2. CASE Transmit
  <2>1. UNCHANGED <<hb, phase, conns>> /\ (early' = early \cup {conns} \/ early' = early)
    BY <1>2 DEF Transmit, hbVars
  <2>2. \A c \in early' : c \in early \/ c = conns
    BY <2>1
  <2>3. conns <= conns
    BY DEF SessionTypes
  <2>. QED
    BY <2>1, <2>2, <2>3 DEF Started
<1>3. CASE Connected
  <2>1. phase = "down" /\ conns' = conns + 1 /\ early' = early
        /\ (phase' = "running" \/ (phase' = "replaying" /\ UNCHANGED hb))
    BY <1>3, Zenon DEF Connected, StartLoop
  <2>2. \A n, c \in Nat : c <= n => c <= n + 1
    OBVIOUS
  <2>. QED
    BY <2>1, <2>2 DEF Started, SessionTypes
<1>4. CASE AskReplay \/ SentBack
  <2>1. phase = "replaying" /\ phase' = "running" /\ UNCHANGED <<conns, early>>
    BY <1>4 DEF AskReplay, ToBeAsked, SentBack, StartLoop
  <2>. QED
    BY <2>1 DEF Started
<1>5. CASE Receive \/ ReceiveOld
  <2>1. UNCHANGED <<hb, phase, conns, early>>
    BY <1>5 DEF Receive, ReceiveOld, connVars
  <2>. QED
    BY <2>1 DEF Started
<1>6. CASE Notice \/ HeartbeatTimesOut
  BY <1>6 DEF Notice, HeartbeatTimesOut, Disconnect, Started
<1>7. CASE Ping \/ PongSeen
  BY <1>7 DEF Ping, PongSeen, Started, connVars
<1>. QED
  BY <1>1, <1>2, <1>3, <1>4, <1>5, <1>6, <1>7 DEF SessionNext

LEMMA SilentStep ==
    ASSUME SessionTypes, MsgTypes, Silent, Started, SessionNext
    PROVE  Silent'
<1>0. MaxMsgs \in Nat
  BY NumbersOfMessages
<1>1. CASE Transmit
  <2>1. UNCHANGED <<phase, conns, mode, last_seq>> /\ (ToBeAsked => conns \in early')
    BY <1>1 DEF Transmit, replayVars
  <2>. QED
    BY <2>1 DEF Silent, ToBeAsked
<1>2. CASE Answer
  <2>1. chan' = Append(chan, 0) /\ UNCHANGED <<phase, conns, early, mode, last_seq>>
    BY <1>2 DEF Answer, connVars, replayVars
  <2>2. /\ Len(chan') = Len(chan) + 1 /\ Len(chan) \in Nat
        /\ \A k \in 1 .. Len(chan) : chan'[k] = chan[k]
        /\ chan'[Len(chan) + 1] = 0
    BY <1>0, <2>1, AppendToChannel DEF SessionTypes
  <2>. QED
    BY <2>1, <2>2 DEF Silent, ToBeAsked
<1>3. CASE Lose
  <2>1. PICK n \in 0 .. Len(chan) : chan' = SubSeq(chan, 1, n)
    BY <1>3 DEF Lose
  <2>2. /\ Len(chan') = n /\ n <= Len(chan) /\ Len(chan) \in Nat
        /\ \A k \in 1 .. n : chan'[k] = chan[k]
    BY <2>1, CutChannel DEF SessionTypes
  <2>3. UNCHANGED <<phase, conns, early, mode, last_seq>>
    BY <1>3 DEF Lose, replayVars
  <2>. QED
    BY <2>2, <2>3 DEF Silent, ToBeAsked
<1>4. CASE Connected
  <2>1. chan' = <<>> /\ UNCHANGED mode
        /\ (phase' = "running" \/ (Position > 0 /\ last_seq' = Position) \/ mode = "full_buffer")
    BY <1>4, Zenon DEF Connected, StartLoop
  <2>2. Position \in Nat
    BY PositionType, NumbersOfMessages
  <2>. QED
    BY <2>1, <2>2 DEF Silent, ToBeAsked
<1>5. CASE AskReplay \/ SentBack \/ Receive \/ Notice \/ HeartbeatTimesOut
  <2>1. phase' # "replaying"
    BY <1>5 DEF AskReplay, SentBack, StartLoop, Receive, Notice, HeartbeatTimesOut, Disconnect,
                connVars
  <2>. QED
    BY <2>1 DEF Silent, ToBeAsked
<1>6. CASE Produce \/ Pause \/ Resume \/ SendBack \/ ReceiveOld \/ Recv \/ Ping \/ PongSeen
  <2>1. UNCHANGED <<phase, conns, early, mode, chan, last_seq>>
    BY <1>6 DEF Produce, Pause, Resume, SendBack, ReceiveOld, Recv, Ping, PongSeen, connVars,
                replayVars
  <2>. QED
    BY <2>1 DEF Silent, ToBeAsked
<1>. QED
  BY <1>1, <1>2, <1>3, <1>4, <1>5, <1>6 DEF SessionNext

\* A turn of a loop moves the position nowhere but to the message it reads.
LEMMA HandlePosition ==
    ASSUME SessionTypes, NEW m \in 0 .. MaxMsgs, Handle(m), UNCHANGED got
    PROVE  Position' = Position \/ Position' = m
<1>1. \/ UNCHANGED msgVars
      \/ m \in Items /\ (MsgPush(m, m) \/ PushUnnumbered(m))
  BY HandleEffect
<1>2. last_sequence_id' = last_sequence_id \/ (m \in Items /\ last_sequence_id' = m)
  BY <1>1, Zenon DEF msgVars, MsgPush, PushDuplicate, PushNumbered, PushUnnumbered
<1>. QED
  BY <1>2, NoIdAssumption, NumbersOfMessages DEF Position

LEMMA KnownStep ==
    ASSUME SessionTypes, MsgTypes, Known, SessionNext
    PROVE  Known'
<1>0. MaxMsgs \in Nat /\ srv \in Nat /\ Position \in Nat
  BY PositionType, NumbersOfMessages DEF SessionTypes
<1>1. CASE Transmit \/ Answer
  <2>1. UNCHANGED <<msgVars, srv>> /\ \E m \in 0 .. MaxMsgs : m <= srv /\ chan' = Append(chan, m)
    <3>1. CASE Transmit
      <4>1. pos \in 0 .. MaxMsgs /\ pos <= srv /\ chan' = Append(chan, pos)
        BY <1>0, <3>1 DEF Transmit, SessionTypes
      <4>. QED
        BY <3>1, <4>1 DEF Transmit
    <3>2. CASE Answer
      <4>1. 0 \in 0 .. MaxMsgs /\ 0 <= srv
        BY <1>0
      <4>. QED
        BY <3>2, <4>1 DEF Answer
    <3>. QED
      BY <1>1, <3>1, <3>2
  <2>2. PICK m \in 0 .. MaxMsgs : m <= srv /\ chan' = Append(chan, m)
    BY <2>1
  <2>3. /\ Len(chan') = Len(chan) + 1 /\ Len(chan) \in Nat
        /\ \A k \in 1 .. Len(chan) : chan'[k] = chan[k]
        /\ chan'[Len(chan) + 1] = m
    BY <2>2, AppendToChannel DEF SessionTypes
  <2>. QED
    BY <2>1, <2>2, <2>3 DEF Known, Position, msgVars
<1>2. CASE Lose
  <2>1. PICK n \in 0 .. Len(chan) : chan' = SubSeq(chan, 1, n)
    BY <1>2 DEF Lose
  <2>2. /\ Len(chan') = n /\ n <= Len(chan) /\ Len(chan) \in Nat
        /\ \A k \in 1 .. n : chan'[k] = chan[k]
    BY <2>1, CutChannel DEF SessionTypes
  <2>. QED
    BY <1>2, <2>2 DEF Lose, Known, Position, msgVars
<1>3. CASE Receive
  <2>1. chan # <<>> /\ Handle(Head(chan)) /\ UNCHANGED got /\ chan' = Tail(chan) /\ srv' = srv
    BY <1>3, Zenon DEF Receive
  <2>2. /\ Head(chan) \in 0 .. MaxMsgs /\ Head(chan) = chan[1] /\ Len(chan) \in Nat
        /\ Len(chan) >= 1 /\ Len(chan') = Len(chan) - 1
        /\ \A k \in 1 .. Len(chan') : chan'[k] = chan[k + 1]
    BY <2>1, HeadOfChannel DEF SessionTypes
  <2>3. Position' = Position \/ Position' = Head(chan)
    BY <2>1, <2>2, HandlePosition
  <2>. QED
    BY <2>1, <2>2, <2>3 DEF Known
<1>4. CASE ReceiveOld
  <2>1. PICK late \in old : late[2] <= srv /\ Handle(late[2]) /\ UNCHANGED <<got, chan, srv>>
    BY <1>4, Zenon DEF ReceiveOld
  <2>2. late[2] \in 0 .. MaxMsgs
    BY <2>1 DEF SessionTypes
  <2>3. Position' = Position \/ Position' = late[2]
    BY <2>1, <2>2, HandlePosition
  <2>. QED
    BY <2>1, <2>2, <2>3 DEF Known
<1>5. CASE Connected \/ HeartbeatTimesOut
  <2>1. chan' = <<>> /\ UNCHANGED <<srv, last_sequence_id>>
    BY <1>5, Zenon DEF Connected, HeartbeatTimesOut, msgVars
  <2>. QED
    BY <2>1 DEF Known, Position
<1>6. CASE Produce \/ Pause \/ Resume \/ AskReplay \/ SendBack \/ SentBack
  <2>1. UNCHANGED <<msgVars, chan>> /\ (srv' = srv \/ srv' = srv + 1)
    BY <1>6 DEF Produce, Pause, Resume, AskReplay, SendBack, SentBack
  <2>2. \A k \in 1 .. Len(chan) : chan[k] \in Nat
    BY <1>0 DEF SessionTypes
  <2>. QED
    BY <1>0, <2>1, <2>2 DEF Known, Position, msgVars
<1>7. CASE Notice \/ Recv \/ Ping \/ PongSeen
  BY <1>7 DEF Notice, Recv, Ping, PongSeen, Known, Position, msgVars
<1>. QED
  BY <1>1, <1>2, <1>3, <1>4, <1>5, <1>6, <1>7 DEF SessionNext

LEMMA NoSessionStep ==
    ASSUME UNCHANGED vars
    PROVE  /\ UNCHANGED msgVars
           /\ SessionTypes => SessionTypes'
           /\ Started => Started'
           /\ Silent => Silent'
           /\ Known => Known'
BY DEF vars, SessionTypes, Started, Silent, ToBeAsked, Known, Position, msgVars, hbVars, connVars,
       replayVars, appVars

Core == SessionTypes /\ MsgInv /\ Started /\ Silent /\ Known

LEMMA CoreInit == SessionInit => Core
BY SessionInitTypes, MsgInitInv DEF SessionInit, Core

LEMMA CoreStep == Core /\ [SessionNext]_vars => Core'
<1>1. ASSUME Core, SessionNext
      PROVE  Core'
  <2>1. SessionTypes /\ MsgTypes /\ MsgInv /\ Started /\ Silent /\ Known
    BY <1>1 DEF Core, MsgInv
  <2>2. MsgInv'
    BY <1>1, <2>1, SessionDrivesBuffer, MsgStepInv
  <2>. QED
    BY <1>1, <2>1, <2>2, TypesStep, StartedStep, SilentStep, KnownStep DEF Core
<1>2. ASSUME Core, UNCHANGED vars
      PROVE  Core'
  <2>1. MsgInv'
    BY <1>2, NoSessionStep, MsgStepInv DEF Core
  <2>. QED
    BY <1>2, <2>1, NoSessionStep DEF Core
<1>. QED
  BY <1>1, <1>2

\* Tracking, overflow and replay only ever use the message buffer as its own
\* operations allow, so that what holds of MessageBuffer holds in a WebSocket.
THEOREM SessionUsesBuffer == SessionSpec => MsgSpec
<1>1. SessionInit => MsgInit
  BY DEF SessionInit
<1>2. Core /\ [SessionNext]_vars => [MsgNext]_msgVars
  BY SessionDrivesBuffer, NoSessionStep DEF Core
<1>. QED
  BY <1>1, <1>2, CoreInit, CoreStep, PTL DEF SessionSpec, MsgSpec
-----------------------------------------------------------------------------
(***************************************************************************)
(* The heartbeat's verdict.                                                *)
(***************************************************************************)
LEMMA BeatInit == SessionInit => BeatInv
BY DEF SessionInit, BeatInv

LEMMA AnswerHeard ==
    ASSUME PongMatcher, BeatInv, OnPong, UNCHANGED hb
    PROVE  BeatInv'
<1>1. CASE hb # "pong"
  BY <1>1 DEF BeatInv
<1>2. CASE hb = "pong" /\ answered
  <2>1. event
    BY <1>2, Zenon DEF BeatInv
  <2>2. answered' /\ event'
    BY <2>1 DEF OnPong
  <2>. QED
    BY <2>2, Zenon DEF BeatInv
<1>3. CASE hb = "pong" /\ ~answered
  <2>1. pending
    BY <1>3, Zenon DEF BeatInv
  <2>2. answered' /\ event'
    BY <2>1, Zenon DEF OnPong
  <2>. QED
    BY <2>2, Zenon DEF BeatInv
<1>. QED
  BY <1>1, <1>2, <1>3

LEMMA BeatStep ==
    ASSUME PongMatcher, BeatInv, [SessionNext]_vars
    PROVE  BeatInv'
<1>1. CASE \E m : Handle(m) /\ UNCHANGED hb
  <2>1. PICK m : Handle(m) /\ UNCHANGED hb
    BY <1>1
  <2>2. OnPong \/ UNCHANGED <<pending, event, answered>>
    BY <2>1, Zenon DEF Handle
  <2>3. CASE OnPong
    BY <2>1, <2>3, AnswerHeard
  <2>4. CASE UNCHANGED <<pending, event, answered>>
    BY <2>1, <2>4, Zenon DEF BeatInv
  <2>. QED
    BY <2>2, <2>3, <2>4
<1>2. CASE UNCHANGED <<hb, pending, event, answered>>
  BY <1>2, Zenon DEF BeatInv
<1>3. CASE hb' \in {"interval", "off"}
  BY <1>3 DEF BeatInv
<1>4. CASE Ping
  BY <1>4, Zenon DEF Ping, BeatInv
<1>5. Receive \/ ReceiveOld => <1>1!1
  BY Zenon DEF Receive, ReceiveOld
<1>6. Produce \/ Transmit \/ Lose \/ Pause \/ Resume \/ SendBack \/ Recv => <1>2!1
  BY Zenon DEF Produce, Transmit, Lose, Pause, Resume, SendBack, Recv, hbVars
<1>7. Answer => <1>2!1
  BY Zenon DEF Answer
<1>8. StartLoop => <1>3!1
  BY Zenon DEF StartLoop
<1>9. /\ Connected => <1>2!1 \/ <1>3!1
      /\ AskReplay \/ SentBack \/ Notice \/ PongSeen \/ HeartbeatTimesOut => <1>3!1
  BY <1>8, Zenon DEF Connected, AskReplay, SentBack, Notice, PongSeen, HeartbeatTimesOut,
                     Disconnect
<1>10. UNCHANGED vars => <1>2!1
  BY Zenon DEF vars, hbVars
<1>. QED
  BY <1>1, <1>2, <1>3, <1>4, <1>5, <1>6, <1>7, <1>8, <1>9, <1>10, Zenon DEF SessionNext
\* With answers that are messages, a heartbeat gives up a connection only if no
\* answer to its ping was read, and goes on only with an answer that was read
\* after it, whichever loop read it and however many answers came late.
THEOREM VerdictTheorem == ASSUME PongMatcher PROVE SessionSpec => VerdictIsRight
<1>1. BeatInv /\ [SessionNext]_vars => BeatInv'
  BY BeatStep
<1>2. BeatInv => /\ HeartbeatTimesOut => ~answered
                 /\ PongSeen => answered
  BY Zenon DEF BeatInv, HeartbeatTimesOut, PongSeen
<1>. QED
  BY <1>1, <1>2, BeatInit, PTL DEF SessionSpec, VerdictIsRight
-----------------------------------------------------------------------------
(***************************************************************************)
(* Replay by sequence id.                                                  *)
(***************************************************************************)
LEMMA ReplayInit == SessionInit => ReplayInv
<1>1. SessionInit => Position = 0 /\ chan = <<>> /\ old = {} /\ phase = "down"
  BY DEF SessionInit, MsgInit, Position
<1>. QED
  BY <1>1 DEF ReplayInv, Covered

LEMMA GivenAppend ==
    ASSUME SessionTypes, NEW m \in Items, Application' = Append(Application, m)
    PROVE  Given' = Given \cup {m}
<1>1. /\ Len(Application) \in Nat /\ Len(Application') = Len(Application) + 1
      /\ \A k \in 1 .. Len(Application) : Application'[k] = Application[k]
      /\ Application'[Len(Application) + 1] = m
  BY ApplicationType, AppendToChannel
<1>2. \A x \in Given' : x \in Given \/ x = m
  BY <1>1 DEF Given
<1>3. \A x \in Given : x \in Given'
  BY <1>1 DEF Given
<1>4. m \in Given'
  BY <1>1 DEF Given
<1>. QED
  BY <1>2, <1>3, <1>4

\* The channel that a message m is taken from stays covered, and so does any other.
LEMMA CoveredGrows ==
    ASSUME NEW s, NEW G, NEW H, G \subseteq H, Covered(s, G)
    PROVE  Covered(s, H)
BY DEF Covered

LEMMA CoveredTail ==
    ASSUME NEW s \in Seq(0 .. MaxMsgs), s # <<>>, NEW G, NEW H, G \subseteq H,
           Head(s) = 0 \/ Head(s) \in H, Covered(s, G)
    PROVE  Covered(Tail(s), H)
<1>1. /\ Head(s) = s[1] /\ Len(s) \in Nat
      /\ Len(Tail(s)) = Len(s) - 1
      /\ \A k \in 1 .. Len(Tail(s)) : Tail(s)[k] = s[k + 1]
  BY HeadOfChannel
<1>2. SUFFICES ASSUME NEW k \in 1 .. Len(Tail(s)), NEW m \in 1 .. Tail(s)[k] - 1, m \notin H
               PROVE  \E l \in 1 .. k - 1 : Tail(s)[l] = m
  BY DEF Covered
<1>3. PICK l \in 1 .. (k + 1) - 1 : s[l] = m
  BY <1>1, <1>2 DEF Covered
<1>4. l # 1
  BY <1>1, <1>2, <1>3
<1>5. l - 1 \in 1 .. k - 1 /\ Tail(s)[l - 1] = m
  BY <1>1, <1>3, <1>4
<1>. QED
  BY <1>5

LEMMA CoveredAppend ==
    ASSUME NEW s \in Seq(0 .. MaxMsgs), NEW x \in 0 .. MaxMsgs, NEW G, Covered(s, G),
           \A m \in 1 .. x - 1 : m \in G \/ \E k \in 1 .. Len(s) : s[k] = m
    PROVE  Covered(Append(s, x), G)
<1>1. /\ Len(Append(s, x)) = Len(s) + 1 /\ Len(s) \in Nat
      /\ \A k \in 1 .. Len(s) : Append(s, x)[k] = s[k]
      /\ Append(s, x)[Len(s) + 1] = x
  BY AppendToChannel
<1>2. SUFFICES ASSUME NEW k \in 1 .. Len(s) + 1, NEW m \in 1 .. Append(s, x)[k] - 1, m \notin G
               PROVE  \E l \in 1 .. k - 1 : Append(s, x)[l] = m
  BY <1>1 DEF Covered
<1>3. CASE k = Len(s) + 1
  BY <1>1, <1>2, <1>3
<1>4. CASE k \in 1 .. Len(s)
  <2>1. PICK l \in 1 .. k - 1 : s[l] = m
    BY <1>1, <1>2, <1>4 DEF Covered
  <2>. QED
    BY <1>1, <1>4, <2>1
<1>. QED
  BY <1>1, <1>3, <1>4

\* One turn of a loop, seen from what the application was given.
LEMMA HandleCovers ==
    ASSUME Core, NEW x \in 0 .. MaxMsgs, Handle(x), UNCHANGED got
    PROVE  /\ Given \subseteq Given' /\ (x = 0 \/ x \in Given')
           /\ Position' = Position \/ Position' = x
<1>1. SessionTypes
  BY DEF Core
<1>2. \/ x = 0 /\ Application' = Application
      \/ x \in Items /\ Application' = Append(Application, x)
  BY <1>1, HandleEffect
<1>3. Given \subseteq Given' /\ (x = 0 \/ x \in Given')
  <2>1. CASE x = 0 /\ Application' = Application
    BY <2>1 DEF Given
  <2>2. CASE x \in Items /\ Application' = Append(Application, x)
    <3>1. Given' = Given \cup {x}
      BY <1>1, <2>2, GivenAppend
    <3>. QED
      BY <3>1
  <2>. QED
    BY <1>2, <2>1, <2>2
<1>. QED
  BY <1>1, <1>3, HandlePosition

LEMMA AskedBefore ==
    ASSUME SessionNext, ~unasked'
    PROVE  mode' = mode /\ ~unasked
<1>1. Produce \/ Transmit \/ Answer \/ Lose \/ SentBack \/ Receive \/ ReceiveOld \/ Notice \/ Recv
      \/ Ping \/ PongSeen \/ HeartbeatTimesOut => UNCHANGED <<mode, unasked>>
  BY Zenon DEF Produce, Transmit, Answer, Lose, SentBack, Receive, ReceiveOld, Notice, Recv, Ping,
               PongSeen, HeartbeatTimesOut, replayVars
<1>2. SendBack \/ Pause \/ Resume => UNCHANGED <<mode, unasked>>
  BY Zenon DEF SendBack, Pause, Resume
<1>3. Connected \/ AskReplay => UNCHANGED mode
  BY Zenon DEF Connected, AskReplay
<1>4. Connected => (unasked' = (unasked \/ conns > 0)) \/ unasked' = unasked
  BY Zenon DEF Connected
<1>5. AskReplay => unasked' = TRUE \/ unasked' = unasked
  BY Zenon DEF AskReplay
<1>6. unasked' = unasked => ~unasked
  OBVIOUS
<1>7. unasked' = (unasked \/ conns > 0) => ~unasked
  OBVIOUS
<1>8. ~(unasked' = TRUE)
  OBVIOUS
<1>9. mode' = mode
  BY <1>1, <1>2, <1>3, Zenon DEF SessionNext
<1>10. ~unasked
  BY <1>1, <1>2, <1>4, <1>5, <1>6, <1>7, <1>8, Zenon DEF SessionNext
<1>. QED
  BY <1>9, <1>10

\* A replay that a connection's end cut short stays cut short.
LEMMA InterruptedBefore ==
    ASSUME SessionTypes, Started, SessionNext, Interrupted
    PROVE  Interrupted'
<1>1. PICK c \in early : c < conns \/ lost \/ phase = "down"
  BY DEF Interrupted
<1>2. c \in Nat /\ conns \in Nat /\ c <= conns
  BY <1>1 DEF SessionTypes, Started
<1>3. CASE Connected
  <2>1. conns' = conns + 1 /\ early' = early
    BY <1>3, Zenon DEF Connected
  <2>. QED
    BY <1>1, <1>2, <2>1 DEF Interrupted
<1>4. CASE AskReplay \/ SentBack
  <2>1. phase = "replaying" /\ UNCHANGED <<conns, lost, early>>
    BY <1>4 DEF AskReplay, ToBeAsked, SentBack
  <2>. QED
    BY <1>1, <2>1 DEF Interrupted
<1>5. CASE Transmit
  <2>1. UNCHANGED <<conns, lost, phase>> /\ early \subseteq early'
    BY <1>5 DEF Transmit
  <2>. QED
    BY <1>1, <2>1 DEF Interrupted
<1>6. CASE Lose
  BY <1>1, <1>6 DEF Lose, Interrupted
<1>7. CASE Notice \/ HeartbeatTimesOut
  BY <1>1, <1>7 DEF Notice, HeartbeatTimesOut, Disconnect, Interrupted
<1>8. CASE Produce \/ Answer \/ Pause \/ Resume \/ SendBack \/ Recv
  BY <1>1, <1>8 DEF Produce, Answer, Pause, Resume, SendBack, Recv, connVars, Interrupted
<1>9. CASE Receive \/ ReceiveOld \/ Ping \/ PongSeen
  BY <1>1, <1>9 DEF Receive, ReceiveOld, Ping, PongSeen, connVars, Interrupted
<1>. QED
  BY <1>3, <1>4, <1>5, <1>6, <1>7, <1>8, <1>9 DEF SessionNext

\* What the loop of a connection that is given up may read is covered.
LEMMA NextFramesCovered ==
    ASSUME SessionTypes, Covered(chan, Given), NEW m \in NextFrames,
           ~lost => \A k \in 1 .. pos - 1 : k \in Given \/ \E l \in 1 .. Len(chan) : chan[l] = k
    PROVE  \A k \in 1 .. m - 1 : k \in Given
<1>1. CASE chan # <<>>
  <2>1. m = chan[1] /\ Len(chan) \in Nat /\ Len(chan) >= 1
    BY <1>1, HeadOfChannel DEF NextFrames, SessionTypes
  <2>. QED
    BY <2>1 DEF Covered
<1>2. CASE chan = <<>>
  <2>1. (m = pos /\ ~lost) \/ m = 0
    BY <1>2 DEF NextFrames
  <2>. QED
    BY <1>2, <2>1
<1>. QED
  BY <1>1, <1>2

LEMMA ReplayStep ==
    ASSUME Core, ReplayInv, SessionNext
    PROVE  ReplayInv'
<1>. SUFFICES ASSUME mode' = "sequence_id", ~unasked', ~Interrupted'
              PROVE  ReplayInv'
  BY DEF ReplayInv
<1>. DEFINE Sent(n, s) == \A m \in 1 .. n - 1 : m \in Given \/ \E k \in 1 .. Len(s) : s[k] = m
<1>2. /\ SessionTypes /\ Started /\ Position \in Nat /\ MaxMsgs \in Nat
      /\ conns \in Nat /\ \A c \in early : c \in Nat /\ c <= conns
  BY PositionType, NumbersOfMessages DEF Core, MsgInv, SessionTypes, Started
<1>0. mode = "sequence_id" /\ ~unasked /\ ~Interrupted
  BY <1>2, AskedBefore, InterruptedBefore
<1>1. /\ \A late \in old : \A m \in 1 .. late[2] - 1 : m \in Given
      /\ conns \notin early => Covered(chan, Given) /\ \A m \in 1 .. Position : m \in Given
      /\ phase = "replaying" => \A m \in 1 .. Position : m \in Given
      /\ phase = "replaying" => \A m \in 1 .. last_seq : m \in Given
      /\ phase = "running" /\ ~lost => Sent(pos, chan)
  BY <1>0 DEF ReplayInv
<1>3. ASSUME UNCHANGED <<msgVars, Application>>
      PROVE  Given' = Given /\ Position' = Position
  BY <1>3 DEF Given, Position, msgVars
<1>4. Covered(<<>>, Given)
  BY DEF Covered
<1>5. CASE Produce \/ Pause \/ Resume \/ SendBack \/ SentBack \/ Recv \/ Ping \/ PongSeen
  <2>1. UNCHANGED <<msgVars, chan, old, lost, pos, conns, early, last_seq>>
    BY <1>5 DEF Produce, Pause, Resume, SendBack, SentBack, Recv, Ping, PongSeen, connVars,
                replayVars
  <2>2. phase' = phase
    BY <1>0, <1>5 DEF Produce, Pause, Resume, SendBack, SentBack, Recv, Ping, PongSeen, connVars
  <2>3. Application' = Application
    <3>1. CASE Recv
      BY <3>1, <1>2, RecvKeepsApplication
    <3>2. CASE ~Recv
      BY <1>5, <3>2 DEF Produce, Pause, Resume, SendBack, SentBack, Ping, PongSeen, appVars,
                        Application
    <3>. QED
      BY <3>1, <3>2
  <2>. QED
    BY <1>1, <1>3, <2>1, <2>2, <2>3 DEF ReplayInv
<1>6. CASE Transmit
  <2>1. /\ chan' = Append(chan, pos) /\ pos' = pos + 1 /\ ~lost /\ phase # "down" /\ pos <= srv
        /\ UNCHANGED <<msgVars, Application, old, lost, phase, conns, last_seq>>
        /\ early \subseteq early' /\ (phase = "replaying" => conns \in early')
    BY <1>0, <1>6 DEF Transmit, ToBeAsked, appVars, replayVars, Application
  <2>2. CASE phase = "replaying"
    BY <1>1, <1>3, <2>1, <2>2 DEF ReplayInv
  <2>3. CASE phase = "running"
    <3>0. pos \in 0 .. MaxMsgs
      BY <1>2, <2>1 DEF SessionTypes
    <3>1. conns \notin early' => Covered(chan', Given)
      BY <1>1, <1>2, <2>1, <2>3, <3>0, CoveredAppend DEF SessionTypes
    <3>2. Sent(pos', chan')
      <4>1. /\ Len(chan') = Len(chan) + 1 /\ Len(chan) \in Nat /\ pos \in Nat
            /\ \A k \in 1 .. Len(chan) : chan'[k] = chan[k]
            /\ chan'[Len(chan) + 1] = pos
        BY <1>2, <2>1, <3>0, AppendToChannel DEF SessionTypes
      <4>2. SUFFICES ASSUME NEW m \in 1 .. pos' - 1, m \notin Given
                     PROVE  \E k \in 1 .. Len(chan') : chan'[k] = m
        OBVIOUS
      <4>3. CASE m = pos
        BY <4>1, <4>3
      <4>4. CASE m # pos
        <5>1. m \in 1 .. pos - 1
          BY <2>1, <4>1, <4>2, <4>4
        <5>2. PICK k \in 1 .. Len(chan) : chan[k] = m
          BY <1>1, <2>1, <2>3, <4>2, <5>1
        <5>. QED
          BY <4>1, <5>2
      <4>. QED
        BY <4>3, <4>4
    <3>. QED
      BY <1>1, <1>3, <2>1, <2>3, <3>1, <3>2 DEF ReplayInv
  <2>. QED
    BY <1>2, <2>1, <2>2, <2>3 DEF SessionTypes
<1>7. CASE Answer
  <2>1. /\ chan' = Append(chan, 0)
        /\ UNCHANGED <<msgVars, Application, old, lost, pos, phase, conns, early, last_seq>>
    BY <1>7 DEF Answer, connVars, appVars, replayVars, Application
  <2>2. conns \notin early => Covered(chan', Given)
    BY <1>1, <1>2, <2>1, CoveredAppend DEF SessionTypes
  <2>3. /\ Len(chan') = Len(chan) + 1 /\ Len(chan) \in Nat
        /\ \A k \in 1 .. Len(chan) : chan'[k] = chan[k]
    BY <1>2, <2>1, AppendToChannel DEF SessionTypes
  <2>. QED
    BY <1>1, <1>3, <2>1, <2>2, <2>3 DEF ReplayInv
<1>8. CASE Lose
  <2>1. lost' = TRUE /\ UNCHANGED <<msgVars, Application, old, phase, conns, early, last_seq>>
    BY <1>8 DEF Lose, appVars, replayVars, Application
  <2>2. PICK n \in 0 .. Len(chan) : chan' = SubSeq(chan, 1, n)
    BY <1>8 DEF Lose
  <2>3. /\ Len(chan') = n /\ n <= Len(chan) /\ Len(chan) \in Nat
        /\ \A k \in 1 .. n : chan'[k] = chan[k]
    BY <1>2, <2>2, CutChannel DEF SessionTypes
  <2>4. conns \notin early => Covered(chan', Given)
    BY <1>1, <2>3 DEF Covered
  <2>. QED
    BY <1>1, <1>3, <2>1, <2>4 DEF ReplayInv
<1>9. CASE Connected
  <2>0. conns' = conns + 1 /\ UNCHANGED <<early, old, Application, last_sequence_id>>
        /\ chan' = <<>>
    BY <1>9, Zenon DEF Connected, appVars, msgVars, Application
  <2>1. conns \notin early
    BY <1>2, <2>0 DEF Interrupted
  <2>2. /\ phase' \in {"running", "replaying"}
        /\ phase' = "running" => pos' = 1
        /\ phase' = "replaying" => last_seq' = Position
    <3>1. CASE /\ StartLoop /\ pos' = (IF conns = 0 THEN 1 ELSE srv + 1)
               /\ unasked' = (unasked \/ conns > 0)
      <4>1. ~(conns > 0)
        BY <3>1
      <4>2. conns = 0
        BY <1>2, <4>1
      <4>. QED
        BY <3>1, <4>2 DEF StartLoop
    <3>2. CASE phase' = "replaying" /\ last_seq' = Position
      BY <3>2
    <3>. QED
      BY <1>0, <1>9, <3>1, <3>2 DEF Connected
  <2>3. Given' = Given /\ Position' = Position
    BY <2>0 DEF Given, Position
  <2>. QED
    BY <1>1, <1>4, <2>0, <2>1, <2>2, <2>3 DEF ReplayInv
<1>10. CASE AskReplay
  <2>1. /\ UNCHANGED <<msgVars, Application, chan, old, conns, early>>
        /\ phase = "replaying" /\ phase' = "running"
    BY <1>10 DEF AskReplay, ToBeAsked, StartLoop, appVars, Application
  <2>2. pos' = last_seq + 1 \/ pos' = last_seq
    BY <1>10 DEF AskReplay
  <2>3. Sent(pos', chan')
    BY <1>1, <1>2, <2>1, <2>2 DEF SessionTypes
  <2>. QED
    BY <1>1, <1>3, <2>1, <2>3 DEF ReplayInv
<1>11. CASE Receive
  <2>1. /\ chan # <<>> /\ Handle(Head(chan)) /\ UNCHANGED got /\ chan' = Tail(chan)
        /\ phase = "running" /\ UNCHANGED <<phase, lost, pos, old, conns, early>>
    BY <1>11, Zenon DEF Receive, connVars
  <2>2. /\ Head(chan) = chan[1] /\ Len(chan) \in Nat /\ Len(chan) >= 1
        /\ Len(chan') = Len(chan) - 1 /\ Head(chan) \in 0 .. MaxMsgs
        /\ \A k \in 1 .. Len(chan') : chan'[k] = chan[k + 1]
    BY <1>2, <2>1, HeadOfChannel DEF SessionTypes
  <2>3. /\ Given \subseteq Given' /\ (Head(chan) = 0 \/ Head(chan) \in Given')
        /\ Position' = Position \/ Position' = Head(chan)
    BY <2>1, <2>2, HandleCovers
  <2>4. ASSUME conns \notin early
        PROVE  Covered(chan', Given') /\ \A m \in 1 .. Position' : m \in Given'
    <3>1. Covered(Tail(chan), Given')
      BY <1>1, <1>2, <2>1, <2>3, <2>4, CoveredTail DEF SessionTypes
    <3>2. \A m \in 1 .. chan[1] - 1 : m \in Given
      BY <1>1, <2>2, <2>4 DEF Covered
    <3>. QED
      BY <1>1, <1>2, <2>1, <2>2, <2>3, <2>4, <3>1, <3>2
  <2>5. ASSUME ~lost, NEW m \in 1 .. pos - 1, m \notin Given'
        PROVE  \E k \in 1 .. Len(chan') : chan'[k] = m
    <3>2. PICK k \in 1 .. Len(chan) : chan[k] = m
      BY <1>1, <2>1, <2>3, <2>5
    <3>3. k # 1
      BY <2>2, <2>3, <2>5, <3>2
    <3>4. k - 1 \in 1 .. Len(chan') /\ chan'[k - 1] = m
      BY <2>2, <3>2, <3>3
    <3>. QED
      BY <3>4
  <2>. QED
    BY <1>1, <2>1, <2>3, <2>4, <2>5 DEF ReplayInv
<1>12. CASE ReceiveOld
  <2>1. PICK late \in old : /\ Handle(late[2]) /\ UNCHANGED got /\ old' = old \ {late}
                            /\ UNCHANGED <<connVars, replayVars, chan>>
    BY <1>12, Zenon DEF ReceiveOld
  <2>2. late[2] \in 0 .. MaxMsgs /\ \A m \in 1 .. late[2] - 1 : m \in Given
    BY <1>1, <1>2, <2>1 DEF SessionTypes
  <2>3. /\ Given \subseteq Given' /\ (late[2] = 0 \/ late[2] \in Given')
        /\ Position' = Position \/ Position' = late[2]
    BY <2>1, <2>2, HandleCovers
  <2>4. (\A m \in 1 .. Position : m \in Given) => \A m \in 1 .. Position' : m \in Given'
    BY <1>2, <2>2, <2>3
  <2>5. Covered(chan, Given) => Covered(chan, Given')
    BY <2>3, CoveredGrows
  <2>6. UNCHANGED <<phase, lost, pos, conns, early, last_seq>>
    BY <2>1 DEF connVars, replayVars
  <2>7. \A l \in old' : \A m \in 1 .. l[2] - 1 : m \in Given'
    BY <1>1, <2>1, <2>3
  <2>8. phase = "replaying" => \A m \in 1 .. last_seq : m \in Given'
    BY <1>1, <2>3
  <2>9. phase = "running" /\ ~lost =>
            \A m \in 1 .. pos - 1 : m \in Given' \/ \E k \in 1 .. Len(chan) : chan[k] = m
    BY <1>1, <2>3
  <2>. QED
    BY <1>1, <2>1, <2>4, <2>5, <2>6, <2>7, <2>8, <2>9 DEF ReplayInv
<1>13. CASE Notice
  <2>1. UNCHANGED <<msgVars, Application, chan, old, conns, early>> /\ phase' = "down"
    BY <1>13 DEF Notice, Disconnect, appVars, Application
  <2>. QED
    BY <1>1, <1>3, <2>1 DEF ReplayInv
<1>14. CASE HeartbeatTimesOut
  <2>1. /\ UNCHANGED <<msgVars, Application, conns, early>> /\ phase' = "down" /\ chan' = <<>>
        /\ hb = "pong" /\ (old' = old \/ \E m \in NextFrames : old' = old \cup {<<conns, m>>})
    BY <1>14, Zenon DEF HeartbeatTimesOut, Disconnect, appVars, Application
  <2>2. conns \notin early
    BY <2>1 DEF Interrupted
  <2>3. phase = "running"
    BY <1>2, <2>1 DEF Started, SessionTypes
  <2>4. \A m \in NextFrames : \A k \in 1 .. m - 1 : k \in Given
    BY <1>1, <1>2, <2>2, <2>3, NextFramesCovered
  <2>5. \A late \in old' : \A m \in 1 .. late[2] - 1 : m \in Given
    BY <1>1, <2>1, <2>4
  <2>. QED
    BY <1>1, <1>3, <1>4, <2>1, <2>2, <2>5 DEF ReplayInv
<1>. QED
  BY <1>5, <1>6, <1>7, <1>8, <1>9, <1>10, <1>11, <1>12, <1>13, <1>14 DEF SessionNext

\* In mode sequence_id, whatever the buffer drops, refuses or raises, wherever
\* connections break and whichever loop reads a message: the position that the
\* next replay asks for is behind no message that the application was not given,
\* but for those that a server which spoke too early is still to replay.
THEOREM ReplayTheorem == SessionSpec => []ReplayMissesNothing
<1>1. ReplayInv /\ UNCHANGED vars => ReplayInv'
  <2>1. ASSUME UNCHANGED vars
        PROVE  UNCHANGED <<chan, old, phase, lost, pos, mode, unasked, conns, early, last_seq,
                           Given, Position>>
    BY <2>1 DEF vars, connVars, replayVars, appVars, msgVars, Given, Application, Position
  <2>. QED
    BY <2>1 DEF ReplayInv, Interrupted
<1>2. Core /\ ReplayInv /\ [SessionNext]_vars => ReplayInv'
  BY <1>1, ReplayStep
<1>3. Core /\ ReplayInv => ReplayMissesNothing
  <2>. SUFFICES ASSUME Core, ReplayInv, mode = "sequence_id", ~unasked, ~Interrupted
                PROVE  1 .. Position \subseteq
                           Given \cup (IF conns \in early THEN ToCome ELSE {})
    <3>1. Core => Application \in Seq(Items)
      BY ApplicationType DEF Core
    <3>2. Core => Given = ToSet(Application)
      BY <3>1 DEF Given, ToSet
    <3>. QED
      BY <3>2 DEF ReplayMissesNothing
  <2>1. /\ SessionTypes /\ Position \in Nat /\ srv \in Nat /\ pos \in Nat /\ chan \in Seq(Nat)
        /\ Position <= srv
    BY PositionType, NumbersOfMessages DEF Core, MsgInv, SessionTypes, Known
  <2>2. CASE conns \notin early
    BY <2>2 DEF ReplayInv
  <2>3. CASE conns \in early
    <3>1. ~lost /\ phase # "down"
      BY <2>3 DEF Interrupted
    <3>2. CASE phase = "replaying"
      BY <3>2 DEF ReplayInv
    <3>3. CASE phase = "running"
      <4>1. \A m \in 1 .. pos - 1 : m \in Given \/ \E k \in 1 .. Len(chan) : chan[k] = m
        BY <3>1, <3>3 DEF ReplayInv
      <4>2. \A k \in 1 .. Len(chan) : chan[k] \in ToSet(chan)
        BY <2>1 DEF ToSet
      <4>. QED
        BY <2>1, <2>3, <4>1, <4>2 DEF ToCome
    <3>. QED
      BY <2>1, <3>1, <3>2, <3>3 DEF SessionTypes
  <2>. QED
    BY <2>2, <2>3
<1>. QED
  BY <1>2, <1>3, CoreInit, CoreStep, ReplayInit, PTL DEF SessionSpec
-----------------------------------------------------------------------------
(***************************************************************************)
(* The order of what the application is given.                             *)
(***************************************************************************)
LEMMA OrderInit == SessionInit => OrderInv
<1>1. SessionInit => /\ Position = 0 /\ chan = <<>> /\ old = {} /\ phase = "down"
                     /\ Application = <<>> /\ seen = <<>>
  BY DEF SessionInit, MsgInit, Position, Application
<1>. QED
  BY <1>1 DEF OrderInv, Rising, Ordered, ToBeAsked

LEMMA RisingTail ==
    ASSUME NEW s \in Seq(0 .. MaxMsgs), s # <<>>, Rising(s)
    PROVE  /\ Rising(Tail(s))
           /\ \A i \in 1 .. Len(Tail(s)) : Tail(s)[i] # 0 => Head(s) < Tail(s)[i]
<1>1. /\ Head(s) = s[1] /\ Len(s) \in Nat /\ Len(s) >= 1 /\ Len(Tail(s)) = Len(s) - 1
      /\ \A k \in 1 .. Len(Tail(s)) : Tail(s)[k] = s[k + 1]
  BY HeadOfChannel
<1>. DEFINE t == Tail(s)
<1>. HIDE DEF t
<1>2. Rising(t)
  <2>1. SUFFICES ASSUME NEW i \in 1 .. Len(t), NEW j \in 1 .. Len(t), i < j, t[j] # 0
                 PROVE  t[i] < t[j]
    BY DEF Rising
  <2>2. i + 1 \in 1 .. Len(s) /\ j + 1 \in 1 .. Len(s) /\ i + 1 < j + 1
        /\ t[i] = s[i + 1] /\ t[j] = s[j + 1]
    BY <1>1, <2>1 DEF t
  <2>. QED
    BY <2>1, <2>2 DEF Rising
<1>3. \A i \in 1 .. Len(t) : t[i] # 0 => Head(s) < t[i]
  <2>1. SUFFICES ASSUME NEW i \in 1 .. Len(t), t[i] # 0
                 PROVE  s[1] < t[i]
    BY <1>1
  <2>2. 1 \in 1 .. Len(s) /\ i + 1 \in 1 .. Len(s) /\ 1 < i + 1 /\ t[i] = s[i + 1]
    BY <1>1, <2>1 DEF t
  <2>. QED
    BY <2>1, <2>2 DEF Rising
<1>. QED
  BY <1>2, <1>3 DEF t

LEMMA RisingAppend ==
    ASSUME NEW s \in Seq(Nat), NEW x \in Nat, Rising(s),
           x # 0 => \A i \in 1 .. Len(s) : s[i] < x
    PROVE  Rising(Append(s, x))
<1>1. /\ Len(Append(s, x)) = Len(s) + 1 /\ Len(s) \in Nat
      /\ \A k \in 1 .. Len(s) : Append(s, x)[k] = s[k]
      /\ Append(s, x)[Len(s) + 1] = x
  BY AppendToChannel
<1>. DEFINE t == Append(s, x)
<1>. HIDE DEF t
<1>2. SUFFICES ASSUME NEW i \in 1 .. Len(t), NEW j \in 1 .. Len(t), i < j, t[j] # 0
               PROVE  t[i] < t[j]
  BY DEF Rising, t
<1>3. i \in 1 .. Len(s) /\ t[i] = s[i]
  BY <1>1, <1>2 DEF t
<1>4. CASE j = Len(s) + 1
  BY <1>1, <1>2, <1>3, <1>4 DEF t
<1>5. CASE j \in 1 .. Len(s)
  BY <1>1, <1>2, <1>3, <1>5 DEF t, Rising
<1>. QED
  BY <1>1, <1>2, <1>4, <1>5 DEF t

LEMMA ChannelOfNumbers ==
    ASSUME SessionTypes
    PROVE  chan \in Seq(Nat)
BY NumbersOfMessages DEF SessionTypes

\* Tracking a new message leaves no seen id above it.
LEMMA TrackedBelow ==
    ASSUME MsgTypes, NEW m \in SeqIds, ~IsDuplicate(m), Track(m),
           \A i \in 1 .. Len(seen) : seen[i] <= m
    PROVE  \A i \in 1 .. Len(seen') : seen'[i] <= m
<1>0. Len(seen) \in Nat /\ seen' \in Seq(SeqIds) /\ Follows(seen', seen, m) /\ m \in Nat
      /\ Len(seen') \in Nat /\ DedupWindow \in Nat
  BY TrackFollows, NumbersOfMessages, DedupWindowAssumption DEF MsgTypes
<1>1. SUFFICES ASSUME NEW i \in 1 .. Len(seen')
               PROVE  seen'[i] <= m
  OBVIOUS
<1>2. CASE i = Len(seen')
  BY <1>0, <1>2 DEF Follows
<1>3. CASE i # Len(seen')
  <2>. DEFINE k == Len(seen') - i
  <2>1. k \in 1 .. Len(seen') - 1 /\ Len(seen') - k = i
    BY <1>0, <1>1, <1>3
  <2>2. Len(seen') <= Len(seen) + 1
    BY <1>0 DEF Follows, MsgTypes
  <2>3. Len(seen) + 1 - k \in 1 .. Len(seen)
    BY <1>0, <2>1, <2>2
  <2>. HIDE DEF k
  <2>4. seen'[Len(seen') - k] = seen[Len(seen) + 1 - k]
    BY <1>0, <2>1 DEF Follows
  <2>. QED
    BY <2>1, <2>3, <2>4
<1>. QED
  BY <1>2, <1>3

\* A message that is as new as all before leaves the position at itself.
LEMMA NewMessageTracked ==
    ASSUME MsgTypes, NEW m \in SeqIds, MsgPush(m, m), Position <= m,
           \A i \in 1 .. Len(seen) : seen[i] <= Position
    PROVE  Position' = m /\ \A i \in 1 .. Len(seen') : seen'[i] <= m
<1>0. Position \in Nat /\ m \in Nat /\ \A i \in 1 .. Len(seen) : seen[i] \in Nat
  BY PositionType, NumbersOfMessages DEF MsgTypes
<1>1. \A i \in 1 .. Len(seen) : seen[i] <= m
  BY <1>0
<1>2. CASE PushDuplicate(m)
  <2>1. IsDuplicate(m) /\ UNCHANGED <<seen, last_sequence_id>>
    BY <1>2, Zenon DEF PushDuplicate
  <2>2. m \in {seen[i] : i \in 1 .. Len(seen)}
    BY <2>1 DEF MsgTypes, IsDuplicate, ToSet
  <2>3. m = Position
    BY <1>0, <2>2
  <2>. QED
    BY <1>1, <2>1, <2>3 DEF Position
<1>3. CASE PushNumbered(m, m)
  <2>1. Position' = m
    BY <1>3, NoIdAssumption DEF PushNumbered, Position
  <2>2. (~IsDuplicate(m) /\ Track(m)) \/ UNCHANGED seen
    BY <1>3, Zenon DEF PushNumbered
  <2>. QED
    BY <1>1, <2>1, <2>2, TrackedBelow
<1>. QED
  BY <1>2, <1>3, Zenon DEF MsgPush

LEMMA NumberedBefore ==
    ASSUME SessionNext, ~unnumbered', ~orphaned', early' = {}
    PROVE  ~unnumbered /\ ~orphaned /\ early = {}
<1>1. Produce \/ Transmit \/ Answer \/ Lose \/ Connected \/ AskReplay \/ SendBack \/ SentBack
      \/ Notice \/ Ping \/ PongSeen => unnumbered' = unnumbered /\ orphaned' = orphaned
  BY Zenon DEF Produce, Transmit, Answer, Lose, Connected, AskReplay, SendBack, SentBack, Notice,
               Ping, PongSeen, appVars
<1>2. Recv \/ Pause \/ Resume => unnumbered' = unnumbered /\ orphaned' = orphaned
  BY Zenon DEF Recv, Pause, Resume, appVars
<1>3. Receive \/ ReceiveOld => /\ unnumbered' = unnumbered \/ unnumbered' = TRUE
                               /\ orphaned' = orphaned
  BY Zenon DEF Receive, ReceiveOld, Handle, TrackReceived
<1>4. HeartbeatTimesOut => orphaned' = TRUE
  BY Zenon DEF HeartbeatTimesOut
<1>5. /\ unnumbered' = unnumbered => ~unnumbered
      /\ orphaned' = orphaned => ~orphaned
      /\ ~(unnumbered' = TRUE) /\ ~(orphaned' = TRUE)
  OBVIOUS
<1>6. ~unnumbered /\ ~orphaned
  BY <1>1, <1>2, <1>3, <1>4, <1>5, Zenon DEF SessionNext
<1>7. early' = early \/ early' = early \cup {conns}
  <2>1. Produce \/ Transmit \/ Answer \/ Lose \/ Pause \/ Resume \/ Connected => <1>7!1
    BY Zenon DEF Produce, Transmit, Answer, Lose, Pause, Resume, Connected, connVars
  <2>2. AskReplay \/ SendBack \/ SentBack \/ Receive \/ ReceiveOld \/ Notice => <1>7!1
    BY Zenon DEF AskReplay, SendBack, SentBack, Receive, ReceiveOld, Notice, connVars
  <2>3. Recv \/ Ping \/ PongSeen \/ HeartbeatTimesOut => <1>7!1
    BY Zenon DEF Recv, Ping, PongSeen, HeartbeatTimesOut, connVars
  <2>. QED
    BY <2>1, <2>2, <2>3, Zenon DEF SessionNext
<1>. QED
  BY <1>6, <1>7

\* What the application is given next it may have been given last.
LEMMA OrderedAppend ==
    ASSUME NEW s \in Seq(Nat), NEW x \in Nat, NEW p \in Nat, Ordered(s), UNCHANGED resent,
           \A i \in 1 .. Len(s) : s[i] <= p,
           p < x \/ (p = x /\ x \in resent)
    PROVE  /\ Ordered(Append(s, x))'  = Ordered(Append(s, x))
           /\ Ordered(Append(s, x))
           /\ \A i \in 1 .. Len(Append(s, x)) : Append(s, x)[i] <= x
<1>. DEFINE t == Append(s, x)
<1>1. /\ Len(t) = Len(s) + 1 /\ Len(s) \in Nat /\ t[Len(s) + 1] = x
      /\ \A k \in 1 .. Len(s) : t[k] = s[k] /\ s[k] \in Nat
  BY AppendToChannel
<1>2. \A k \in 1 .. Len(t) : k \in 1 .. Len(s) \/ (k = Len(s) + 1 /\ t[k] = x)
  BY <1>1
<1>. HIDE DEF t
<1>3. \A i \in 1 .. Len(t) : t[i] <= x
  BY <1>1, <1>2
<1>4. ASSUME NEW i \in 1 .. Len(t), NEW j \in 1 .. Len(t), i < j
      PROVE  t[i] < t[j] \/ (t[i] = t[j] /\ t[i] \in resent)
  <2>1. i \in 1 .. Len(s)
    BY <1>1, <1>4
  <2>2. t[i] = s[i] /\ s[i] \in Nat /\ s[i] <= p
    BY <1>1, <2>1
  <2>3. CASE j \in 1 .. Len(s)
    BY <1>1, <1>4, <2>1, <2>2, <2>3 DEF Ordered
  <2>4. CASE j = Len(s) + 1
    BY <1>1, <2>2, <2>4
  <2>. QED
    BY <1>2, <2>3, <2>4
<1>5. Ordered(t)
  BY <1>1, <1>4 DEF Ordered
<1>6. Ordered(t)' = Ordered(t)
  BY DEF Ordered, t
<1>. QED
  BY <1>3, <1>5, <1>6 DEF t

LEMMA OrderStep ==
    ASSUME Core, OrderInv, SessionNext
    PROVE  OrderInv'
<1>. SUFFICES ASSUME ~unnumbered', ~orphaned', early' = {}
              PROVE  OrderInv'
  BY DEF OrderInv
<1>0. ~unnumbered /\ ~orphaned /\ early = {}
  BY NumberedBefore
<1>1. /\ old = {}
      /\ Ordered(Application) /\ Rising(chan)
      /\ \A i \in 1 .. Len(Application) : Application[i] <= Position
      /\ \A i \in 1 .. Len(seen) : seen[i] <= Position
      /\ \A i \in 1 .. Len(chan) :
             chan[i] # 0 => Position < chan[i] \/ (Position = chan[i] /\ chan[i] \in resent)
      /\ phase # "down" => /\ Position < pos \/ (Position = pos /\ pos \in resent)
                           /\ \A i \in 1 .. Len(chan) : chan[i] < pos
      /\ ToBeAsked => last_seq = Position
      /\ conns = 0 => Position = 0
  BY <1>0 DEF OrderInv
<1>2. /\ SessionTypes /\ MsgTypes /\ Position \in Nat /\ MaxMsgs \in Nat /\ srv \in Nat
      /\ pos \in Nat /\ pos > 0 /\ conns \in Nat /\ chan \in Seq(Nat) /\ Len(chan) \in Nat
      /\ \A i \in 1 .. Len(chan) : chan[i] \in Nat
      /\ Position <= srv /\ srv <= MaxMsgs
  <2>1. SessionTypes /\ MsgTypes /\ Position <= srv
    BY DEF Core, MsgInv, Known
  <2>2. Position \in Nat /\ MaxMsgs \in Nat
    BY <2>1, PositionType, NumbersOfMessages
  <2>3. srv \in Nat /\ srv <= MaxMsgs /\ pos \in Nat /\ pos > 0 /\ conns \in Nat
    BY <2>1, <2>2 DEF SessionTypes
  <2>4. chan \in Seq(Nat)
    BY <2>1, ChannelOfNumbers
  <2>5. Len(chan) \in Nat /\ \A i \in 1 .. Len(chan) : chan[i] \in Nat
    BY <2>4
  <2>. QED
    BY <2>1, <2>2, <2>3, <2>4, <2>5
<1>3. ASSUME UNCHANGED <<msgVars, queue, got>>
      PROVE  Application' = Application /\ Position' = Position /\ seen' = seen
  BY <1>3 DEF Application, Position, msgVars
<1>4. ASSUME UNCHANGED <<Position, seen, resent, old>>, Application' = Application,
             phase' # "down" => Position < pos' \/ (Position = pos' /\ pos' \in resent),
             phase' # "down" => \A i \in 1 .. Len(chan') : chan'[i] < pos',
             conns' = 0 => conns = 0, ToBeAsked' => last_seq' = Position, Rising(chan)',
             \A i \in 1 .. Len(chan') : chan'[i] # 0 =>
                 Position < chan'[i] \/ (Position = chan'[i] /\ chan'[i] \in resent)
      PROVE  OrderInv'
  BY <1>1, <1>4 DEF OrderInv, Ordered
<1>5. CASE Produce \/ Pause \/ Resume
  <2>1. /\ UNCHANGED <<msgVars, queue, got, phase, conns, pos, chan, old, mode, last_seq, resent>>
    BY <1>5 DEF Produce, Pause, Resume, appVars, connVars, replayVars
  <2>. QED
    BY <1>1, <1>3, <2>1 DEF OrderInv, Ordered, ToBeAsked
<1>6. CASE Transmit
  <2>1. /\ chan' = Append(chan, pos) /\ pos' = pos + 1 /\ phase # "down" /\ pos <= srv
        /\ UNCHANGED <<msgVars, queue, got, phase, conns, old, mode, last_seq, resent>>
        /\ ~ToBeAsked
    BY <1>6 DEF Transmit, appVars, replayVars
  <2>2. Rising(chan)'
    BY <1>1, <1>2, <2>1, RisingAppend DEF Rising
  <2>3. /\ Len(chan') = Len(chan) + 1
        /\ \A k \in 1 .. Len(chan) : chan'[k] = chan[k]
        /\ chan'[Len(chan) + 1] = pos
    BY <1>2, <2>1, AppendToChannel
  <2>4. \A i \in 1 .. Len(chan') : chan'[i] # 0 =>
            Position < chan'[i] \/ (Position = chan'[i] /\ chan'[i] \in resent)
    BY <1>1, <1>2, <2>1, <2>3
  <2>5. \A i \in 1 .. Len(chan') : chan'[i] < pos'
    BY <1>1, <1>2, <2>1, <2>3
  <2>6. Position < pos'
    BY <1>1, <1>2, <2>1
  <2>7. ~ToBeAsked'
    BY <2>1 DEF ToBeAsked
  <2>. QED
    BY <1>1, <1>3, <1>4, <2>1, <2>2, <2>4, <2>5, <2>6, <2>7
<1>7. CASE Answer
  <2>1. /\ chan' = Append(chan, 0) /\ phase # "down"
        /\ UNCHANGED <<msgVars, queue, got, phase, conns, pos, old, mode, last_seq, resent>>
    BY <1>7 DEF Answer, appVars, connVars, replayVars
  <2>2. Rising(chan)'
    BY <1>1, <1>2, <2>1, RisingAppend DEF Rising
  <2>3. /\ Len(chan') = Len(chan) + 1
        /\ \A k \in 1 .. Len(chan) : chan'[k] = chan[k]
        /\ chan'[Len(chan) + 1] = 0
    BY <1>2, <2>1, AppendToChannel
  <2>4. \A i \in 1 .. Len(chan') : chan'[i] # 0 =>
            Position < chan'[i] \/ (Position = chan'[i] /\ chan'[i] \in resent)
    BY <1>1, <1>2, <2>1, <2>3
  <2>5. \A i \in 1 .. Len(chan') : chan'[i] < pos
    BY <1>1, <1>2, <2>1, <2>3
  <2>6. ToBeAsked' => last_seq = Position
    BY <1>1, <2>1 DEF ToBeAsked
  <2>. QED
    BY <1>1, <1>3, <1>4, <2>1, <2>2, <2>4, <2>5, <2>6
<1>8. CASE Lose
  <2>1. UNCHANGED <<msgVars, queue, got, phase, conns, pos, old, mode, last_seq, resent>>
    BY <1>8 DEF Lose, appVars, replayVars
  <2>2. PICK n \in 0 .. Len(chan) : chan' = SubSeq(chan, 1, n)
    BY <1>8 DEF Lose
  <2>3. /\ Len(chan') = n /\ n <= Len(chan)
        /\ \A k \in 1 .. n : chan'[k] = chan[k]
    BY <1>2, <2>2, CutChannel
  <2>0. \A i \in 1 .. Len(chan') : i \in 1 .. Len(chan) /\ chan'[i] = chan[i]
    BY <1>2, <2>3
  <2>4. Rising(chan)'
    <3>1. ASSUME NEW i \in 1 .. Len(chan'), NEW j \in 1 .. Len(chan'), i < j, chan'[j] # 0
          PROVE  chan'[i] < chan'[j]
      <4>1. /\ i \in 1 .. Len(chan) /\ j \in 1 .. Len(chan)
            /\ chan'[i] = chan[i] /\ chan'[j] = chan[j]
        BY <2>0
      <4>. QED
        BY <1>1, <3>1, <4>1 DEF Rising
    <3>. QED
      BY <3>1 DEF Rising
  <2>5. \A i \in 1 .. Len(chan') :
            /\ chan'[i] # 0 => Position < chan'[i] \/ (Position = chan'[i] /\ chan'[i] \in resent)
            /\ phase # "down" => chan'[i] < pos
    BY <1>1, <2>0
  <2>6. ToBeAsked' => last_seq = Position
    BY <1>1, <2>1 DEF ToBeAsked
  <2>. QED
    BY <1>1, <1>3, <1>4, <2>1, <2>4, <2>5, <2>6
<1>9. CASE Connected
  <2>1. /\ chan' = <<>> /\ conns' = conns + 1 /\ UNCHANGED <<queue, got, old, mode, resent>>
        /\ pos' = (IF conns = 0 THEN 1 ELSE srv + 1) \/ pos' = MaxMsgs + 1 \/ pos' = srv + 1
    BY <1>9, Zenon DEF Connected, appVars
  <2>2. UNCHANGED <<last_sequence_id, seen>>
    BY <1>9, Zenon DEF Connected, msgVars
  <2>3. Position' = Position /\ Application' = Application
    BY <2>1, <2>2 DEF Position, Application
  <2>4. Position < pos'
    BY <1>1, <1>2, <2>1 DEF SessionTypes
  <2>5. ToBeAsked' => last_seq' = Position
    <3>1. phase' = "running" \/ last_seq' = Position \/ mode = "full_buffer"
      BY <1>9, Zenon DEF Connected, StartLoop
    <3>. QED
      BY <2>1, <3>1 DEF ToBeAsked
  <2>6. Rising(chan)'
    BY <2>1 DEF Rising
  <2>. QED
    BY <1>2, <1>4, <2>1, <2>2, <2>3, <2>4, <2>5, <2>6
<1>10. CASE AskReplay
  <2>1. /\ ToBeAsked /\ phase' = "running"
        /\ UNCHANGED <<msgVars, queue, got, conns, chan, old>>
        /\ \/ (pos' = last_seq + 1 \/ pos' = srv + 1) /\ resent' = resent
           \/ pos' = last_seq /\ resent' = resent \cup {last_seq}
    BY <1>10, Zenon DEF AskReplay, StartLoop, appVars
  <2>2. last_seq = Position /\ last_seq # 0
    BY <1>1, <2>1 DEF Core, Silent
  <2>3. \A i \in 1 .. Len(chan) : chan[i] = 0
    BY <1>0, <2>1 DEF Core, Silent
  <2>4. Position < pos' \/ (Position = pos' /\ pos' \in resent')
    BY <1>2, <2>1, <2>2
  <2>5. \A i \in 1 .. Len(chan) : chan[i] < pos'
    BY <1>2, <2>1, <2>2, <2>3
  <2>6. resent \subseteq resent'
    BY <2>1
  <2>7. Ordered(Application)' /\ Application' = Application /\ Position' = Position /\ seen' = seen
    BY <1>1, <1>3, <2>1, <2>6 DEF Ordered
  <2>. QED
    BY <1>1, <2>1, <2>3, <2>4, <2>5, <2>7 DEF OrderInv, ToBeAsked
<1>11. CASE SendBack \/ SentBack \/ Ping \/ PongSeen \/ Notice
  <2>1. UNCHANGED <<msgVars, queue, got, conns, pos, chan, old, mode, last_seq, resent>>
    BY <1>11 DEF SendBack, SentBack, Ping, PongSeen, Notice, appVars, connVars, replayVars
  <2>2. phase' # "down" => phase # "down"
    BY <1>11 DEF SendBack, SentBack, Ping, PongSeen, Notice, Disconnect, connVars
  <2>3. phase' = "replaying" => phase = "replaying"
    BY <1>11 DEF SendBack, SentBack, StartLoop, Ping, PongSeen, Notice, Disconnect, connVars
  <2>4. ToBeAsked' => last_seq = Position
    BY <1>1, <2>1, <2>3 DEF ToBeAsked
  <2>5. Rising(chan)'
    BY <1>1, <2>1 DEF Rising
  <2>. QED
    BY <1>1, <1>3, <1>4, <2>1, <2>2, <2>4, <2>5
<1>12. CASE Recv
  <2>1. UNCHANGED <<msgVars, phase, conns, pos, chan, old, mode, last_seq, resent>>
    BY <1>12 DEF Recv, connVars, replayVars
  <2>2. Application' = Application /\ Position' = Position /\ seen' = seen
    BY <1>2, <1>12, <2>1, RecvKeepsApplication DEF msgVars, Position
  <2>. QED
    BY <1>1, <2>1, <2>2 DEF OrderInv, Ordered, ToBeAsked
<1>13. CASE Receive
  <2>. DEFINE x == Head(chan)
  <2>1. /\ chan # <<>> /\ Handle(x) /\ UNCHANGED got /\ chan' = Tail(chan)
        /\ phase = "running" /\ UNCHANGED <<phase, pos, conns, old, resent>>
    BY <1>13, Zenon DEF Receive, connVars, replayVars
  <2>2. /\ x \in 0 .. MaxMsgs /\ x = chan[1] /\ Len(chan) >= 1 /\ Len(chan') = Len(chan) - 1
        /\ \A k \in 1 .. Len(chan') : chan'[k] = chan[k + 1]
    BY <1>2, <2>1, HeadOfChannel DEF SessionTypes
  <2>3. Rising(chan)' /\ \A i \in 1 .. Len(chan') : chan'[i] # 0 => x < chan'[i]
    BY <1>1, <1>2, <2>1, RisingTail DEF SessionTypes, Rising
  <2>4. \A i \in 1 .. Len(chan') :
            /\ chan'[i] # 0 => Position < chan'[i] \/ (Position = chan'[i] /\ chan'[i] \in resent)
            /\ chan'[i] < pos
    BY <1>1, <1>2, <2>1, <2>2
  <2>5. \/ x = 0 /\ UNCHANGED <<msgVars, unnumbered, queue>> /\ Application' = Application
        \/ /\ x \in Items /\ (MsgPush(x, x) \/ PushUnnumbered(x))
           /\ Application' = Append(Application, x)
    BY <1>2, <2>1, <2>2, HandleEffect
  <2>0. ~ToBeAsked'
    BY <2>1 DEF ToBeAsked
  <2>6. CASE x = 0
    <3>0. UNCHANGED msgVars /\ Application' = Application
      BY <2>5, <2>6, NumbersOfMessages
    <3>1. Position' = Position /\ seen' = seen
      BY <3>0 DEF Position, msgVars
    <3>. QED
      BY <1>1, <1>4, <2>0, <2>1, <2>3, <2>4, <3>0, <3>1
  <2>7. CASE x # 0
    <3>1. x \in SeqIds /\ x \in Nat /\ Application' = Append(Application, x)
      BY <2>5, <2>7, NumbersOfMessages
    <3>2. MsgPush(x, x)
      <4>1. MsgPush(x, x) \/ unnumbered' = TRUE
        BY <2>1, <2>7, Zenon DEF Handle, TrackReceived
      <4>. QED
        BY <4>1
    <3>3. (Position < x \/ (Position = x /\ x \in resent)) /\ x < pos
      BY <1>1, <2>1, <2>2, <2>7
    <3>. HIDE DEF x
    <3>4. Position' = x /\ \A i \in 1 .. Len(seen') : seen'[i] <= x
      BY <1>1, <1>2, <3>1, <3>2, <3>3, NewMessageTracked
    <3>5. Application \in Seq(Nat)
      BY <1>2, ApplicationType
    <3>6. Ordered(Append(Application, x))
          /\ \A i \in 1 .. Len(Append(Application, x)) : Append(Application, x)[i] <= x
      BY <1>1, <1>2, <2>1, <3>1, <3>3, <3>5, OrderedAppend
    <3>7. Ordered(Application)'
      BY <2>1, <3>1, <3>6 DEF Ordered
    <3>8. \A i \in 1 .. Len(Application') : Application'[i] <= x
      BY <3>1, <3>6
    <3>9. conns' # 0
      BY <1>2, <2>1 DEF Core, Started
    <3>10. \A i \in 1 .. Len(chan') : chan'[i] # 0 => x < chan'[i]
      BY <2>3
    <3>. QED
      BY <1>1, <2>0, <2>1, <2>3, <2>4, <3>3, <3>4, <3>7, <3>8, <3>9, <3>10 DEF OrderInv
  <2>. QED
    BY <2>6, <2>7
<1>14. CASE ReceiveOld
  BY <1>1, <1>14 DEF ReceiveOld
<1>15. ~HeartbeatTimesOut
  BY DEF HeartbeatTimesOut
<1>. QED
  BY <1>5, <1>6, <1>7, <1>8, <1>9, <1>10, <1>11, <1>12, <1>13, <1>14, <1>15 DEF SessionNext

\* As long as every message has a sequence id, the server waits to be asked and
\* the heartbeat has given up no connection that works, the application is given
\* the messages in order, over any number of connections and in every replay
\* mode, and one of them again only if a replay started from it and the server
\* sent it again: what push() says of a duplicate is ignored.
THEOREM OrderTheorem == SessionSpec => []AppInOrder
<1>1. OrderInv /\ UNCHANGED vars => OrderInv'
  <2>1. ASSUME UNCHANGED vars
        PROVE  UNCHANGED <<chan, old, phase, pos, conns, seen, unnumbered, orphaned, early,
                           resent, mode, last_seq, Application, Position>>
    BY <2>1 DEF vars, connVars, replayVars, appVars, msgVars, Application, Position
  <2>. QED
    BY <2>1 DEF OrderInv, Ordered, ToBeAsked
<1>2. Core /\ OrderInv /\ [SessionNext]_vars => OrderInv'
  BY <1>1, OrderStep
<1>3. Core /\ OrderInv => AppInOrder
  <2>1. Core => Application \in Seq(Items)
    BY ApplicationType DEF Core
  <2>. QED
    BY <2>1 DEF OrderInv, AppInOrder, Ordered
<1>. QED
  BY <1>2, <1>3, CoreInit, CoreStep, OrderInit, PTL DEF SessionSpec
-----------------------------------------------------------------------------
(***************************************************************************)
(* What full_buffer sends back.                                            *)
(***************************************************************************)
\* t is s without some of its elements.
Thinner(t, s) == (Rising(s) => Rising(t)) /\ Values(t) \subseteq Values(s)

LEMMA CutMiddle ==
    ASSUME NEW a \in Seq(Items), NEW b \in Seq(Items), NEW c \in Seq(Items)
    PROVE  Thinner(a \o c, a \o (b \o c))
<1>. DEFINE s == a \o (b \o c)
            t == a \o c
            m(i) == IF i <= Len(a) THEN i ELSE i + Len(b)
<1>1. /\ Len(a) \in Nat /\ Len(b) \in Nat /\ Len(c) \in Nat
      /\ Len(s) = Len(a) + Len(b) + Len(c) /\ Len(t) = Len(a) + Len(c)
  OBVIOUS
<1>2. \A i \in 1 .. Len(t) : m(i) \in 1 .. Len(s) /\ t[i] = s[m(i)]
  OBVIOUS
<1>3. \A i, j \in 1 .. Len(t) : i < j => m(i) < m(j)
  BY <1>1
<1>. HIDE DEF s, t, m
<1>4. Rising(s) => Rising(t)
  BY <1>2, <1>3 DEF Rising
<1>5. Values(t) \subseteq Values(s)
  BY <1>2 DEF Values
<1>6. Thinner(t, s)
  BY <1>4, <1>5 DEF Thinner
<1>. QED
  BY <1>6 DEF s, t

LEMMA SequenceAlgebra ==
    /\ <<>> \in Seq(Items)
    /\ \A a, b \in Seq(Items) : a \o b \in Seq(Items)
    /\ \A a, b, c \in Seq(Items) : (a \o b) \o c = a \o (b \o c)
    /\ \A a \in Seq(Items) : <<>> \o a = a /\ a \o <<>> = a
    /\ \A a \in Seq(Items), x \in Items : Append(a, x) = a \o <<x>> /\ <<x>> \in Seq(Items)
<1>1. \A a, b, c \in Seq(Items) : (a \o b) \o c = a \o (b \o c)
  BY ConcatAssociative
<1>2. \A a \in Seq(Items) : <<>> \o a = a /\ a \o <<>> = a
  BY ConcatEmptySeq
<1>3. \A a \in Seq(Items), x \in Items : Append(a, x) = a \o <<x>> /\ <<x>> \in Seq(Items)
  BY AppendIsConcat
<1>. QED
  BY <1>1, <1>2, <1>3

LEMMA FirstMoves ==
    ASSUME NEW e \in Seq(Items), NEW t \in Seq(Items), t # <<>>, NEW w \in Seq(Items)
    PROVE  /\ Append(e, Head(t)) \o (Tail(t) \o w) = e \o (t \o w)
           /\ Append(e, Head(t)) \in Seq(Items) /\ Tail(t) \in Seq(Items)
<1>1. Head(t) \in Items /\ Tail(t) \in Seq(Items) /\ t = <<Head(t)>> \o Tail(t)
  OBVIOUS
<1>. DEFINE h == <<Head(t)>>
            r == Tail(t)
<1>2. h \in Seq(Items) /\ Append(e, Head(t)) = e \o h /\ r \in Seq(Items) /\ t = h \o r
  BY <1>1, SequenceAlgebra, Zenon
<1>3. Append(e, Head(t)) \in Seq(Items)
  BY <1>1
<1>. HIDE DEF h, r
<1>4. t \o w = h \o (r \o w) /\ r \o w \in Seq(Items)
  BY <1>2, SequenceAlgebra, SMTT(40)
<1>. DEFINE q == r \o w
<1>. HIDE DEF q
<1>5. (e \o h) \o q = e \o (h \o q)
  <2>1. q \in Seq(Items)
    BY <1>4 DEF q
  <2>2. \A b, c \in Seq(Items) : (e \o b) \o c = e \o (b \o c)
    BY SequenceAlgebra, Zenon
  <2>. QED
    BY <1>2, <2>1, <2>2, Zenon
<1>. QED
  BY <1>1, <1>2, <1>3, <1>4, <1>5, Zenon DEF q, r

LEMMA LastStored ==
    ASSUME NEW e \in Seq(Items), NEW t \in Seq(Items), NEW w \in Seq(Items), NEW x \in Items
    PROVE  e \o (t \o Append(w, x)) = Append(e \o (t \o w), x)
<1>1. \A a, b \in Seq(Items) : a \o Append(b, x) = Append(a \o b, x)
  BY AppendToConcat
<1>2. t \o Append(w, x) = Append(t \o w, x)
  BY <1>1, Zenon
<1>. DEFINE q == t \o w
<1>3. q \in Seq(Items)
  BY SequenceAlgebra, Zenon
<1>. HIDE DEF q
<1>4. e \o Append(q, x) = Append(e \o q, x)
  BY <1>1, <1>3, Zenon
<1>. QED
  BY <1>2, <1>4, Zenon DEF q

LEMMA OldestLeaves ==
    ASSUME NEW e \in Seq(Items), NEW t \in Seq(Items), NEW w \in Seq(Items), w # <<>>
    PROVE  Thinner(e \o (t \o Tail(w)), e \o (t \o w)) /\ Tail(w) \in Seq(Items)
<1>1. Head(w) \in Items /\ Tail(w) \in Seq(Items) /\ w = <<Head(w)>> \o Tail(w)
      /\ <<Head(w)>> \in Seq(Items)
  OBVIOUS
<1>. DEFINE h == <<Head(w)>>
            r == Tail(w)
            a == e \o t
<1>2. h \in Seq(Items) /\ r \in Seq(Items) /\ w = h \o r /\ a \in Seq(Items)
  BY <1>1, SequenceAlgebra, Zenon
<1>3. \A v \in Seq(Items) : (e \o t) \o v = e \o (t \o v)
  BY SequenceAlgebra, Zenon
<1>4. \A p, q, v \in Seq(Items) : Thinner(p \o v, p \o (q \o v))
  BY CutMiddle
<1>. HIDE DEF h, r
<1>5. a \o r = e \o (t \o r) /\ a \o w = e \o (t \o w)
  BY <1>2, <1>3, Zenon
<1>. HIDE DEF a
<1>6. Thinner(a \o r, a \o (h \o r))
  BY <1>2, <1>4, Zenon
<1>7. Thinner(e \o (t \o r), e \o (t \o w))
  BY <1>2, <1>5, <1>6, Zenon
<1>. QED
  BY <1>2, <1>7 DEF r

\* A message to be sent back that a lost connection takes is gone.
LEMMA FirstLeaves ==
    ASSUME NEW e \in Seq(Items), NEW t \in Seq(Items), t # <<>>, NEW w \in Seq(Items)
    PROVE  Thinner(e \o (Tail(t) \o w), e \o (t \o w)) /\ Tail(t) \in Seq(Items)
<1>1. Head(t) \in Items /\ Tail(t) \in Seq(Items) /\ t = <<Head(t)>> \o Tail(t)
      /\ <<Head(t)>> \in Seq(Items)
  OBVIOUS
<1>. DEFINE h == <<Head(t)>>
            r == Tail(t)
<1>2. h \in Seq(Items) /\ r \in Seq(Items) /\ t = h \o r
  BY <1>1, SequenceAlgebra, Zenon
<1>3. \A p, u, v \in Seq(Items) : Thinner(p \o v, p \o (u \o v))
  BY CutMiddle
<1>. HIDE DEF h, r
<1>4. t \o w = h \o (r \o w) /\ r \o w \in Seq(Items)
  BY <1>2, SequenceAlgebra, SMTT(40)
<1>. DEFINE q == r \o w
<1>5. t \o w = h \o q /\ q \in Seq(Items)
  BY <1>4
<1>. HIDE DEF q
<1>6. Thinner(e \o q, e \o (h \o q))
  BY <1>2, <1>3, <1>5, Zenon
<1>. QED
  BY <1>1, <1>5, <1>6, Zenon DEF q, r

LEMMA ThinnerSame == \A s : Thinner(s, s)
BY DEF Thinner

\* The messages of a window.
LEMMA MessagesOfWindow ==
    ASSUME NEW w \in Seq(Slots)
    PROVE  /\ ItemsOf(w) \in Seq(Items) /\ (w # <<>> => ItemsOf(w) # <<>>)
           /\ \A p \in Slots : ItemsOf(Append(w, p)) = Append(ItemsOf(w), p.item)
           /\ w # <<>> => ItemsOf(Tail(w)) = Tail(ItemsOf(w))
<1>1. Len(w) \in Nat /\ DOMAIN w = 1 .. Len(w) /\ \A i \in 1 .. Len(w) : w[i].item \in Items
  <2>1. Len(w) \in Nat /\ DOMAIN w = 1 .. Len(w) /\ \A i \in 1 .. Len(w) : w[i] \in Slots
    OBVIOUS
  <2>2. \A p \in Slots : p.item \in Items
    BY DEF Slots
  <2>. QED
    BY <2>1, <2>2
<1>2. ItemsOf(w) = [i \in 1 .. Len(w) |-> w[i].item]
  BY <1>1 DEF ItemsOf
<1>3. ItemsOf(w) \in Seq(Items) /\ Len(ItemsOf(w)) = Len(w)
  BY <1>1, <1>2
<1>4. ASSUME NEW p \in Slots
      PROVE  ItemsOf(Append(w, p)) = Append(ItemsOf(w), p.item)
  <2>1. /\ Append(w, p) \in Seq(Slots) /\ Len(Append(w, p)) = Len(w) + 1
        /\ \A i \in 1 .. Len(w) : Append(w, p)[i] = w[i]
        /\ Append(w, p)[Len(w) + 1] = p
    BY AppendToChannel
  <2>2. ItemsOf(Append(w, p)) = [i \in 1 .. Len(w) + 1 |-> Append(w, p)[i].item]
    BY <1>1, <2>1 DEF ItemsOf
  <2>3. p.item \in Items
    BY DEF Slots
  <2>4. Append(ItemsOf(w), p.item)
            = [i \in 1 .. Len(w) + 1 |-> IF i = Len(w) + 1 THEN p.item ELSE ItemsOf(w)[i]]
    BY <1>3, <2>3
  <2>5. \A i \in 1 .. Len(w) + 1 : Append(w, p)[i].item
                                     = IF i = Len(w) + 1 THEN p.item ELSE ItemsOf(w)[i]
    BY <1>1, <1>2, <2>1
  <2>. QED
    BY <2>2, <2>4, <2>5
<1>5. ASSUME w # <<>>
      PROVE  ItemsOf(w) # <<>> /\ ItemsOf(Tail(w)) = Tail(ItemsOf(w))
  <2>1. /\ Tail(w) \in Seq(Slots) /\ Len(Tail(w)) = Len(w) - 1 /\ Len(w) >= 1
        /\ \A i \in 1 .. Len(Tail(w)) : Tail(w)[i] = w[i + 1]
    BY <1>5, HeadOfChannel
  <2>2. ItemsOf(w) # <<>>
    BY <1>1, <1>3, <2>1
  <2>3. /\ Len(Tail(ItemsOf(w))) = Len(w) - 1 /\ Tail(ItemsOf(w)) \in Seq(Items)
        /\ \A i \in 1 .. Len(w) - 1 : Tail(ItemsOf(w))[i] = ItemsOf(w)[i + 1]
    BY <1>3, <2>2, HeadOfChannel
  <2>4. ItemsOf(Tail(w)) = [i \in 1 .. Len(w) - 1 |-> Tail(w)[i].item]
    BY <2>1 DEF ItemsOf
  <2>5. \A i \in 1 .. Len(w) - 1 : Tail(w)[i].item = Tail(ItemsOf(w))[i]
    BY <1>1, <1>2, <2>1, <2>3
  <2>6. Tail(ItemsOf(w)) = [i \in 1 .. Len(w) - 1 |-> Tail(ItemsOf(w))[i]]
    <3>1. \A u \in Seq(Items) : u = [i \in 1 .. Len(u) |-> u[i]]
      OBVIOUS
    <3>. QED
      BY <2>3, <3>1, Zenon
  <2>. QED
    BY <2>2, <2>4, <2>5, <2>6
<1>. QED
  BY <1>3, <1>4, <1>5
LEMMA PushContents ==
    ASSUME RingInv, NEW p \in Slots, RingPush(p)
    PROVE  \/ Window' = Window
           \/ Window' = Append(Window, p)
           \/ Window # <<>> /\ Window' = Append(Tail(Window), p)
<1>1. RingInv' /\ policy' = policy
  BY PushEffect
<1>2. CASE PushStored(p)
  BY <1>1, <1>2, StoreAppends
<1>3. CASE PushOverwrites(p)
  <2>1. len > 0
    BY <1>3, CapacityAssumption DEF PushOverwrites, IsFull
  <2>. QED
    BY <1>1, <1>3, <2>1, HeadTail, OverwriteReplaces
<1>4. CASE PushRefused \/ PushRaises
  BY <1>4 DEF PushRefused, PushRaises, Window, At
<1>. QED
  BY <1>2, <1>3, <1>4 DEF RingPush

\* A received message joins what is outgoing at the end, if the buffer takes it.
LEMMA HandleOutgoing ==
    ASSUME RingInv, echoed \in Seq(Items), toSend \in Seq(Items), NEW m \in Items, m \in SeqIds,
           MsgPush(m, m) \/ PushUnnumbered(m), UNCHANGED <<echoed, toSend>>
    PROVE  \E o \in Seq(Items) : /\ Thinner(o, Outgoing)
                                 /\ Outgoing' = o \/ Outgoing' = Append(o, m)
<1>. DEFINE w == ItemsOf(Window)
<1>1. Window \in Seq(Slots)
  BY WindowIsSeq
<1>2. w \in Seq(Items) /\ (Window # <<>> => w # <<>> /\ ItemsOf(Tail(Window)) = Tail(w))
  BY <1>1, MessagesOfWindow
<1>3. Outgoing = echoed \o (toSend \o w) /\ Outgoing' = echoed \o (toSend \o ItemsOf(Window'))
  BY DEF Outgoing, ItemsOf
<1>4. \/ Window' = Window
      \/ \E p \in Slots : p.item = m /\ Window' = Append(Window, p)
      \/ \E p \in Slots : p.item = m /\ Window # <<>> /\ Window' = Append(Tail(Window), p)
  <2>1. CASE PushDuplicate(m)
    BY <2>1 DEF PushDuplicate, Window, At
  <2>2. CASE \E p \in Slots : p.item = m /\ RingPush(p)
    BY <2>2, PushContents
  <2>3. PushNumbered(m, m) => <2>2!1
    <3>1. [item |-> m, seq |-> m] \in Slots /\ [item |-> m, seq |-> m].item = m
      BY DEF Slots
    <3>. QED
      BY <3>1, Zenon DEF PushNumbered
  <2>4. PushUnnumbered(m) => <2>2!1
    <3>1. [item |-> m, seq |-> None] \in Slots /\ [item |-> m, seq |-> None].item = m
      BY DEF Slots
    <3>. QED
      BY <3>1, Zenon DEF PushUnnumbered
  <2>. QED
    BY <2>1, <2>2, <2>3, <2>4 DEF MsgPush
<1>5. \A u \in Seq(Items) : /\ echoed \o (toSend \o u) \in Seq(Items)
                            /\ echoed \o (toSend \o Append(u, m)) = Append(echoed \o (toSend \o u), m)
  BY LastStored, SMTT(40)
<1>. HIDE DEF w
<1>6. Thinner(Outgoing, Outgoing) /\ Outgoing \in Seq(Items)
  BY <1>2, <1>3, <1>5, ThinnerSame
<1>7. CASE Window' = Window
  <2>1. Outgoing' = Outgoing
    BY <1>3, <1>7 DEF w
  <2>. QED
    BY <1>6, <2>1
<1>8. CASE \E p \in Slots : p.item = m /\ Window' = Append(Window, p)
  <2>1. ItemsOf(Window') = Append(w, m)
    BY <1>1, <1>8, MessagesOfWindow DEF w
  <2>2. Outgoing' = Append(Outgoing, m)
    BY <1>2, <1>3, <1>5, <2>1, Zenon
  <2>. QED
    BY <1>6, <2>2
<1>9. CASE \E p \in Slots : p.item = m /\ Window # <<>> /\ Window' = Append(Tail(Window), p)
  <2>1. Window # <<>> /\ Tail(Window) \in Seq(Slots)
    BY <1>1, <1>9
  <2>2. ItemsOf(Window') = Append(ItemsOf(Tail(Window)), m)
    BY <1>9, <2>1, MessagesOfWindow
  <2>3. ItemsOf(Window') = Append(Tail(w), m) /\ w # <<>>
    BY <1>2, <2>1, <2>2
  <2>. DEFINE o == echoed \o (toSend \o Tail(w))
  <2>4. Thinner(o, Outgoing) /\ Tail(w) \in Seq(Items)
    BY <1>2, <1>3, <2>3, OldestLeaves
  <2>5. o \in Seq(Items) /\ Outgoing' = Append(o, m)
    BY <1>3, <1>5, <2>3, <2>4, Zenon
  <2>. QED
    BY <2>4, <2>5
<1>. QED
  BY <1>4, <1>7, <1>8, <1>9

\* drain() hands out all that is buffered.
LEMMA DrainOutgoing ==
    ASSUME RingInv, echoed \in Seq(Items), toSend = <<>>, RingDrain,
           toSend' = result'.items, echoed' = echoed
    PROVE  Outgoing' = Outgoing /\ toSend' \in Seq(Items)
<1>. DEFINE w == ItemsOf(Window)
<1>1. w \in Seq(Items)
  BY WindowIsSeq, MessagesOfWindow
<1>2. Items = Present
  BY NoIdAssumption, SessionAssumption DEF Present
<1>. HIDE DEF w
<1>3. Filter(w, Present) = w
  BY <1>1, <1>2, FilterAll
<1>4. toSend' = w
  BY <1>3 DEF RingDrain, Result, w
<1>5. ItemsOf(Window') = <<>>
  BY DEF RingDrain, Emptied, Window, ItemsOf
<1>6. Outgoing = echoed \o (<<>> \o w) /\ Outgoing' = echoed \o (w \o <<>>)
  <2>1. Outgoing' = echoed' \o (toSend' \o ItemsOf(Window'))
    BY DEF Outgoing, ItemsOf
  <2>. QED
    BY <1>4, <1>5, <2>1 DEF Outgoing, w
<1>7. <<>> \o w = w /\ w \o <<>> = w
  BY <1>1, SequenceAlgebra, Zenon
<1>. QED
  BY <1>1, <1>4, <1>6, <1>7, Zenon

\* How a step changes what is outgoing: it may lose some of it, and gain a
\* message that was just received.
Received(m) == /\ m \in Items /\ Application' = Append(Application, m)
               /\ \/ Receive /\ m = Head(chan)
                  \/ ReceiveOld

LEMMA OutgoingStep ==
    ASSUME Core, EchoTypes, SessionNext
    PROVE  /\ echoed' \in Seq(Items) /\ toSend' \in Seq(Items)
           /\ \/ Thinner(Outgoing', Outgoing)
              \/ \E o \in Seq(Items), m \in Items :
                    Received(m) /\ Thinner(o, Outgoing) /\ Outgoing' = Append(o, m)
           /\ Application' = Application \/ \E m \in Items : Received(m)
<1>1. /\ echoed \in Seq(Items) /\ toSend \in Seq(Items) /\ SessionTypes /\ RingInv /\ MsgTypes
      /\ SeqIds = Items
  BY NumbersOfMessages DEF EchoTypes, Core, MsgInv
<1>2. ASSUME UNCHANGED <<msgVars, echoed, toSend>>
      PROVE  Outgoing' = Outgoing
  BY <1>2 DEF Outgoing, ItemsOf, Window, At, msgVars, ringVars
<1>3. ASSUME NEW m, m \in 0 .. MaxMsgs, Handle(m), UNCHANGED <<got, echoed, toSend>>,
             (Receive /\ m = Head(chan)) \/ ReceiveOld
      PROVE  /\ \/ Thinner(Outgoing', Outgoing)
                \/ \E o \in Seq(Items), k \in Items :
                      Received(k) /\ Thinner(o, Outgoing) /\ Outgoing' = Append(o, k)
             /\ Application' = Application \/ \E k \in Items : Received(k)
  <2>1. \/ m = 0 /\ UNCHANGED <<msgVars, unnumbered, queue>> /\ Application' = Application
        \/ /\ m \in Items /\ (MsgPush(m, m) \/ PushUnnumbered(m))
           /\ Application' = Append(Application, m)
    BY <1>1, <1>3, HandleEffect
  <2>2. CASE UNCHANGED msgVars /\ Application' = Application
    BY <1>2, <1>3, <2>2, ThinnerSame
  <2>3. CASE /\ m \in Items /\ (MsgPush(m, m) \/ PushUnnumbered(m))
             /\ Application' = Append(Application, m)
    <3>1. Received(m)
      BY <1>3, <2>3 DEF Received
    <3>2. PICK o \in Seq(Items) : /\ Thinner(o, Outgoing)
                                  /\ Outgoing' = o \/ Outgoing' = Append(o, m)
      BY <1>1, <1>3, <2>3, HandleOutgoing
    <3>. QED
      BY <2>3, <3>1, <3>2
  <2>. QED
    BY <2>1, <2>2, <2>3
<1>4. CASE Produce \/ Transmit \/ Answer \/ Lose \/ Pause \/ Resume \/ AskReplay \/ SentBack
           \/ Notice \/ Recv \/ Ping \/ PongSeen \/ HeartbeatTimesOut
  <2>1. UNCHANGED <<msgVars, echoed, toSend>>
    BY <1>4 DEF Produce, Transmit, Answer, Lose, Pause, Resume, AskReplay, SentBack, Notice, Recv,
                Ping, PongSeen, HeartbeatTimesOut, replayVars
  <2>2. Application' = Application
    <3>1. CASE Recv
      BY <1>1, <3>1, RecvKeepsApplication
    <3>2. CASE ~Recv
      BY <1>4, <3>2 DEF Produce, Transmit, Answer, Lose, Pause, Resume, AskReplay, SentBack,
                        Notice, Ping, PongSeen, HeartbeatTimesOut, appVars, Application
    <3>. QED
      BY <3>1, <3>2
  <2>. QED
    BY <1>1, <1>2, <2>1, <2>2, ThinnerSame
<1>5. CASE Connected
  <2>1. UNCHANGED <<echoed, queue, got>> /\ phase = "down"
    BY <1>5 DEF Connected, appVars
  <2>2. Application' = Application /\ toSend = <<>>
    BY <2>1 DEF Application, EchoTypes
  <2>3. \/ UNCHANGED <<msgVars, toSend>>
        \/ RingDrain /\ toSend' = result'.items
    BY <1>5, Zenon DEF Connected
  <2>4. CASE UNCHANGED <<msgVars, toSend>>
    BY <1>1, <1>2, <2>1, <2>2, <2>4, ThinnerSame
  <2>5. CASE RingDrain /\ toSend' = result'.items
    BY <1>1, <2>1, <2>2, <2>5, DrainOutgoing, ThinnerSame
  <2>. QED
    BY <2>3, <2>4, <2>5
<1>6. CASE SendBack
  <2>. DEFINE w == ItemsOf(Window)
  <2>1. /\ toSend # <<>> /\ UNCHANGED <<msgVars, queue, got>>
        /\ \/ echoed' = Append(echoed, Head(toSend)) /\ toSend' = Tail(toSend)
           \/ toSend' = Tail(toSend) /\ echoed' = echoed
           \/ toSend' = <<>> /\ echoed' = echoed
    BY <1>6, Zenon DEF SendBack, appVars
  <2>2. Application' = Application
    BY <2>1 DEF Application
  <2>3. w \in Seq(Items) /\ ItemsOf(Window') = w
    BY <1>1, <2>1, WindowIsSeq, MessagesOfWindow DEF ItemsOf, Window, At, msgVars, ringVars
  <2>4. Outgoing = echoed \o (toSend \o w) /\ Outgoing' = echoed' \o (toSend' \o w)
    BY <2>3 DEF Outgoing, ItemsOf
  <2>. HIDE DEF w
  <2>5. CASE echoed' = Append(echoed, Head(toSend)) /\ toSend' = Tail(toSend)
    <3>0. /\ Append(echoed, Head(toSend)) \o (Tail(toSend) \o w) = echoed \o (toSend \o w)
          /\ Append(echoed, Head(toSend)) \in Seq(Items) /\ Tail(toSend) \in Seq(Items)
      BY <1>1, <2>1, <2>3, FirstMoves, SMTT(40)
    <3>1. Outgoing' = Outgoing /\ echoed' \in Seq(Items) /\ toSend' \in Seq(Items)
      BY <2>4, <2>5, <3>0, Zenon
    <3>. QED
      BY <2>2, <3>1, ThinnerSame
  <2>6. CASE toSend' = <<>> /\ echoed' = echoed
    <3>1. <<>> \in Seq(Items) /\ <<>> \o w = w
      BY <2>3, SequenceAlgebra, Zenon
    <3>2. Outgoing' = echoed \o w
      BY <2>4, <2>6, <3>1, Zenon
    <3>3. Thinner(echoed \o w, echoed \o (toSend \o w))
      BY <1>1, <2>3, CutMiddle
    <3>4. Thinner(Outgoing', Outgoing)
      BY <2>4, <3>2, <3>3, Zenon
    <3>. QED
      BY <1>1, <2>2, <2>6, <3>1, <3>4
  <2>7. CASE toSend' = Tail(toSend) /\ echoed' = echoed
    <3>1. /\ Thinner(echoed \o (Tail(toSend) \o w), echoed \o (toSend \o w))
          /\ Tail(toSend) \in Seq(Items)
      BY <1>1, <2>1, <2>3, FirstLeaves, SMTT(40)
    <3>2. Thinner(Outgoing', Outgoing) /\ toSend' \in Seq(Items)
      BY <2>4, <2>7, <3>1, Zenon
    <3>. QED
      BY <1>1, <2>2, <2>7, <3>2
  <2>. QED
    BY <2>1, <2>5, <2>6, <2>7
<1>7. CASE Receive
  <2>1. chan # <<>> /\ Handle(Head(chan)) /\ UNCHANGED <<got, echoed, toSend>>
    BY <1>7, Zenon DEF Receive, replayVars
  <2>2. Head(chan) \in 0 .. MaxMsgs
    BY <1>1, <2>1, HeadOfChannel DEF SessionTypes
  <2>. QED
    BY <1>1, <1>3, <1>7, <2>1, <2>2
<1>8. CASE ReceiveOld
  <2>1. PICK late \in old : Handle(late[2]) /\ UNCHANGED <<got, echoed, toSend>>
    BY <1>8, Zenon DEF ReceiveOld, replayVars
  <2>2. late[2] \in 0 .. MaxMsgs
    BY <1>1, <2>1 DEF SessionTypes
  <2>. QED
    BY <1>1, <1>3, <1>8, <2>1, <2>2
<1>. QED
  BY <1>4, <1>5, <1>6, <1>7, <1>8 DEF SessionNext
LEMMA OutgoingType ==
    RingInv /\ echoed \in Seq(Items) /\ toSend \in Seq(Items) => Outgoing \in Seq(Items)
<1>. SUFFICES ASSUME RingInv, echoed \in Seq(Items), toSend \in Seq(Items)
              PROVE  Outgoing \in Seq(Items)
  OBVIOUS
<1>1. ItemsOf(Window) \in Seq(Items)
  BY WindowIsSeq, MessagesOfWindow
<1>2. toSend \o ItemsOf(Window) \in Seq(Items)
  BY <1>1
<1>. QED
  BY <1>2 DEF Outgoing

LEMMA ValuesType ==
    ASSUME NEW X, NEW s \in Seq(X)
    PROVE  Values(s) \subseteq X
BY DEF Values

LEMMA ValuesAppend ==
    ASSUME NEW X, NEW s \in Seq(X), NEW x \in X
    PROVE  Values(Append(s, x)) = Values(s) \cup {x}
<1>1. /\ Len(Append(s, x)) = Len(s) + 1 /\ Len(s) \in Nat
      /\ \A k \in 1 .. Len(s) : Append(s, x)[k] = s[k]
      /\ Append(s, x)[Len(s) + 1] = x
  BY AppendToChannel
<1>. DEFINE t == Append(s, x)
<1>. HIDE DEF t
<1>2. \A v \in Values(t) : v \in Values(s) \/ v = x
  BY <1>1 DEF Values, t
<1>3. \A v \in Values(s) : v \in Values(t)
  BY <1>1 DEF Values, t
<1>4. x \in Values(t)
  BY <1>1 DEF Values, t
<1>5. Values(t) = Values(s) \cup {x}
  BY <1>2, <1>3, <1>4
<1>. QED
  BY <1>5 DEF t

LEMMA EchoInit == SessionInit => EchoTypes /\ EchoOrder
<1>1. ASSUME SessionInit
      PROVE  /\ echoed = <<>> /\ toSend = <<>> /\ ItemsOf(Window) = <<>> /\ chan = <<>>
             /\ old = {}
  BY <1>1 DEF SessionInit, MsgInit, RingInit, Window, ItemsOf
<1>2. SessionInit => Outgoing = <<>>
  BY <1>1 DEF Outgoing
<1>. QED
  BY <1>1, <1>2 DEF EchoTypes, EchoOrder, Values, Rising

LEMMA EchoTypesStep ==
    ASSUME Core, EchoTypes, SessionNext
    PROVE  EchoTypes' /\ mode' = mode
<1>1. /\ echoed' \in Seq(Items) /\ toSend' \in Seq(Items)
      /\ \/ Thinner(Outgoing', Outgoing)
         \/ \E o \in Seq(Items), m \in Items :
               Received(m) /\ Thinner(o, Outgoing) /\ Outgoing' = Append(o, m)
      /\ Application' = Application \/ \E m \in Items : Received(m)
  BY OutgoingStep
<1>2. Values(Outgoing') \subseteq Given'
  <2>1. Given \subseteq Given' /\ \A m \in Items : Received(m) => m \in Given'
    <3>1. ASSUME NEW m \in Items, Received(m)
          PROVE  Given' = Given \cup {m}
      BY <3>1, GivenAppend DEF Received, Core
    <3>2. Application' = Application => Given' = Given
      BY DEF Given
    <3>. QED
      BY <1>1, <3>1, <3>2
  <2>2. Values(Outgoing) \subseteq Given
    BY DEF EchoTypes
  <2>3. CASE Thinner(Outgoing', Outgoing)
    BY <2>1, <2>2, <2>3 DEF Thinner
  <2>4. CASE \E o \in Seq(Items), m \in Items :
                Received(m) /\ Thinner(o, Outgoing) /\ Outgoing' = Append(o, m)
    <3>1. PICK o \in Seq(Items), m \in Items :
                  Received(m) /\ Thinner(o, Outgoing) /\ Outgoing' = Append(o, m)
      BY <2>4
    <3>2. Values(Outgoing') = Values(o) \cup {m}
      BY <3>1, ValuesAppend
    <3>. QED
      BY <2>1, <2>2, <3>1, <3>2 DEF Thinner
  <2>. QED
    BY <1>1, <2>3, <2>4
<1>3. Produce \/ Transmit \/ Answer \/ Lose \/ Pause \/ Resume \/ Receive \/ ReceiveOld \/ Recv
      \/ Ping \/ PongSeen => UNCHANGED <<mode, phase, echoed, toSend>>
  BY Zenon DEF Produce, Transmit, Answer, Lose, Pause, Resume, Receive, ReceiveOld, Recv, Ping, PongSeen, connVars,
               replayVars
<1>4. AskReplay => /\ UNCHANGED <<mode, echoed, toSend>> /\ mode = "sequence_id"
                   /\ toSend = <<>>
  BY DEF AskReplay, ToBeAsked, EchoTypes
<1>5. SentBack => UNCHANGED <<mode, echoed, toSend>> /\ mode = "full_buffer" /\ toSend = <<>>
  BY Zenon DEF SentBack, replayVars
<1>6. Notice \/ HeartbeatTimesOut => UNCHANGED <<mode, echoed, toSend>> /\ toSend = <<>>
  BY DEF Notice, HeartbeatTimesOut, replayVars, EchoTypes, Core, Started
<1>7. SendBack => mode' = mode /\ mode = "full_buffer" /\ phase = "replaying" /\ phase' = phase
  BY Zenon DEF SendBack, connVars
<1>8. Connected => /\ mode' = mode /\ echoed' = echoed /\ toSend = <<>>
                   /\ toSend' = toSend \/ (mode = "full_buffer" /\ phase' = "replaying")
  <2>1. Connected => /\ mode' = mode /\ echoed' = echoed /\ phase = "down"
                     /\ toSend' = toSend \/ (mode = "full_buffer" /\ phase' = "replaying")
    BY Zenon DEF Connected
  <2>. QED
    BY <2>1 DEF EchoTypes
<1>9. mode' = mode
  BY <1>3, <1>4, <1>5, <1>6, <1>7, <1>8 DEF SessionNext
<1>10. mode # "full_buffer" => echoed' = <<>> /\ toSend' = <<>>
  BY <1>3, <1>4, <1>5, <1>6, <1>7, <1>8 DEF SessionNext, EchoTypes
<1>11. phase' # "replaying" => toSend' = <<>>
  BY <1>3, <1>4, <1>5, <1>6, <1>7, <1>8 DEF SessionNext, EchoTypes
<1>. QED
  BY <1>1, <1>2, <1>9, <1>10, <1>11 DEF EchoTypes
LEMMA EchoOrderStep ==
    ASSUME Core, EchoTypes, EchoOrder, SessionNext
    PROVE  EchoOrder'
<1>. SUFFICES ASSUME mode' = "full_buffer", ~orphaned'
              PROVE  EchoOrder'
  BY DEF EchoOrder
<1>0. mode = "full_buffer" /\ ~orphaned
  <2>1. mode = "full_buffer"
    BY EchoTypesStep
  <2>2. HeartbeatTimesOut => orphaned' = TRUE
    BY Zenon DEF HeartbeatTimesOut
  <2>3. orphaned' = orphaned \/ HeartbeatTimesOut
    BY Zenon DEF SessionNext, Produce, Transmit, Answer, Lose, Pause, Resume, Connected, AskReplay,
                 SendBack, SentBack, Receive, ReceiveOld, Notice, Recv, Ping, PongSeen
  <2>4. (orphaned' = orphaned => ~orphaned) /\ ~(orphaned' = TRUE)
    OBVIOUS
  <2>. QED
    BY <2>1, <2>2, <2>3, <2>4, Zenon
<1>1. /\ old = {}
      /\ Rising(Outgoing) /\ Rising(chan)
      /\ \A x \in Values(Outgoing) \cup Values(chan) : x <= srv /\ (phase # "down" => x < pos)
      /\ \A x \in Values(Outgoing), y \in Values(chan) : y # 0 => x < y
      /\ conns = 0 => Outgoing = <<>>
  BY <1>0 DEF EchoOrder
<1>2. /\ SessionTypes /\ RingInv /\ MaxMsgs \in Nat /\ srv \in Nat /\ pos \in Nat
      /\ conns \in Nat /\ chan \in Seq(0 .. MaxMsgs) /\ chan \in Seq(Nat) /\ Items \subseteq Nat
      /\ Outgoing \in Seq(Items) /\ Outgoing' \in Seq(Items)
  <2>1. RingInv' /\ echoed' \in Seq(Items) /\ toSend' \in Seq(Items)
    BY CoreStep, OutgoingStep DEF Core, MsgInv
  <2>2. (RingInv /\ echoed \in Seq(Items) /\ toSend \in Seq(Items) => Outgoing \in Seq(Items))'
    BY OutgoingType, PTL
  <2>3. Outgoing' \in Seq(Items)
    BY <2>1, <2>2
  <2>4. /\ SessionTypes /\ RingInv /\ MaxMsgs \in Nat /\ Items \subseteq Nat
        /\ chan \in Seq(Nat)
    BY NumbersOfMessages, ChannelOfNumbers DEF Core, MsgInv
  <2>5. srv \in Nat /\ pos \in Nat /\ conns \in Nat /\ chan \in Seq(0 .. MaxMsgs)
    BY <2>4 DEF SessionTypes
  <2>6. Outgoing \in Seq(Items)
    BY <2>4, OutgoingType DEF EchoTypes
  <2>. QED
    BY <2>3, <2>4, <2>5, <2>6
<1>3. Values(Outgoing) \subseteq Nat /\ Values(chan) \subseteq Nat
  <2>1. Values(Outgoing) \subseteq Items /\ Values(chan) \subseteq Nat
    BY <1>2, ValuesType
  <2>. QED
    BY <1>2, <2>1
<1>4. /\ \/ Thinner(Outgoing', Outgoing)
         \/ \E o \in Seq(Items), m \in Items :
               Received(m) /\ Thinner(o, Outgoing) /\ Outgoing' = Append(o, m)
      /\ Receive \/ ReceiveOld \/ Thinner(Outgoing', Outgoing)
  BY OutgoingStep DEF Received
<1>5. ASSUME old' = {}, Thinner(Outgoing', Outgoing), Thinner(chan', chan),
             srv' = srv \/ srv' = srv + 1, phase' # "down" => phase # "down" /\ pos' = pos,
             conns' = conns
      PROVE  EchoOrder'
  <2>1. Values(Outgoing') \subseteq Values(Outgoing) /\ Values(chan') \subseteq Values(chan)
        /\ Rising(Outgoing') /\ Rising(chan')
    BY <1>1, <1>5 DEF Thinner
  <2>2. \A x \in Values(Outgoing') \cup Values(chan') :
            x <= srv' /\ (phase' # "down" => x < pos')
    BY <1>1, <1>2, <1>3, <1>5, <2>1
  <2>3. \A x \in Values(Outgoing'), y \in Values(chan') : y # 0 => x < y
    BY <1>1, <2>1
  <2>4. conns' = 0 => Outgoing' = <<>>
    <3>1. conns' = 0 => Values(Outgoing') = {}
      BY <1>1, <1>5, <2>1 DEF Values
    <3>2. \A s \in Seq(Items) : Values(s) = {} => s = <<>>
      <4>1. SUFFICES ASSUME NEW s \in Seq(Items), s # <<>>
                     PROVE  s[1] \in Values(s)
        OBVIOUS
      <4>2. Len(s) \in Nat /\ Len(s) >= 1
        BY <4>1
      <4>. QED
        BY <4>2 DEF Values
    <3>. QED
      BY <1>2, <3>1, <3>2
  <2>. QED
    BY <1>5, <2>1, <2>2, <2>3, <2>4 DEF EchoOrder
<1>6. CASE Produce \/ Pause \/ Resume \/ SendBack \/ SentBack \/ Notice \/ Recv \/ Ping
           \/ PongSeen
  <2>1. UNCHANGED <<chan, old, conns, pos>> /\ (srv' = srv \/ srv' = srv + 1)
    BY <1>6 DEF Produce, Pause, Resume, SendBack, SentBack, Notice, Recv, Ping, PongSeen, connVars
  <2>2. phase' # "down" => phase # "down"
    BY <1>6 DEF Produce, Pause, Resume, SendBack, SentBack, Notice, Disconnect, Recv, Ping,
                PongSeen, connVars
  <2>4. Thinner(Outgoing', Outgoing)
    <3>1. ASSUME NEW m \in Items, Received(m)
          PROVE  FALSE
      <4>1. Application' = Append(Application, m) /\ (Receive \/ ReceiveOld)
        BY <3>1 DEF Received
      <4>2. chan # <<>> /\ chan' = Tail(chan)
        BY <1>1, <4>1 DEF Receive, ReceiveOld
      <4>3. chan # <<>> => Tail(chan) # chan
        <5>1. chan # <<>> => Len(Tail(chan)) = Len(chan) - 1 /\ Len(chan) \in Nat
          BY <1>2, HeadOfChannel
        <5>. QED
          BY <5>1
      <4>. QED
        BY <1>1, <2>1, <4>2, <4>3
    <3>. QED
      BY <1>4, <3>1
  <2>. QED
    BY <1>1, <1>5, <2>1, <2>2, <2>4, ThinnerSame
<1>7. CASE Lose
  <2>1. UNCHANGED <<old, conns, pos, phase, srv, msgVars, echoed, toSend>>
    BY <1>7 DEF Lose, replayVars
  <2>2. PICK n \in 0 .. Len(chan) : chan' = SubSeq(chan, 1, n)
    BY <1>7 DEF Lose
  <2>3. /\ Len(chan') = n /\ n <= Len(chan) /\ Len(chan) \in Nat
        /\ \A k \in 1 .. n : chan'[k] = chan[k]
    BY <1>2, <2>2, CutChannel
  <2>4. \A k \in 1 .. Len(chan') : k \in 1 .. Len(chan) /\ chan'[k] = chan[k]
    BY <2>3
  <2>5. Thinner(chan', chan)
    BY <2>4 DEF Thinner, Values, Rising
  <2>6. Outgoing' = Outgoing
    BY <2>1 DEF Outgoing, ItemsOf, Window, At, msgVars, ringVars
  <2>. QED
    BY <1>1, <1>5, <2>1, <2>5, <2>6, ThinnerSame
<1>8. ASSUME NEW x \in 0 .. MaxMsgs, chan' = Append(chan, x), x = 0 \/ x = pos, pos <= srv \/ x = 0,
             phase # "down", pos' = (IF x = 0 THEN pos ELSE pos + 1), pos # 0,
             UNCHANGED <<phase, conns, old, srv, msgVars, echoed, toSend>>
      PROVE  EchoOrder'
  <2>1. Outgoing' = Outgoing
    BY <1>8 DEF Outgoing, ItemsOf, Window, At, msgVars, ringVars
  <2>2. Values(chan') = Values(chan) \cup {x}
    BY <1>2, <1>8, ValuesAppend
  <2>3. Rising(chan')
    <3>1. \A i \in 1 .. Len(chan) : chan[i] \in Values(chan)
      BY DEF Values
    <3>2. x # 0 => \A i \in 1 .. Len(chan) : chan[i] < x
      BY <1>1, <1>8, <3>1
    <3>. QED
      BY <1>1, <1>2, <1>8, <3>2, RisingAppend
  <2>4. \A v \in Values(Outgoing) \cup Values(chan) : v <= srv /\ v < pos'
    BY <1>1, <1>2, <1>3, <1>8
  <2>5. x <= srv /\ x < pos'
    BY <1>2, <1>8
  <2>6. \A v \in Values(Outgoing), y \in Values(chan') : y # 0 => v < y
    BY <1>1, <1>2, <1>3, <1>8, <2>2
  <2>. QED
    BY <1>1, <1>8, <2>1, <2>2, <2>3, <2>4, <2>5, <2>6 DEF EchoOrder
<1>9. CASE Transmit
  <2>1. /\ chan' = Append(chan, pos) /\ pos' = pos + 1 /\ phase # "down" /\ pos <= srv
        /\ UNCHANGED <<phase, conns, old, srv, msgVars, echoed, toSend>>
    BY <1>9 DEF Transmit, replayVars
  <2>2. pos # 0 /\ pos \in 0 .. MaxMsgs
    BY <1>2, <2>1 DEF SessionTypes
  <2>. QED
    BY <1>8, <2>1, <2>2
<1>10. CASE Answer
  <2>1. /\ chan' = Append(chan, 0) /\ phase # "down" /\ pos' = pos
        /\ UNCHANGED <<phase, conns, old, srv, msgVars, echoed, toSend>>
    BY <1>10 DEF Answer, connVars, replayVars
  <2>2. pos # 0 /\ 0 \in 0 .. MaxMsgs
    BY <1>2 DEF SessionTypes
  <2>. QED
    BY <1>8, <2>1, <2>2
<1>11. CASE Connected
  <2>1. /\ chan' = <<>> /\ conns' = conns + 1 /\ UNCHANGED <<old, srv>>
        /\ pos' = (IF conns = 0 THEN 1 ELSE srv + 1) \/ pos' = srv + 1
    BY <1>0, <1>11 DEF Connected
  <2>2. Thinner(Outgoing', Outgoing)
    <3>1. ~Receive /\ ~ReceiveOld
      BY <1>1, <1>11 DEF Connected, Receive, ReceiveOld
    <3>. QED
      BY <1>4, <3>1
  <2>3. Values(Outgoing') \subseteq Values(Outgoing) /\ Rising(Outgoing')
    BY <1>1, <2>2 DEF Thinner
  <2>4. \A x \in Values(Outgoing') : x <= srv /\ x < pos'
    <3>1. CASE conns = 0
      <4>1. Values(Outgoing) = {}
        BY <1>1, <3>1 DEF Values
      <4>. QED
        BY <2>3, <4>1
    <3>2. CASE conns # 0
      BY <1>1, <1>2, <1>3, <2>1, <2>3, <3>2
    <3>. QED
      BY <3>1, <3>2
  <2>5. Values(chan') = {} /\ Rising(chan')
    BY <2>1 DEF Values, Rising
  <2>6. conns' # 0
    BY <1>2, <2>1
  <2>. QED
    BY <1>1, <2>1, <2>3, <2>4, <2>5, <2>6 DEF EchoOrder
<1>12. CASE Receive
  <2>. DEFINE x == Head(chan)
  <2>1. /\ chan # <<>> /\ chan' = Tail(chan) /\ phase = "running"
        /\ UNCHANGED <<phase, pos, conns, old, srv>>
    BY <1>12, Zenon DEF Receive, connVars
  <2>2. /\ x = chan[1] /\ Len(chan) >= 1 /\ Len(chan) \in Nat /\ Len(chan') = Len(chan) - 1
        /\ \A k \in 1 .. Len(chan') : chan'[k] = chan[k + 1]
    BY <1>2, <2>1, HeadOfChannel
  <2>3. x \in Values(chan)
    BY <2>2 DEF Values
  <2>4. Rising(chan') /\ Values(chan') \subseteq Values(chan)
        /\ \A y \in Values(chan') : y # 0 => x < y
    <3>1. Rising(chan') /\ \A i \in 1 .. Len(chan') : chan'[i] # 0 => x < chan'[i]
      BY <1>1, <1>2, <2>1, RisingTail
    <3>2. Values(chan') \subseteq Values(chan)
      BY <2>2 DEF Values
    <3>. QED
      BY <3>1, <3>2 DEF Values
  <2>5. CASE Thinner(Outgoing', Outgoing)
    BY <1>1, <1>5, <2>1, <2>4, <2>5 DEF Thinner
  <2>6. CASE \E o \in Seq(Items), m \in Items :
                Received(m) /\ Thinner(o, Outgoing) /\ Outgoing' = Append(o, m)
    <3>1. PICK o \in Seq(Items), m \in Items :
                  Received(m) /\ Thinner(o, Outgoing) /\ Outgoing' = Append(o, m)
      BY <2>6
    <3>2. m = x /\ m # 0
      <4>1. ~ReceiveOld
        BY <1>1 DEF ReceiveOld
      <4>. QED
        BY <3>1, <4>1, NumbersOfMessages DEF Received
    <3>. HIDE DEF x
    <3>3. Values(o) \subseteq Values(Outgoing) /\ Rising(o)
      BY <1>1, <3>1 DEF Thinner
    <3>4. Values(Outgoing') = Values(o) \cup {m}
      BY <3>1, ValuesAppend
    <3>5. \A v \in Values(o) : v < m
      BY <1>1, <2>3, <3>2, <3>3
    <3>6. Rising(Outgoing')
      <4>1. o \in Seq(Nat) /\ m \in Nat
        BY NumbersOfMessages
      <4>2. \A i \in 1 .. Len(o) : o[i] < m
        BY <3>5 DEF Values
      <4>. QED
        BY <3>1, <3>3, <4>1, <4>2, RisingAppend
    <3>7. \A v \in Values(Outgoing') \cup Values(chan') : v <= srv /\ v < pos
      BY <1>1, <2>1, <2>3, <2>4, <3>2, <3>3, <3>4
    <3>8. \A v \in Values(Outgoing'), y \in Values(chan') : y # 0 => v < y
      BY <1>1, <2>4, <3>2, <3>3, <3>4
    <3>9. conns' # 0
      BY <1>2, <2>1 DEF Core, Started
    <3>. QED
      BY <1>1, <2>1, <2>4, <3>6, <3>7, <3>8, <3>9 DEF EchoOrder
  <2>. QED
    BY <1>4, <2>5, <2>6
<1>13. ~ReceiveOld
  BY <1>1 DEF ReceiveOld
<1>14. ~AskReplay
  BY <1>0 DEF AskReplay, ToBeAsked
<1>15. ~HeartbeatTimesOut
  BY DEF HeartbeatTimesOut
<1>. QED
  BY <1>6, <1>7, <1>9, <1>10, <1>11, <1>12, <1>13, <1>14, <1>15 DEF SessionNext

\* What full_buffer sends back over all reconnections was given to the
\* application; as long as the heartbeat has given up no connection that works,
\* each message is sent back once at most and in order.
THEOREM EchoTheorem == SessionSpec => []EchoedOnce
<1>1. EchoTypes /\ EchoOrder /\ UNCHANGED vars => EchoTypes' /\ EchoOrder'
  <2>1. ASSUME UNCHANGED vars
        PROVE  UNCHANGED <<chan, old, phase, pos, srv, conns, mode, orphaned, echoed, toSend,
                           Given, Outgoing>>
    BY <2>1 DEF vars, connVars, appVars, replayVars, msgVars, ringVars, Application, Given,
                Outgoing, ItemsOf, Window, At
  <2>. QED
    BY <2>1 DEF EchoTypes, EchoOrder
<1>2. Core /\ EchoTypes /\ EchoOrder /\ [SessionNext]_vars => EchoTypes' /\ EchoOrder'
  BY <1>1, EchoTypesStep, EchoOrderStep
<1>3. Core /\ EchoTypes /\ EchoOrder => EchoedOnce
  <2>. SUFFICES ASSUME Core, EchoTypes, EchoOrder
                PROVE  EchoedOnce
    OBVIOUS
  <2>1. /\ Application \in Seq(Items) /\ echoed \in Seq(Items) /\ Items \subseteq Nat
        /\ 0 \notin Items /\ toSend \o ItemsOf(Window) \in Seq(Items)
    <3>1. Application \in Seq(Items) /\ ItemsOf(Window) \in Seq(Items)
      BY ApplicationType, WindowIsSeq, MessagesOfWindow DEF Core, MsgInv
    <3>. QED
      BY <3>1, NumbersOfMessages DEF EchoTypes
  <2>. DEFINE r == toSend \o ItemsOf(Window)
  <2>. HIDE DEF r
  <2>2. /\ Outgoing = echoed \o r /\ r \in Seq(Items)
    BY <2>1 DEF Outgoing, r
  <2>3. /\ Len(echoed) \in Nat
        /\ \A i \in 1 .. Len(echoed) : i \in 1 .. Len(Outgoing) /\ Outgoing[i] = echoed[i]
    BY <2>1, <2>2
  <2>4. Values(Outgoing) \subseteq Given /\ Given = ToSet(Application)
    <3>1. DOMAIN Application = 1 .. Len(Application)
      BY <2>1
    <3>2. Given = ToSet(Application)
      BY <3>1 DEF Given, ToSet
    <3>. QED
      BY <3>2 DEF EchoTypes
  <2>5. ToSet(echoed) \subseteq ToSet(Application)
    <3>1. ToSet(echoed) = {echoed[i] : i \in 1 .. Len(echoed)}
      BY <2>1 DEF ToSet
    <3>. QED
      BY <2>3, <2>4, <3>1 DEF Values
  <2>6. ~orphaned => Increasing(echoed)
    <3>1. CASE mode # "full_buffer"
      BY <3>1 DEF EchoTypes, Increasing
    <3>2. CASE mode = "full_buffer"
      <4>1. ~orphaned => Rising(Outgoing)
        BY <3>2 DEF EchoOrder
      <4>2. DOMAIN echoed = 1 .. Len(echoed) /\ \A i \in 1 .. Len(echoed) : echoed[i] # 0
        BY <2>1
      <4>. QED
        BY <2>3, <4>1, <4>2 DEF Rising, Increasing
    <3>. QED
      BY <3>1, <3>2
  <2>. QED
    BY <2>5, <2>6 DEF EchoedOnce
<1>. QED
  BY <1>2, <1>3, CoreInit, CoreStep, EchoInit, PTL DEF SessionSpec
=============================================================================
