----------------------------- MODULE RingBuffer -----------------------------
(***************************************************************************)
(* RingBuffer of _core.pyx, and its twin _PythonRingBuffer of buffer.py: a *)
(* circular array with a head and a tail index, a length and a counter of  *)
(* dropped messages.  Every method is one step: nothing in it suspends.    *)
(***************************************************************************)
EXTENDS Integers, Sequences, Filters

CONSTANTS Capacity,   \* _capacity
          Items,      \* the messages callers push; None is a legal message
          SeqIds,     \* sequence ids
          None,       \* Python's None: an empty slot, "no sequence id", ...
          MaxDropped  \* bound of _total_dropped (a Python int never wraps)

Policies == {"drop_oldest", "drop_newest", "error"}
Slots == [item : Items, seq : SeqIds \cup {None}]

\* __init__ raises ValueError unless the capacity is positive; a tuple is not None.
ASSUME CapacityAssumption == Capacity \in Nat \ {0}
ASSUME MaxDroppedAssumption == MaxDropped \in Nat
ASSUME NoneAssumption == None \notin Slots

VARIABLES buf, head, tail, len, policy, total_dropped,
          result  \* what the last call returned or raised

ringVars == <<buf, head, tail, len, policy, total_dropped, result>>

Result(kind, items) == [kind |-> kind, items |-> items]

ItemsOf(s) == [i \in DOMAIN s |-> s[i].item]

Present == Items \ {None}

Index == 0 .. Capacity - 1

\* Mutant of Succ: the index wraps one slot late.
SuccLate(i) == IF i = Capacity THEN 0 ELSE i + 1

\* The next index of the circle, and the slot k places after the head.
Succ(i) == (i + 1) % Capacity
At(k) == (head + k) % Capacity

\* The buffered pairs, oldest first.
Window == [i \in 1 .. len |-> buf[At(i - 1)]]

RingInit == /\ buf = [i \in Index |-> None]
            /\ head = 0
            /\ tail = 0
            /\ len = 0
            /\ policy \in Policies
            /\ total_dropped = 0
            /\ result = Result("none", <<>>)
-----------------------------------------------------------------------------
IsFull == len = Capacity

Store(slot) == /\ buf' = [buf EXCEPT ![tail] = slot]
               /\ tail' = Succ(tail)
               /\ result' = Result("added", <<>>)
               /\ UNCHANGED policy

PushStored(slot) == /\ ~IsFull
                    /\ Store(slot)
                    /\ len' = len + 1
                    /\ UNCHANGED <<head, total_dropped>>

\* Mutant of PushOverwrites: the head stays where it is.
PushOverwritesKeepsHead(slot) == /\ IsFull
                                 /\ policy = "drop_oldest"
                                 /\ total_dropped < MaxDropped
                                 /\ total_dropped' = total_dropped + 1
                                 /\ Store(slot)
                                 /\ UNCHANGED <<head, len>>

\* The oldest slot is not cleared: the head moves on, the new pair overwrites it.
PushOverwrites(slot) == /\ IsFull
                        /\ policy = "drop_oldest"
                        /\ total_dropped < MaxDropped
                        /\ head' = Succ(head)
                        /\ total_dropped' = total_dropped + 1
                        /\ Store(slot)
                        /\ UNCHANGED len

PushRefused == /\ IsFull
               /\ policy = "drop_newest"
               /\ total_dropped < MaxDropped
               /\ total_dropped' = total_dropped + 1
               /\ result' = Result("dropped", <<>>)
               /\ UNCHANGED <<buf, head, tail, len, policy>>

PushRaises == /\ IsFull
              /\ policy = "error"
              /\ result' = Result("overflow", <<>>)
              /\ UNCHANGED <<buf, head, tail, len, policy, total_dropped>>

RingPush(slot) == \/ PushStored(slot)
                  \/ PushOverwrites(slot)
                  \/ PushRefused
                  \/ PushRaises

EmptyCall(op) == /\ len = 0
                 /\ result' = Result(op, <<None>>)
                 /\ UNCHANGED <<buf, head, tail, len, policy, total_dropped>>

\* Mutant of RingPop: the slot handed out is not cleared.
RingPopKeepsSlot == \/ EmptyCall("pop")
                    \/ /\ len > 0
                       /\ result' = Result("pop", <<buf[head].item>>)
                       /\ head' = Succ(head)
                       /\ len' = len - 1
                       /\ UNCHANGED <<buf, tail, policy, total_dropped>>

RingPop == \/ EmptyCall("pop")
           \/ /\ len > 0
              /\ result' = Result("pop", <<buf[head].item>>)
              /\ buf' = [buf EXCEPT ![head] = None]
              /\ head' = Succ(head)
              /\ len' = len - 1
              /\ UNCHANGED <<tail, policy, total_dropped>>

RingPeek == \/ EmptyCall("peek")
            \/ /\ len > 0
               /\ result' = Result("peek", <<buf[head].item>>)
               /\ UNCHANGED <<buf, head, tail, len, policy, total_dropped>>

\* What the two draining loops leave behind: every slot they visit is cleared.
Emptied == /\ buf' = [i \in Index |->
                        IF \E k \in 0 .. len - 1 : i = At(k) THEN None ELSE buf[i]]
           /\ head' = At(len)
           /\ len' = 0
           /\ UNCHANGED <<tail, policy, total_dropped>>

\* drain() leaves out the messages that are None; drain_with_sequences() does not.
RingDrain == /\ result' = Result("drain", Filter(ItemsOf(Window), Present))
             /\ Emptied

RingDrainWithSequences == /\ result' = Result("pairs", Window)
                          /\ Emptied

RingClear == /\ buf' = [i \in Index |-> None]
             /\ head' = 0
             /\ tail' = 0
             /\ len' = 0
             /\ result' = Result("clear", <<>>)
             /\ UNCHANGED <<policy, total_dropped>>

ResetDroppedCounter == /\ total_dropped' = 0
                       /\ result' = Result("reset", <<>>)
                       /\ UNCHANGED <<buf, head, tail, len, policy>>

RingNext == \/ \E slot \in Slots : RingPush(slot)
            \/ RingPop
            \/ RingPeek
            \/ RingDrain
            \/ RingDrainWithSequences
            \/ RingClear
            \/ ResetDroppedCounter

RingSpec == RingInit /\ [][RingNext]_ringVars
-----------------------------------------------------------------------------
\* Type correctness of the fields of RingBuffer.
RingTypeOK == /\ buf \in [Index -> Slots \cup {None}]
              /\ head \in Index
              /\ tail \in Index
              /\ len \in 0 .. Capacity
              /\ policy \in Policies
              /\ total_dropped \in 0 .. MaxDropped

\* The two indices and the length agree, and a slot is occupied exactly when
\* it lies in the window they delimit: no message survives outside it (a leak
\* that keeps a message alive), and no empty slot is handed out as a message.
WindowInv == /\ tail = At(len)
             /\ \A k \in 0 .. Capacity - 1 : buf[At(k)] # None <=> k < len

\* The abstract queue this buffer implements.
Queue == INSTANCE BoundedQueue WITH q <- Window, dropped <- total_dropped

\* The circular buffer behaves as a bounded FIFO queue: every call returns
\* what the queue would return and leaves the contents the queue would hold.
RefinesQueue == Queue!Spec
=============================================================================
