---------------------------- MODULE BoundedQueue ----------------------------
(***************************************************************************)
(* What a message buffer promises its callers: a first-in first-out queue  *)
(* of at most Capacity (item, sequence id) pairs, which on overflow either *)
(* forgets its oldest pair, refuses the new one, or raises, as its policy  *)
(* says.  RingBuffer implements it with an array and two indices.          *)
(***************************************************************************)
EXTENDS Naturals, Sequences, Filters

CONSTANTS Capacity,   \* the most pairs the queue holds
          Slots,      \* the (item, sequence id) pairs callers push
          None,       \* Python's None
          Policies,   \* the overflow policies
          MaxDropped  \* bound of the dropped counter

VARIABLES q, policy, dropped, result

vars == <<q, policy, dropped, result>>

Result(kind, items) == [kind |-> kind, items |-> items]

ItemsOf(s) == [i \in DOMAIN s |-> s[i].item]

Present == {slot.item : slot \in Slots} \ {None}

Init == /\ q = <<>>
        /\ policy \in Policies
        /\ dropped = 0
        /\ result = Result("none", <<>>)

Accept(slot) == /\ Len(q) < Capacity
                /\ q' = Append(q, slot)
                /\ result' = Result("added", <<>>)
                /\ UNCHANGED <<policy, dropped>>

ReplaceOldest(slot) == /\ Len(q) = Capacity
                       /\ policy = "drop_oldest"
                       /\ dropped < MaxDropped
                       /\ q' = Append(Tail(q), slot)
                       /\ dropped' = dropped + 1
                       /\ result' = Result("added", <<>>)
                       /\ UNCHANGED policy

RefuseNewest == /\ Len(q) = Capacity
                /\ policy = "drop_newest"
                /\ dropped < MaxDropped
                /\ dropped' = dropped + 1
                /\ result' = Result("dropped", <<>>)
                /\ UNCHANGED <<q, policy>>

Overflow == /\ Len(q) = Capacity
            /\ policy = "error"
            /\ result' = Result("overflow", <<>>)
            /\ UNCHANGED <<q, policy, dropped>>

Take == /\ q # <<>>
        /\ q' = Tail(q)
        /\ result' = Result("pop", <<Head(q).item>>)
        /\ UNCHANGED <<policy, dropped>>

Look == /\ q # <<>>
        /\ result' = Result("peek", <<Head(q).item>>)
        /\ UNCHANGED <<q, policy, dropped>>

NothingThere == /\ q = <<>>
                /\ \E op \in {"pop", "peek"} : result' = Result(op, <<None>>)
                /\ UNCHANGED <<q, policy, dropped>>

TakeAll == /\ q' = <<>>
           /\ result' = Result("drain", Filter(ItemsOf(q), Present))
           /\ UNCHANGED <<policy, dropped>>

TakeAllPairs == /\ q' = <<>>
                /\ result' = Result("pairs", q)
                /\ UNCHANGED <<policy, dropped>>

Forget == /\ q' = <<>>
          /\ result' = Result("clear", <<>>)
          /\ UNCHANGED <<policy, dropped>>

ForgetDropped == /\ dropped' = 0
                 /\ result' = Result("reset", <<>>)
                 /\ UNCHANGED <<q, policy>>

Next == \/ \E slot \in Slots : Accept(slot) \/ ReplaceOldest(slot)
        \/ RefuseNewest
        \/ Overflow
        \/ Take
        \/ Look
        \/ NothingThere
        \/ TakeAll
        \/ TakeAllPairs
        \/ Forget
        \/ ForgetDropped

Spec == Init /\ [][Next]_vars
=============================================================================
