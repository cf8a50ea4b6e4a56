--------------------------- MODULE MessageBuffer ----------------------------
(***************************************************************************)
(* MessageBuffer of buffer.py: a RingBuffer with the id of the last        *)
(* message tracked (what a replay starts from) and a window of recently    *)
(* seen ids, oldest first, that refuses duplicates.                        *)
(***************************************************************************)
EXTENDS RingBuffer, SequencesExt

CONSTANTS DedupWindow  \* dedup_window

ASSUME DedupWindowAssumption == DedupWindow \in Nat \ {0}
ASSUME NoIdAssumption == None \notin SeqIds

VARIABLES enable_dedup,      \* set once, by the configuration
          last_sequence_id,
          seen,              \* the keys of _seen_sequences, in order
          stale              \* history: ids of buffered messages were forgotten

msgVars == <<ringVars, enable_dedup, last_sequence_id, seen, stale>>

MsgInit == /\ RingInit
           /\ enable_dedup \in BOOLEAN
           /\ last_sequence_id = None
           /\ seen = <<>>
           /\ stale = FALSE
-----------------------------------------------------------------------------
IsDuplicate(id) == id \in ToSet(seen)

\* Mutant of Track: one id too many is forgotten.
TrackForgetsOneMore(id) ==
    LET s == Append(Filter(seen, SeqIds \ {id}), id)
    IN  seen' = SubSeq(s, Max({1, Len(s) - DedupWindow + 2}), Len(s))

Track(id) ==
    LET s == Append(Filter(seen, SeqIds \ {id}), id)
    IN  seen' = SubSeq(s, Max({1, Len(s) - DedupWindow + 1}), Len(s))

\* History: what this step did to the messages the buffer holds.
Remember == stale' = (stale /\ len' > 0)

\* A push without a sequence id goes straight to the ring buffer.
PushUnnumbered(item) == /\ RingPush([item |-> item, seq |-> None])
                        /\ Remember
                        /\ UNCHANGED <<enable_dedup, last_sequence_id, seen>>

PushDuplicate(id) == /\ enable_dedup
                     /\ IsDuplicate(id)
                     /\ result' = Result("duplicate", <<>>)
                     /\ UNCHANGED <<buf, head, tail, len, policy, total_dropped>>
                     /\ UNCHANGED <<enable_dedup, last_sequence_id, seen, stale>>

\* Mutant of PushNumbered: the last id is only remembered with deduplication.
PushNumberedForgetsLast(item, id) ==
    /\ ~(enable_dedup /\ IsDuplicate(id))
    /\ RingPush([item |-> item, seq |-> id])
    /\ last_sequence_id' = IF enable_dedup THEN id ELSE last_sequence_id
    /\ IF enable_dedup THEN Track(id) ELSE UNCHANGED seen
    /\ Remember
    /\ UNCHANGED enable_dedup

\* Mutant of PushNumbered: the id is remembered if the message was stored.
PushNumberedIfStored(item, id) ==
    /\ ~(enable_dedup /\ IsDuplicate(id))
    /\ RingPush([item |-> item, seq |-> id])
    /\ last_sequence_id' = IF result'.kind = "added" THEN id ELSE last_sequence_id
    /\ IF enable_dedup THEN Track(id) ELSE UNCHANGED seen
    /\ Remember
    /\ UNCHANGED enable_dedup

\* The id is tracked before the ring buffer decides whether to take the message.
PushNumbered(item, id) ==
    /\ ~(enable_dedup /\ IsDuplicate(id))
    /\ RingPush([item |-> item, seq |-> id])
    /\ last_sequence_id' = id
    /\ IF enable_dedup THEN Track(id) ELSE UNCHANGED seen
    /\ Remember
    /\ UNCHANGED enable_dedup

MsgPush(item, id) == PushDuplicate(id) \/ PushNumbered(item, id)

\* pop(), drain() and drain_with_sequences() leave the tracked ids alone.
MsgTake == /\ RingPop \/ RingDrain \/ RingDrainWithSequences
           /\ Remember
           /\ UNCHANGED <<enable_dedup, last_sequence_id, seen>>

\* Mutant of MsgClear: the last id is forgotten with the messages.
MsgClearAndLast == /\ RingClear
                   /\ Remember
                   /\ last_sequence_id' = None
                   /\ UNCHANGED <<enable_dedup, seen>>

MsgClear == /\ RingClear
            /\ Remember
            /\ UNCHANGED <<enable_dedup, last_sequence_id, seen>>

ClearDedup == /\ seen' = <<>>
              /\ stale' = (len > 0)
              /\ UNCHANGED <<ringVars, enable_dedup, last_sequence_id>>

Reset == /\ RingClear
         /\ seen' = <<>>
         /\ last_sequence_id' = None
         /\ stale' = FALSE
         /\ UNCHANGED <<enable_dedup>>

MsgNext == \/ \E item \in Items : PushUnnumbered(item)
           \/ \E item \in Items, id \in SeqIds : MsgPush(item, id)
           \/ MsgTake
           \/ MsgClear
           \/ ClearDedup
           \/ Reset

MsgSpec == MsgInit /\ [][MsgNext]_msgVars
-----------------------------------------------------------------------------
\* A server asked to replay from last_sequence_id may send that message again:
\* it is refused, because the id a replay starts from is the last one in the
\* window of seen ids, whatever was popped, drained or cleared meanwhile.
BoundaryIsRefused == enable_dedup /\ seen # <<>> => Last(seen) = last_sequence_id

\* With drop_oldest and deduplication, two buffered messages with one id are
\* at least DedupWindow numbered messages apart (so there are none when the
\* window is as long as the buffer), unless clear_dedup() forgot ids of
\* messages that are still there.
DuplicatesFarApart ==
    policy = "drop_oldest" /\ enable_dedup /\ ~stale =>
        \A i, j \in 1 .. len :
            i < j /\ Window[i].seq = Window[j].seq /\ Window[i].seq # None =>
                Cardinality({k \in i + 1 .. j - 1 : Window[k].seq # None}) >= DedupWindow

\* With drop_oldest, the id a replay starts from is that of the newest
\* numbered message in the buffer.
LastIdIsNewest ==
    policy = "drop_oldest" =>
        \A i \in 1 .. len :
            Window[i].seq # None =>
                \/ Window[i].seq = last_sequence_id
                \/ \E j \in i + 1 .. len : Window[j].seq # None
=============================================================================
