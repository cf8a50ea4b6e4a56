---------------------------- MODULE MCRingBuffer ----------------------------
(***************************************************************************)
(* The ring buffer for TLC: three slots, so that the window wraps with     *)
(* slots on both sides of the wrap, and None among the messages.           *)
(***************************************************************************)
EXTENDS RingBuffer

CONSTANTS m1, s1

MCItems == {m1, None}
MCSeqIds == {s1}
=============================================================================
