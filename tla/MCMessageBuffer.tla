-------------------------- MODULE MCMessageBuffer ---------------------------
(***************************************************************************)
(* The message buffer for TLC: four slots, a window of two ids and three   *)
(* ids, so that an id leaves the window and comes again while its first    *)
(* message is still buffered.                                              *)
(***************************************************************************)
EXTENDS MessageBuffer

CONSTANT m1

MCItems == {m1}
=============================================================================
