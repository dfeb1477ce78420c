---------------------------- MODULE MCRingBuffer ----------------------------
(***************************************************************************)
(* RingBuffer for TLC: two writers whose calls are longer than the buffer, *)
(* and two readers.                                                        *)
(***************************************************************************)
EXTENDS RingBufferProps
=============================================================================
