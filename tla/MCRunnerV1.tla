---------------------------- MODULE MCRunnerV1 -----------------------------
(***************************************************************************)
(* A process with three chunks of standard output and one of standard error,*)
(* ring buffers of one chunk.                                              *)
(***************************************************************************)
EXTENDS RunnerV1Props

MCChunks == [stdout |-> 3, stderr |-> 1]
=============================================================================
