---------------------------- MODULE MCExecution -----------------------------
(***************************************************************************)
(* Instances of Execution for TLC.  Stdout, whose tail is captured, gets   *)
(* more chunks than the capture holds.                                     *)
(***************************************************************************)
EXTENDS ExecutionProps

MoreStdout == [o \in Outs |-> IF o = "stdout" THEN 3 ELSE 1]
=============================================================================
