------------------------------ MODULE FifoRelay -----------------------------
(***************************************************************************)
(* What a chain of channels, buffers and goroutines promises: what comes   *)
(* out is what went in, in that order, each item once.  Items may stay     *)
(* inside for ever; several may come out at a time.                        *)
(***************************************************************************)
EXTENDS SequencesExt

VARIABLES inp,  \* every item accepted so far
          out   \* every item given out so far

relayVars == <<inp, out>>

RelayInit == inp = <<>> /\ out = <<>>

Accept == IsStrictPrefix(inp, inp') /\ UNCHANGED out

Deliver == /\ IsStrictPrefix(out, out') /\ IsPrefix(out', inp)
           /\ UNCHANGED inp

RelaySpec == RelayInit /\ [][Accept \/ Deliver]_relayVars
=============================================================================
