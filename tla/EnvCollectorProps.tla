------------------------- MODULE EnvCollectorProps --------------------------
(***************************************************************************)
(* Correctness of the collection of environments specified in EnvCollector. *)
(***************************************************************************)
EXTENDS EnvCollector, FiniteSets

Items == {<<"sentinel">>} \cup UNION {ToSet(e) : e \in Before \cup After}

\* The variables have their types; a FIFO has a writer only while it has a reader, or
\* after the reader met one, and what was read ends with the sentinel if it has one.
CollectorTypeOK ==
  /\ encrypted \in BOOLEAN /\ noDevice \in BOOLEAN /\ byte \in {"nul", "=", "other"}
  /\ shell \in {"start", "pre", "script", "post", "ended"} /\ opened \subseteq Pipes
  /\ fifo \in [Pipes -> Seq(Items)] /\ got \in [Pipes -> Seq(Items)]
  /\ dump \in [Pipes -> Seq(Items)]
  /\ writers \in [Pipes -> SUBSET {"shell", "sentinel"}]
  /\ reader \in [Pipes -> {"new", "open", "read", "closed", "done"}]
  /\ ensure \in [Pipes -> {"idle", "select", "fired", "write", "done", "error"}]
  /\ diff \in {"before", "ensure", "join", "ok", "failed"}
  /\ \A p \in Pipes : \A i \in 1..Len(got[p]) : IsByte(got[p][i]) => i = Len(got[p])

\* Both dumps were written to their ends: nothing is left to write and the shell closed
\* its FIFOs.
Complete == dump["pre"] = <<>> /\ dump["post"] = <<>>

\* The difference of the two environments as the shell had them: a variable that is new or
\* has a new value, and one that is gone.
Exact == [changed |-> ToSet(Entries("post")) \ ToSet(Entries("pre")),
          deleted |-> {e[1] : e \in ToSet(Entries("pre"))}
                        \ {e[1] : e \in ToSet(Entries("post"))}]

\* A Diff that succeeds on complete dumps is exact, although sentinels may have been
\* written to FIFOs whose readers were only slow (Diff, ensureReaderDone), unless the
\* dumps are encrypted, where such a sentinel spoils the last variable.
ExactDiff ==
  (diff = "ok" /\ Complete /\ ~encrypted)
    => /\ result = Exact
       /\ \A p \in Pipes : fifo[p] = <<>>

CollectorInv == CollectorTypeOK /\ ExactDiff

\* An environment that the shell never began to dump is noticed, whatever sentinels took
\* the place of its dump: Diff fails and the session keeps its environment
\* (Test_envCollectorFifo_WithoutWriter), without encryption. A dump that was begun passes
\* wherever it was cut off, even before its first entry, and what is left out counts as
\* deleted: that Diff succeeds only on Complete dumps does not hold.
UnopenedIsRefused == (diff = "ok" /\ ~encrypted) => opened = Pipes

\* Complete dumps are not refused for a sentinel that came late or early where
\* writeSentinel recognizes the error of opening (macOS), if no value of a first variable
\* has a = in it, whether its own or that of a sentinel behind it (readData).
CompleteIsAccepted ==
  (diff = "failed" /\ Complete /\ noDevice)
    => \E p \in Pipes : /\ Entries(p) # <<>>
                        /\ \/ Entries(p)[1][2] \in HasEquals
                           \/ Len(Entries(p)) = 1 /\ byte = "="

\* Diff returns whatever was written to the FIFOs.
DiffReturns == (diff = "ensure") ~> (diff \in {"ok", "failed"})
=============================================================================
