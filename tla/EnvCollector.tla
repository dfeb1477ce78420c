---------------------------- MODULE EnvCollector ----------------------------
(***************************************************************************)
(* command/env_collector_fifo_unix.go: how the environment of a shell is   *)
(* brought back.  The shell dumps it into one FIFO before its script and,  *)
(* in a trap, into another after it (env_shell.go); two goroutines read    *)
(* them.  A shell that is killed leaves a dump out, or cuts it off; so that *)
(* no reader waits for ever Diff writes a sentinel to a FIFO whose reader  *)
(* is not done after 100 ms.  The shell has ended when Diff is called      *)
(* (command_inline_shell.go, Wait), and its dumps with it.                 *)
(*                                                                         *)
(* A dump is a sequence of entries, a name and a value each, that are      *)
(* written one at a time.  The sentinel is one byte; through the           *)
(* decryption it may come out as any other.                                *)
(***************************************************************************)
EXTENDS Integers, SequencesExt

CONSTANTS Before,    \* environments at the start of a script: sequences of <<name, value>>
          After,     \* environments at its end
          HasEquals, \* values that contain the character =
          Absent

\* The names in a dump are distinct, and no value looks like a spoiled one.
ASSUME CollectorConstants ==
  /\ \A e \in Before \cup After :
       /\ e \in Seq(ToSet(e)) \ {<<>>}
       /\ \A i \in DOMAIN e : /\ e[i] = <<e[i][1], e[i][2]>>
                             /\ e[i][2] \notin {Absent, "spoiled", "spoiled="}
       /\ \A i, j \in DOMAIN e : e[i][1] = e[j][1] => i = j
  /\ "spoiled" \notin HasEquals

Pipes == {"pre", "post"}

VARIABLES encrypted,  \* EnvCollectorFactory.encryptionEnabled
          byte,       \* what the sentinel is after decryption: "nul", "=" or "other"
          noDevice,   \* the text of ENXIO is the one writeSentinel looks for (macOS)
          shell,      \* where the shell is
          dump,       \* what it has to write in each of its dumps
          fifo,       \* entries in the FIFO, not read yet
          writers,    \* who has the FIFO open for writing
          reader,     \* "new", "open" (in open(2)), "read", "closed", "done"
          got,        \* what its scanner has read
          ensure,     \* ensureReaderDone of each FIFO
          diff,       \* "before", "ensure", "join", "ok", "failed"
          result,     \* changed and deleted variables
          opened      \* history: the FIFOs the shell has begun to dump into

config == <<encrypted, byte, noDevice>>
collectorVars == <<config, shell, opened, dump, fifo, writers, reader, got, ensure, diff,
                   result>>

CollectorInit ==
  /\ encrypted \in BOOLEAN /\ noDevice \in BOOLEAN
  /\ byte \in IF encrypted THEN {"nul", "=", "other"} ELSE {"nul"}
  /\ shell = "start" /\ opened = {}
  /\ \E b \in Before, a \in After : dump = [pre |-> b, post |-> a]
  /\ fifo = [p \in Pipes |-> <<>>] /\ got = [p \in Pipes |-> <<>>]
  /\ writers = [p \in Pipes |-> {}]
  /\ reader = [p \in Pipes |-> "new"]
  /\ ensure = [p \in Pipes |-> "idle"]
  /\ diff = "before" /\ result = Absent

-----------------------------------------------------------------------------
(* The shell: dump, script, dump.                                          *)

Dumping == [start |-> "pre", script |-> "post"]

\* The kernel: opening a FIFO for writing waits for a reader, one that waits for a
\* writer counts, and that reader gets on even if the writer closes again at once.
HasReader(p) == reader[p] \in {"open", "read"}
OpenForWriting(p, who) == /\ HasReader(p)
                          /\ writers' = [writers EXCEPT ![p] = @ \cup {who}]
                          /\ reader' = [reader EXCEPT ![p] = "read"]

ShellOpens(p) == /\ shell \in DOMAIN Dumping /\ p = Dumping[shell]
                 /\ OpenForWriting(p, "shell")
                 /\ shell' = p /\ opened' = opened \cup {p}
                 /\ UNCHANGED <<config, dump, fifo, got, ensure, diff, result>>

ShellWrites(p) == /\ shell = p /\ "shell" \in writers[p]
                  /\ dump[p] # <<>>
                  /\ fifo' = [fifo EXCEPT ![p] = Append(@, Head(dump[p]))]
                  /\ dump' = [dump EXCEPT ![p] = Tail(@)]
                  /\ UNCHANGED <<config, shell, opened, writers, reader, got, ensure, diff, result>>

ShellCloses(p) == /\ shell = p /\ dump[p] = <<>>
                  /\ writers' = [writers EXCEPT ![p] = @ \ {"shell"}]
                  /\ shell' = IF p = "pre" THEN "script" ELSE "ended"
                  /\ UNCHANGED <<config, opened, dump, fifo, reader, got, ensure, diff, result>>

\* A signal to its process group, at any time.
ShellIsKilled == /\ shell # "ended"
                 /\ shell' = "ended"
                 /\ writers' = [p \in Pipes |-> writers[p] \ {"shell"}]
                 /\ UNCHANGED <<config, opened, dump, fifo, reader, got, ensure, diff, result>>

-----------------------------------------------------------------------------
(* The readers.                                                            *)

\* os.OpenFile for reading waits until somebody opens the FIFO for writing.
ReaderOpens(p) == /\ reader[p] = "new" /\ diff \notin {"ok", "failed"}
                  /\ reader' = [reader EXCEPT ![p] = "open"]
                  /\ UNCHANGED <<config, shell, opened, dump, fifo, writers, got, ensure, diff,
                                  result>>

Reads(p) == /\ reader[p] = "read" /\ fifo[p] # <<>>
            /\ got' = [got EXCEPT ![p] = @ \o fifo[p]]
            /\ fifo' = [fifo EXCEPT ![p] = <<>>]
            /\ UNCHANGED <<config, shell, opened, dump, writers, reader, ensure, diff, result>>

ReaderEOF(p) == /\ reader[p] = "read" /\ fifo[p] = <<>> /\ writers[p] = {}
                /\ reader' = [reader EXCEPT ![p] = "closed"]
                /\ UNCHANGED <<config, shell, opened, dump, fifo, writers, got, ensure, diff,
                                result>>

ReaderDone(p) == /\ reader[p] = "closed"
                 /\ reader' = [reader EXCEPT ![p] = "done"]
                 /\ UNCHANGED <<config, shell, opened, dump, fifo, writers, got, ensure, diff,
                                 result>>

-----------------------------------------------------------------------------
(* Diff.                                                                   *)

DiffCall == /\ diff = "before" /\ shell = "ended"
            /\ diff' = "ensure"
            /\ ensure' = [p \in Pipes |-> "select"]
            /\ UNCHANGED <<config, shell, opened, dump, fifo, writers, reader, got, result>>

Ensure(p, from, to) == /\ ensure[p] = from
                       /\ ensure' = [ensure EXCEPT ![p] = to]
                       /\ UNCHANGED <<config, shell, opened, dump, got, diff, result>>

EnsureSeesDone(p) == /\ reader[p] = "done"
                     /\ Ensure(p, "select", "done")
                     /\ UNCHANGED <<fifo, writers, reader>>

Tick(p) == /\ reader[p] # "done"
           /\ Ensure(p, "select", "fired")
           /\ UNCHANGED <<fifo, writers, reader>>

SentinelOpens(p) == /\ OpenForWriting(p, "sentinel")
                    /\ Ensure(p, "fired", "write")
                    /\ UNCHANGED fifo

\* Mutant: a FIFO without a reader is an error on every platform.
SentinelGivesUp(p) == /\ ~HasReader(p)
                      /\ Ensure(p, "fired", "error")
                      /\ UNCHANGED <<fifo, writers, reader>>
\* ENXIO: nobody has the FIFO open for reading, not yet or no more.
SentinelFails(p) == /\ ~HasReader(p)
                    /\ Ensure(p, "fired", IF noDevice THEN "select" ELSE "error")
                    /\ UNCHANGED <<fifo, writers, reader>>

\* Mutant: writeSentinel leaves its file open.
SentinelStaysOpen(p) ==
  /\ Ensure(p, "write", "done")
  /\ fifo' = [fifo EXCEPT ![p] = Append(@, <<"sentinel">>)]
  /\ UNCHANGED <<writers, reader>>
SentinelWrites(p) ==
  /\ Ensure(p, "write", "done")
  /\ fifo' = [fifo EXCEPT ![p] = Append(@, <<"sentinel">>)]
  /\ writers' = [writers EXCEPT ![p] = @ \ {"sentinel"}]
  /\ UNCHANGED reader

\* g.Wait: both calls of ensureReaderDone have returned.
Ensured == /\ diff = "ensure"
           /\ \A p \in Pipes : ensure[p] \in {"done", "error"}
           /\ diff' = IF \E p \in Pipes : ensure[p] = "error" THEN "failed" ELSE "join"
           /\ UNCHANGED <<config, shell, opened, dump, fifo, writers, reader, got, ensure, result>>

-----------------------------------------------------------------------------
(* What the readers make of what they read: scanEnv, splitNull, readData.  *)

IsByte(i) == Len(i) = 1
Entries(p) == IF got[p] # <<>> /\ IsByte(Last(got[p])) THEN Front(got[p]) ELSE got[p]

\* A sentinel behind an entry is its terminator if it is a NUL, and otherwise a part of
\* its value; alone it is an entry of its own.
Spoiled == IF byte = "=" THEN "spoiled=" ELSE "spoiled"
ScanEnv(p) ==
  LET e == Entries(p) IN
    IF got[p] = <<>> \/ ~IsByte(Last(got[p])) THEN e
    ELSE IF e = <<>> THEN <<<<"", "">>>>
    ELSE IF byte = "nul" THEN e
    ELSE Front(e) \o <<<<Last(e)[1], Spoiled>>>>

\* readData refuses a first entry that is not a name and a value divided by one =.
\* Mutant: a lone sentinel passes.
ReadDataLax(p) == Entries(p) # <<>> /\ ScanEnv(p)[1][2] \in HasEquals \cup {"spoiled="}
ReadDataRefuses(p) ==
  got[p] # <<>> /\ IF Entries(p) = <<>> THEN byte # "="
                    ELSE ScanEnv(p)[1][2] \in HasEquals \cup {"spoiled="}

Value(e, v) == LET at == {i \in 1..Len(e) : e[i][1] = v}
               IN IF at = {} THEN Absent ELSE e[CHOOSE i \in at : TRUE][2]
NamesOf(e) == {e[i][1] : i \in 1..Len(e)}

\* Mutant: what was there before counts as deleted when it has changed.
DiffEnvsSloppy(a, b) ==
  [changed |-> {<<v, Value(b, v)>> : v \in {u \in NamesOf(b) : Value(a, u) # Value(b, u)}},
   deleted |-> {v \in NamesOf(a) : Value(b, v) # Value(a, v)}]
DiffEnvs(a, b) ==
  [changed |-> {<<v, Value(b, v)>> : v \in {u \in NamesOf(b) : Value(a, u) # Value(b, u)}},
   deleted |-> NamesOf(a) \ NamesOf(b)]

\* readersGroup.Wait, and the comparison.
Join == /\ diff = "join"
        /\ \A p \in Pipes : reader[p] = "done"
        /\ IF \E p \in Pipes : ReadDataRefuses(p)
           THEN diff' = "failed" /\ UNCHANGED result
           ELSE diff' = "ok" /\ result' = DiffEnvs(ScanEnv("pre"), ScanEnv("post"))
        /\ UNCHANGED <<config, shell, opened, dump, fifo, writers, reader, got, ensure>>

-----------------------------------------------------------------------------
ShellStep == \E p \in Pipes : ShellOpens(p) \/ ShellWrites(p) \/ ShellCloses(p)
ReaderStep(p) == ReaderOpens(p) \/ Reads(p) \/ ReaderEOF(p) \/ ReaderDone(p)
EnsureStep(p) == EnsureSeesDone(p) \/ Tick(p) \/ SentinelOpens(p) \/ SentinelFails(p)
                   \/ SentinelWrites(p)

CollectorNext ==
  \/ ShellStep \/ ShellIsKilled
  \/ DiffCall \/ Ensured \/ Join
  \/ \E p \in Pipes : ReaderStep(p) \/ EnsureStep(p)

CollectorSpec == CollectorInit /\ [][CollectorNext]_collectorVars

\* Goroutines get on, and so does Diff; nothing is assumed of the shell.
CollectorFairness ==
  /\ WF_collectorVars(DiffCall) /\ WF_collectorVars(Ensured) /\ WF_collectorVars(Join)
  /\ \A p \in Pipes : WF_collectorVars(ReaderStep(p)) /\ WF_collectorVars(EnsureStep(p))
FairCollectorSpec == CollectorSpec /\ CollectorFairness
=============================================================================
