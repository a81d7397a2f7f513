------------------------------- MODULE AsyncIo ------------------------------
(***************************************************************************)
(* Asynchronous I/O: day-14/read_mlfa_and_merge.c, which copies several    *)
(* files to standard output with one POSIX read in flight for each, and    *)
(* the three writers of day-13(aio): aio.c keeps a window of QUEUE_DEPTH   *)
(* io_uring writes open, io_uring.c and posix_aio.c wait for each write.   *)
(*                                                                         *)
(* The kernel is the environment: it completes the requests in flight in   *)
(* any order, in full, in part or with an error.  A file is a number of    *)
(* units, and unit u is at offset u.  A failure before the first request   *)
(* ends a program before it has any state, and is left out.                *)
(***************************************************************************)
EXTENDS Integers, Sequences, FiniteSets

CONSTANTS
  nfiles,       \* the files named on the command line are 1 .. nfiles
  Length,       \* their lengths, in units
  BUF_SIZE,     \* the units of one chunk
  iterations,   \* the blocks a writer writes
  QUEUE_DEPTH   \* the window of aio.c

ASSUME AsyncAssumption ==
  /\ nfiles \in Nat \ {0}
  /\ Length \in [1 .. nfiles -> Nat]
  /\ BUF_SIZE \in Nat \ {0}
  /\ iterations \in Nat \ {0}
  /\ QUEUE_DEPTH \in Nat \ {0}

VARIABLES
  io,         \* which program runs
  ioPc,       \* where it is
  offset,     \* merge: aio_offset of a file
  active,     \* merge: the files whose task is active
  pending,    \* merge: the files whose read is in progress
  ret,        \* merge: what aio_return will say of a read that has ended
  j,          \* merge: the index of the loop of lines 72-105
  merged,     \* merge: of a file, the units that reached standard output
  remaining,
  flawed,     \* files, or blocks, that had an error or a short transfer
  submitted, completed,
  prepared,   \* writers: blocks in the submission queue
  inflight,   \* writers: blocks the kernel is writing
  cqes,       \* writers: the completion queue
  blocks      \* writers: blocks the file holds in full

mergeVars == <<offset, active, pending, ret, j, merged, remaining>>
writeVars == <<submitted, completed, prepared, inflight, cqes, blocks>>
asyncVars == <<io, ioPc, flawed, mergeVars, writeVars>>

File == 1 .. nfiles
Block == 0 .. iterations - 1
Outcome == {"whole", "short", "error"}

AsyncTypeOK ==
  /\ io \in {"merge", "aio", "io_uring", "posix_aio"}
  /\ ioPc \in {"loop", "scan", "reap", "done", "exit"}
  /\ offset \in [File -> Nat]
  /\ active \subseteq File /\ pending \subseteq File
  /\ ret \in [File -> -1 .. BUF_SIZE]
  /\ j \in 1 .. nfiles + 1
  /\ merged \in [File -> Seq(Nat)]
  /\ remaining \in Int
  /\ io = "merge" => flawed \subseteq File
  /\ io # "merge" => flawed \subseteq Block
  /\ submitted \in Nat /\ completed \in Nat
  /\ prepared \subseteq Block /\ inflight \subseteq Block /\ blocks \subseteq Block
  /\ cqes \subseteq Block \X Outcome

\* lines 32-59 of the merge: a first read of every file is in flight.
AsyncInit ==
  /\ io \in {"merge", "aio", "io_uring", "posix_aio"}
  /\ ioPc = "loop"
  /\ offset = [f \in File |-> 0]
  /\ active = File /\ pending = File
  /\ ret = [f \in File |-> 0]
  /\ j = 1
  /\ merged = [f \in File |-> << >>]
  /\ remaining = nfiles
  /\ flawed = {}
  /\ submitted = 0 /\ completed = 0
  /\ prepared = {} /\ inflight = {} /\ cqes = {} /\ blocks = {}
-----------------------------------------------------------------------------
(* read_mlfa_and_merge.c *)

\* The kernel ends the read of f: what is there, up to a chunk or less of it,
\* nothing at the end of the file, or an error.
read_done(f) ==
  /\ io = "merge" /\ ioPc \in {"loop", "scan"} /\ f \in pending
  /\ pending' = pending \ {f}
  /\ \/ /\ \E n \in 0 .. BUF_SIZE :
             /\ offset[f] + n <= Length[f]
             /\ n = 0 => offset[f] = Length[f]
             /\ ret' = [ret EXCEPT ![f] = n]
        /\ UNCHANGED flawed
     \/ /\ ret' = [ret EXCEPT ![f] = -1]
        /\ flawed' = flawed \cup {f}
  /\ UNCHANGED <<io, ioPc, offset, active, j, merged, remaining, writeVars>>

\* lines 62-70: sleep until a request has ended.  A signal only repeats this;
\* any other error ends the program.
aio_suspend ==
  /\ io = "merge" /\ ioPc = "loop" /\ remaining > 0
  /\ \/ active \ pending # {} /\ ioPc' = "scan"
     \/ ioPc' = "exit"
  /\ j' = 1
  /\ UNCHANGED <<io, flawed, offset, active, pending, ret, merged, remaining, writeVars>>

\* lines 72-76
skip ==
  /\ io = "merge" /\ ioPc = "scan" /\ j <= nfiles
  /\ j \notin active \/ j \in pending
  /\ j' = j + 1
  /\ UNCHANGED <<io, ioPc, flawed, offset, active, pending, ret, merged, remaining, writeVars>>

\* The first n units of the chunk that was read at an offset.
Units(from, n) == [u \in 1 .. n |-> from + u - 1]

\* Variant of next_offset: it moves by the size of the buffer.
next_offset_whole == offset[j] + BUF_SIZE

\* line 87
next_offset == offset[j] + ret[j]

\* lines 78-96: the chunk is written with one call, which may take less of it
\* than was read, and the next is asked for; if that is refused, the file is
\* closed.
copy ==
  /\ io = "merge" /\ ioPc = "scan" /\ j <= nfiles
  /\ j \in active \ pending /\ ret[j] > 0
  /\ offset' = [offset EXCEPT ![j] = next_offset]
  /\ \E n \in 0 .. ret[j], refused \in {{}, {j}} :
       /\ merged' = [merged EXCEPT ![j] = @ \o Units(offset[j], n)]
       /\ pending' = pending \cup ({j} \ refused)
       /\ active' = active \ refused
       /\ remaining' = IF refused = {} THEN remaining ELSE remaining - 1
       /\ flawed' = IF refused = {} /\ n = ret[j] THEN flawed ELSE flawed \cup {j}
  /\ j' = j + 1
  /\ UNCHANGED <<io, ioPc, ret, writeVars>>

\* lines 81-84
write_fails ==
  /\ io = "merge" /\ ioPc = "scan" /\ j <= nfiles
  /\ j \in active \ pending /\ ret[j] > 0
  /\ ioPc' = "exit"
  /\ UNCHANGED <<io, flawed, mergeVars, writeVars>>

\* lines 98-104
close_file ==
  /\ io = "merge" /\ ioPc = "scan" /\ j <= nfiles
  /\ j \in active \ pending /\ ret[j] <= 0
  /\ active' = active \ {j}
  /\ remaining' = remaining - 1
  /\ j' = j + 1
  /\ UNCHANGED <<io, ioPc, flawed, offset, pending, ret, merged, writeVars>>

\* line 61
next_round ==
  /\ io = "merge" /\ ioPc = "scan" /\ j > nfiles
  /\ ioPc' = IF remaining > 0 THEN "loop" ELSE "done"
  /\ UNCHANGED <<io, flawed, mergeVars, writeVars>>

Merge == aio_suspend \/ skip \/ copy \/ write_fails \/ close_file \/ next_round
-----------------------------------------------------------------------------
(* The writers of day-13(aio) *)

\* The kernel ends the write of a block.
write_done(b) ==
  /\ io # "merge" /\ b \in inflight
  /\ inflight' = inflight \ {b}
  /\ \E how \in Outcome :
       /\ cqes' = cqes \cup {<<b, how>>}
       /\ blocks' = IF how = "whole" THEN blocks \cup {b} ELSE blocks
       /\ flawed' = IF how = "whole" THEN flawed ELSE flawed \cup {b}
  /\ UNCHANGED <<io, ioPc, mergeVars, submitted, completed, prepared>>

\* Variant of Room: the window counts what was submitted only.
Room_submitted == IF submitted < iterations THEN QUEUE_DEPTH ELSE 0

\* aio.c, lines 43-45: how many entries the loop prepares.
Room ==
  LET least(S) == CHOOSE n \in S : \A m \in S : n <= m
  IN  least({QUEUE_DEPTH - (submitted - completed), iterations - submitted,
             QUEUE_DEPTH - Cardinality(prepared)})

\* aio.c, lines 42-54: fill the window and hand the entries over.  The result
\* of io_uring_submit is not looked at: the kernel may have taken only some of
\* the entries, and the next call offers the rest again.
submit_window ==
  /\ io = "aio" /\ ioPc = "loop" /\ completed < iterations
  /\ submitted' = submitted + Room
  /\ LET queue == prepared \cup submitted .. submitted + Room - 1
     IN  \E taken \in SUBSET queue :
           /\ \A a \in taken, b \in queue \ taken : a < b
           /\ inflight' = inflight \cup taken
           /\ prepared' = queue \ taken
  /\ ioPc' = "reap"
  /\ UNCHANGED <<io, flawed, mergeVars, completed, cqes, blocks>>

\* aio.c, lines 56-70: a failed write ends the program; a short one counts as
\* complete.
reap ==
  /\ io = "aio" /\ ioPc = "reap"
  /\ IF \E c \in cqes : c[2] = "error"
     THEN ioPc' = "exit" /\ UNCHANGED <<completed, cqes>>
     ELSE /\ completed' = completed + Cardinality(cqes)
          /\ cqes' = {}
          /\ ioPc' = IF completed' < iterations THEN "loop" ELSE "done"
  /\ UNCHANGED <<io, flawed, mergeVars, submitted, prepared, inflight, blocks>>

\* io_uring.c, lines 41-51, and posix_aio.c, lines 36-43: one write at a time.
\* posix_aio.c returns when the write is refused; io_uring.c does not look.
issue ==
  /\ io \in {"io_uring", "posix_aio"} /\ ioPc = "loop"
  /\ submitted' = submitted + 1
  /\ \/ inflight' = {submitted} /\ ioPc' = "reap" /\ UNCHANGED prepared
     \/ io = "io_uring" /\ prepared' = {submitted} /\ ioPc' = "reap" /\ UNCHANGED inflight
     \/ io = "posix_aio" /\ ioPc' = "exit" /\ UNCHANGED <<prepared, inflight>>
  /\ UNCHANGED <<io, flawed, mergeVars, completed, cqes, blocks>>

\* What ends a writer that waits for each write: any error, and for
\* posix_aio.c a short write too.
Fatal(how) == how = "error" \/ (io = "posix_aio" /\ how = "short")

\* io_uring.c, lines 53-66, and posix_aio.c, lines 45-56.
collect ==
  /\ io \in {"io_uring", "posix_aio"} /\ ioPc = "reap" /\ cqes # {}
  /\ IF \E c \in cqes : Fatal(c[2])
     THEN ioPc' = "exit" /\ UNCHANGED <<completed, cqes>>
     ELSE /\ completed' = completed + 1
          /\ cqes' = {}
          /\ ioPc' = IF completed' < iterations THEN "loop" ELSE "done"
  /\ UNCHANGED <<io, flawed, mergeVars, submitted, prepared, inflight, blocks>>

\* posix_aio.c, line 47: a signal that interrupts the wait ends the program,
\* and so does an error of io_uring_wait_cqe.
wait_fails ==
  /\ io \in {"io_uring", "posix_aio"} /\ ioPc = "reap"
  /\ ioPc' = "exit"
  /\ UNCHANGED <<io, flawed, mergeVars, writeVars>>

\* io_uring.c waits for a completion that cannot come.
NeverSubmitted == io = "io_uring" /\ ioPc = "reap" /\ prepared # {}

Write == submit_window \/ reap \/ issue \/ collect \/ wait_fails

Kernel == (\E f \in File : read_done(f)) \/ (\E b \in Block : write_done(b))

AsyncNext == Merge \/ Write \/ Kernel

AsyncSpec == AsyncInit /\ [][AsyncNext]_asyncVars
-----------------------------------------------------------------------------
(* Properties *)

\* read_mlfa_and_merge.c: whatever the order in which the reads end, each file
\* reaches standard output in its own order, up to the offset of its next
\* read, and no unit of it twice; a file leaves a gap only where a write took
\* less than was read.  When the loop ends every file is there to its end,
\* unless it had an error, and no read is in flight into a freed buffer.
MergedInOrder ==
  /\ \A f \in File :
       /\ \A a, b \in 1 .. Len(merged[f]) : a < b => merged[f][a] < merged[f][b]
       /\ io = "merge" /\ f \notin flawed => merged[f] = Units(0, offset[f])
  /\ io = "merge" /\ ioPc = "done" =>
       /\ pending = {}
       /\ \A f \in File \ flawed : offset[f] = Length[f]

\* The writers: no more writes are open than the completion queue can answer,
\* and a writer that ends normally has left none in flight on the buffer it
\* then frees: every block has been written, except, with io_uring, those whose
\* write was short, which it took for complete; posix_aio.c has written all.
WindowKept ==
  /\ submitted - completed <= QUEUE_DEPTH
  /\ ioPc = "done" /\ io # "merge" =>
       /\ prepared = {} /\ inflight = {} /\ cqes = {}
       /\ Block = blocks \cup flawed
       /\ io = "posix_aio" => Block = blocks
-----------------------------------------------------------------------------
(* The inductive invariant *)

\* The loop of the merge: the answer of a read is what is at its offset, the
\* offset is where the next unit to be written stands, and remaining counts
\* the files that are open.
MergeInv ==
  /\ pending \subseteq active
  /\ remaining = Cardinality(active)
  /\ io = "merge" /\ ioPc = "done" => remaining = 0
  /\ \A f \in File :
       /\ offset[f] <= Length[f]
       /\ \A a \in 1 .. Len(merged[f]) : merged[f][a] < offset[f]
       /\ \A a, b \in 1 .. Len(merged[f]) : a < b => merged[f][a] < merged[f][b]
  /\ io = "merge" =>
       /\ \A f \in active \ pending :
            /\ offset[f] + ret[f] <= Length[f]
            /\ ret[f] = 0 => offset[f] = Length[f]
            /\ ret[f] < 0 => f \in flawed
       /\ \A f \in File \ flawed :
            /\ merged[f] = Units(0, offset[f])
            /\ f \notin active => offset[f] = Length[f]

\* The blocks whose write has ended and has not been collected.
Ended == {c[1] : c \in cqes}

Open == Cardinality(prepared) + Cardinality(inflight) + Cardinality(cqes)

\* The writers: a block that has been submitted is in one place, the window
\* counts what is open, and a writer that waits has one write open or none.
WriteInv ==
  /\ submitted <= iterations
  /\ completed <= submitted
  /\ submitted - completed <= QUEUE_DEPTH
  /\ prepared \cap inflight = {} /\ prepared \cap Ended = {} /\ inflight \cap Ended = {}
  /\ prepared \cup inflight \cup Ended \subseteq 0 .. submitted - 1
  /\ io # "merge" /\ ioPc # "exit" =>
       /\ submitted - completed = Open
       /\ 0 .. submitted - 1 = prepared \cup inflight \cup blocks \cup flawed
       /\ IF ioPc = "done" THEN completed = iterations ELSE completed < iterations
       /\ io # "aio" => submitted = completed + (IF ioPc = "reap" THEN 1 ELSE 0)
       /\ io = "posix_aio" => \A b \in flawed : \E c \in cqes : c[1] = b /\ Fatal(c[2])

AsyncInv == AsyncTypeOK /\ MergeInv /\ WriteInv
=============================================================================
