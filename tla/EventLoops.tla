----------------------------- MODULE EventLoops -----------------------------
(***************************************************************************)
(* The multiplexing demos of NON_BLOCKING_IO: blocking_multiplexing_poll.c *)
(* ("poll") and multiplexing_select_nonblocking.c ("select") watch standard *)
(* input and a file, non_blocking_io.c ("read") tries to read standard     *)
(* input, and poll_with_pipe.c ("fifo") reads what its child writes to a   *)
(* named pipe until it is told that the writer has gone.                   *)
(*                                                                         *)
(* Input is counted in units, and a read takes up to Chunk of those that   *)
(* are there.  A regular file is always ready.                             *)
(***************************************************************************)
EXTENDS Naturals

CONSTANTS MaxTyped, FileSize, Message, Chunk

VARIABLES
  loop,      \* which program runs
  epc,       \* where it is
  ready,     \* what poll or select reported, and whether a call failed
  arrived,   \* units that have arrived at standard input, or in the pipe
  waiting,   \* those not yet read
  closed,    \* end of the input: standard input, or the writer, is closed
  echoed,    \* units read and printed
  offset,    \* units of the file read and printed
  child      \* the writer of the pipe

loopVars == <<loop, epc, ready, arrived, waiting, closed, echoed, offset, child>>

Loops == {"poll", "select", "read", "fifo"}

LoopTypeOK ==
  /\ loop \in Loops
  /\ epc \in {"open", "poll", "input", "file", "hup", "reap", "blocked", "done", "failed"}
  /\ ready \subseteq {"input", "file", "hup", "error"}
  /\ {arrived, waiting, echoed, offset} \subseteq Nat
  /\ closed \in BOOLEAN
  /\ child \in {"sleep", "open", "write", "hold", "exited", "failed"}

\* The file, and the pipe with its writer forked, are there.
LoopInit ==
  /\ loop \in Loops
  /\ epc = CASE loop = "fifo" -> "open" [] loop = "read" -> "input" [] OTHER -> "poll"
  /\ ready = {}
  /\ arrived = 0 /\ waiting = 0 /\ closed = FALSE
  /\ echoed = 0 /\ offset = 0
  /\ child = "sleep"

\* The user types, or ends the input.
type ==
  /\ loop # "fifo" /\ ~closed
  /\ \/ arrived < MaxTyped /\ arrived' = arrived + 1 /\ waiting' = waiting + 1 /\ UNCHANGED closed
     \/ closed' = TRUE /\ UNCHANGED <<arrived, waiting>>
  /\ UNCHANGED <<loop, epc, ready, echoed, offset, child>>

\* A read does not wait.
Readable == waiting > 0 \/ closed

\* A read that returns n units; at the end of the input it returns 0.
take(n) ==
  /\ n <= Chunk /\ n <= waiting /\ (n = 0 => waiting = 0)
  /\ waiting' = waiting - n
  /\ echoed' = echoed + n
-----------------------------------------------------------------------------
(* Standard input and a file *)

\* The file is ready, so neither poll nor select waits.  Of a closed pipe poll
\* reports the hang-up, which the loop does not look at, and select that a
\* read would not wait.
poll ==
  /\ loop \in {"poll", "select"} /\ epc = "poll"
  /\ \/ Readable /\ ready' = {"input", "file"}
     \/ waiting = 0 /\ (closed => loop = "poll") /\ ready' = {"file"}
  /\ epc' = "input"
  /\ UNCHANGED <<loop, arrived, waiting, closed, echoed, offset, child>>

\* The program ends when poll or select fails; that of the pipe then waits for
\* its child.
poll_fails ==
  /\ epc = "poll"
  /\ epc' = IF loop = "fifo" THEN "reap" ELSE "failed"
  /\ ready' = {"error"}
  /\ UNCHANGED <<loop, arrived, waiting, closed, echoed, offset, child>>

\* Variant of Reported: the loop reads whatever poll says.
Reported_Always(fd) == TRUE

\* FD_ISSET, and the test of revents.
Reported(fd) == fd \in ready

\* Standard input is read if it was reported; the read may fail.  Were
\* nothing there, the read of the poll loop, which blocks, would keep it from
\* the file.
read_stdin ==
  /\ loop \in {"poll", "select"} /\ epc = "input"
  /\ \/ ~Reported("input") /\ epc' = "file" /\ UNCHANGED <<waiting, echoed>>
     \/ /\ Reported("input")
        /\ epc' = IF Readable \/ loop = "select" THEN "file" ELSE "blocked"
        /\ IF Readable THEN \E n \in 0 .. Chunk : take(n) ELSE UNCHANGED <<waiting, echoed>>
     \/ Reported("input") /\ epc' = "file" /\ UNCHANGED <<waiting, echoed>>
  /\ UNCHANGED <<loop, ready, arrived, closed, offset, child>>

\* The file is read.  At its end, or when the read fails, the select loop ends
\* and the poll loop goes on.
read_file ==
  /\ loop \in {"poll", "select"} /\ epc = "file" /\ Reported("file")
  /\ \/ \E n \in 0 .. Chunk :
          /\ offset + n <= FileSize /\ (n = 0 => offset = FileSize)
          /\ offset' = offset + n
          /\ epc' = IF n = 0 /\ loop = "select" THEN "done" ELSE "poll"
     \/ epc' = (IF loop = "select" THEN "failed" ELSE "poll") /\ UNCHANGED offset
  /\ UNCHANGED <<loop, ready, arrived, waiting, closed, echoed, child>>

\* One read of non_blocking_io.c that returns something: input, its end, or an
\* error end the loop.  On EAGAIN it sleeps and tries again.
try_read ==
  /\ loop = "read" /\ epc = "input"
  /\ \/ Readable /\ epc' = "done" /\ \E n \in 0 .. Chunk : take(n)
     \/ epc' = "failed" /\ UNCHANGED <<waiting, echoed>>
  /\ UNCHANGED <<loop, ready, arrived, closed, offset, child>>
-----------------------------------------------------------------------------
(* The named pipe *)

\* The child: its open waits until the parent opens too; a write to a pipe
\* that the parent has closed kills it.
writer ==
  /\ loop = "fifo"
  /\ \/ child = "sleep" /\ child' = "open" /\ UNCHANGED <<arrived, waiting, closed>>
     \/ /\ child = "open" /\ UNCHANGED <<arrived, waiting, closed>>
        /\ child' = "failed" \/ (child' = "write" /\ epc # "failed")
     \/ /\ child = "write"
        /\ IF epc \in {"reap", "done"}
           THEN child' = "exited" /\ UNCHANGED <<arrived, waiting>>
           ELSE child' = "hold" /\ arrived' = Message /\ waiting' = Message
        /\ closed' = (child' = "exited")
     \/ child = "hold" /\ child' = "exited" /\ closed' = TRUE /\ UNCHANGED <<arrived, waiting>>
  /\ UNCHANGED <<loop, epc, ready, echoed, offset>>

\* The parent's open waits for that of the child, which may have written, and
\* gone, by the time the parent runs again.
open_fifo ==
  /\ loop = "fifo" /\ epc = "open"
  /\ \/ child \in {"write", "hold", "exited"} /\ epc' = "poll"
     \/ child \in {"sleep", "open", "failed"} /\ epc' = "failed"
  /\ UNCHANGED <<loop, ready, arrived, waiting, closed, echoed, offset, child>>

\* poll waits for input, or for the writer to go; it may report both.
poll_fifo ==
  /\ loop = "fifo" /\ epc = "poll" /\ Readable
  /\ ready' = {e \in {"input", "hup"} : (e = "input" /\ waiting > 0) \/ (e = "hup" /\ closed)}
  /\ epc' = "input"
  /\ UNCHANGED <<loop, arrived, waiting, closed, echoed, offset, child>>

\* Variant of read_fifo: after a hang-up it reads no more.
read_fifo_late ==
  /\ loop = "fifo" /\ epc = "input"
  /\ IF Reported("input") /\ ~Reported("hup") THEN \E n \in 0 .. Chunk : take(n) ELSE UNCHANGED <<waiting, echoed>>
  /\ epc' = "hup"
  /\ UNCHANGED <<loop, ready, arrived, closed, offset, child>>

\* One read of all that fits the buffer, before the hang-up is looked at.
read_fifo ==
  /\ loop = "fifo" /\ epc = "input"
  /\ \/ ~Reported("input") /\ UNCHANGED <<ready, waiting, echoed>>
     \/ Reported("input") /\ take(IF waiting < Chunk THEN waiting ELSE Chunk) /\ UNCHANGED ready
     \/ Reported("input") /\ ready' = ready \cup {"error"} /\ UNCHANGED <<waiting, echoed>>
  /\ epc' = "hup"
  /\ UNCHANGED <<loop, arrived, closed, offset, child>>

hang_up ==
  /\ loop = "fifo" /\ epc = "hup"
  /\ epc' = IF Reported("hup") THEN "reap" ELSE "poll"
  /\ UNCHANGED <<loop, ready, arrived, waiting, closed, echoed, offset, child>>

\* The pipe is closed and removed; waitpid waits for the child.
waitpid ==
  /\ loop = "fifo" /\ epc = "reap" /\ child = "exited"
  /\ epc' = "done"
  /\ UNCHANGED <<loop, ready, arrived, waiting, closed, echoed, offset, child>>

Loop ==
  \/ poll \/ poll_fails \/ read_stdin \/ read_file \/ try_read
  \/ open_fifo \/ poll_fifo \/ read_fifo \/ hang_up \/ waitpid

LoopNext == type \/ Loop \/ writer
-----------------------------------------------------------------------------
(* Properties *)

\* The poll loop never sleeps in a read, and prints every unit typed once; the
\* select loop ends with all of the file printed, unless a call failed; the
\* reader of the pipe has all of a message that fits its buffer when the
\* hang-up ends it, even if both were reported at once.
EventsHandled ==
  /\ epc # "blocked" /\ echoed + waiting = arrived
  /\ loop = "select" /\ epc = "done" => offset = FileSize
  /\ loop = "fifo" /\ epc \in {"reap", "done"} /\ Reported("hup") /\ ~Reported("error") => waiting = 0

\* The poll loop prints what is typed, in the end; the select loop and the
\* reader of the pipe end, the latter unless its child could not open the
\* pipe; non_blocking_io.c ends if there is input.
EventsAnswered ==
  \/ epc \in {"done", "failed"}
  \/ loop = "poll" /\ waiting = 0
  \/ loop = "read" /\ ~Readable
  \/ loop = "fifo" /\ child = "failed"
=============================================================================
