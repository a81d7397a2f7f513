----------------------------- MODULE NamedPipes -----------------------------
(***************************************************************************)
(* The two users of a named pipe: reader.c and writer.c ("once"), reader.c *)
(* and writer.c of 2WayCommunication, which take turns on one pipe         *)
(* ("turns"), chat1.c and chat2.c there, with a pipe and a reading thread  *)
(* for each direction ("chat"), and those of the file transfer task, which *)
(* clear the buffer before they read ("cleared").                          *)
(*                                                                         *)
(* As in Linux, open waits until the other end has been opened since, even *)
(* if it is closed again by then; read takes all that is there (lines are  *)
(* short), and printf shows it up to the first zero byte: the first line;  *)
(* a write without a reader raises SIGPIPE, which ends the process.  The   *)
(* n-th line that a user types is n.  Users may be killed at any time.     *)
(***************************************************************************)
EXTENDS Naturals, SequencesExt

CONSTANTS MaxLines, Garbage

User == {1, 2}
Peer(u) == 3 - u

VARIABLES pipes,   \* which programs run
  step, mode,      \* where each thread is, and whether to read or to write
  ends,            \* the threads that have each end of a pipe open
  content,         \* the lines in each pipe
  buf,             \* the buffer that each user reads into
  typed,           \* how many lines each user has typed
  shown,           \* what each user was shown
  gone             \* auxiliary: how each user's process ended

pipevars == <<pipes, step, mode, ends, content, buf, typed, shown, gone>>

Chats == {"chat", "cleared"}

\* The threads of user u are <<u, "r">> and <<u, "w">>; the programs with one
\* thread have only the one that they begin as: user 1 writes first.
Thread == User \X {"r", "w"}
Runs(t) == pipes \in Chats \/ t \in {<<1, "w">>, <<2, "r">>}

\* The pipe that a thread opens: user u of a chat writes to pipe u.
fifo(t) == IF pipes \notin Chats THEN 1 ELSE IF t[2] = "w" THEN t[1] ELSE Peer(t[1])

Init ==
  /\ pipes \in Chats \cup {"once", "turns"}
  /\ step = [t \in Thread |-> IF ~Runs(t) THEN "ended" ELSE IF pipes \in Chats /\ t[2] = "w" THEN "fgets" ELSE "open"]
  /\ mode = [t \in Thread |-> t[2]]
  /\ ends = [f \in User |-> [r |-> {}, w |-> {}]]
  /\ content = [f \in User |-> << >>]
  /\ buf = [u \in User |-> Garbage]
  /\ typed = [u \in User |-> 0] /\ shown = [u \in User |-> << >>]
  /\ gone = [u \in User |-> "no"]

Other(m) == IF m = "r" THEN "w" ELSE "r"
-----------------------------------------------------------------------------
\* The open is counted at once and wakes those waiting at the other end.
open(t) ==
  LET far == ends[fifo(t)][Other(mode[t])]
  IN  /\ step[t] = "open"
      /\ ends' = [ends EXCEPT ![fifo(t)][mode[t]] = @ \cup {t}]
      /\ step' = [s \in Thread |->
           IF s = t THEN IF far = {} THEN "waiting" ELSE "opened"
           ELSE IF s \in far /\ step[s] = "waiting" THEN "opened" ELSE step[s]]
      /\ UNCHANGED <<pipes, mode, content, buf, typed, shown, gone>>

\* The chats read a line before they open the pipe, the others after it;
\* writer.c of "once" has its line.
fgets(t) ==
  /\ step[t] = IF pipes \in Chats THEN "fgets" ELSE "opened"
  /\ mode[t] = "w" /\ typed[t[1]] < MaxLines
  /\ typed' = [typed EXCEPT ![t[1]] = @ + 1]
  /\ step' = [step EXCEPT ![t] = IF pipes \in Chats THEN "open" ELSE "write"]
  /\ UNCHANGED <<pipes, mode, ends, content, buf, shown, gone>>

\* The process of u is no more; a pipe that nobody has open is emptied.
Ended(u, how) ==
  LET left == [f \in User |-> [m \in {"r", "w"} |-> {t \in ends[f][m] : t[1] # u}]]
  IN  /\ gone' = [gone EXCEPT ![u] = how]
      /\ step' = [t \in Thread |-> IF t[1] = u THEN "ended" ELSE step[t]]
      /\ ends' = left
      /\ content' = [f \in User |-> IF left[f].r \cup left[f].w = {} THEN << >> ELSE content[f]]
      /\ UNCHANGED <<pipes, mode, buf, typed, shown>>

write(t) ==
  /\ mode[t] = "w" /\ step[t] = IF pipes \in Chats THEN "opened" ELSE "write"
  /\ IF ends[fifo(t)].r = {} THEN Ended(t[1], "SIGPIPE")
     ELSE /\ content' = [content EXCEPT ![fifo(t)] = Append(@, typed[t[1]])]
          /\ step' = [step EXCEPT ![t] = "close"]
          /\ UNCHANGED <<pipes, mode, ends, buf, typed, shown, gone>>

\* Variant of read: an empty pipe is taken for its end.
read_hasty(t) ==
  LET f == fifo(t)
      now == IF content[f] # << >> THEN Head(content[f])
             ELSE IF pipes = "cleared" THEN 0 ELSE buf[t[1]]
  IN  /\ mode[t] = "r" /\ step[t] = "opened"
      /\ content' = [content EXCEPT ![f] = << >>]
      /\ buf' = [buf EXCEPT ![t[1]] = now]
      /\ shown' = [shown EXCEPT ![t[1]] = Append(@, now)]
      /\ step' = [step EXCEPT ![t] = "close"]
      /\ UNCHANGED <<pipes, mode, ends, typed, gone>>

\* At the end of the pipe, when nobody writes any more, the buffer is shown
\* as it is.
read(t) ==
  LET f == fifo(t)
      now == IF content[f] # << >> THEN Head(content[f])
             ELSE IF pipes = "cleared" THEN 0 ELSE buf[t[1]]
  IN  /\ mode[t] = "r" /\ step[t] = "opened"
      /\ content[f] # << >> \/ ends[f].w = {}
      /\ content' = [content EXCEPT ![f] = << >>]
      /\ buf' = [buf EXCEPT ![t[1]] = now]
      /\ shown' = [shown EXCEPT ![t[1]] = Append(@, now)]
      /\ step' = [step EXCEPT ![t] = "close"]
      /\ UNCHANGED <<pipes, mode, ends, typed, gone>>

close(t) ==
  LET f == fifo(t)
      left == [ends[f] EXCEPT ![mode[t]] = @ \ {t}]
  IN  /\ step[t] = "close"
      /\ ends' = [ends EXCEPT ![f] = left]
      /\ content' = [content EXCEPT ![f] = IF left.r \cup left.w = {} THEN << >> ELSE @]
      /\ mode' = [mode EXCEPT ![t] = IF pipes = "turns" THEN Other(@) ELSE @]
      /\ step' = [step EXCEPT ![t] = CASE pipes = "once" -> "ended"
                                       [] pipes \in Chats /\ mode[t] = "w" -> "fgets"
                                       [] OTHER -> "open"]
      /\ UNCHANGED <<pipes, buf, typed, shown, gone>>

Kill(u) == gone[u] = "no" /\ Ended(u, "killed")

\* An end of file costs a round that shows nothing new: bounded.
MaxShown == 2 * MaxLines
Step(t) == Len(shown[t[1]]) < MaxShown /\ (open(t) \/ fgets(t) \/ write(t) \/ read(t) \/ close(t))

Next == (\E t \in Thread : Step(t)) \/ \E u \in User : Kill(u)

Spec == Init /\ [][Next]_pipevars
-----------------------------------------------------------------------------
TypeOK ==
  /\ pipes \in Chats \cup {"once", "turns"}
  /\ \A f \in User : ends[f].r \cup ends[f].w \subseteq Thread /\ content[f] \in Seq(1 .. MaxLines)
  /\ gone \in [User -> {"no", "killed", "SIGPIPE"}]

\* What is shown to a user, apart from what a read at the end of the pipe
\* repeats or shows blank, are lines of the other one in the order typed,
\* none twice.
ShownInOrder ==
  \A u \in User :
    LET real == SelectSeq(shown[u], LAMBDA n : n \notin {0, Garbage})
    IN  /\ \A j \in DOMAIN real : real[j] <= typed[Peer(u)]
        /\ \A j \in 1 .. Len(real) - 1 :
             real[j] < real[j + 1] \/ (pipes # "cleared" /\ real[j] = real[j + 1])

\* As long as nobody is killed, the two that take turns on one pipe never get
\* a line of their own back, lose none and see none twice, no write finds the
\* pipe without a reader, and what is in the pipe is the answer awaited; the
\* same of reader.c and writer.c.
TurnsKept ==
  pipes \notin Chats /\ "killed" \notin {gone[1], gone[2]} =>
    /\ gone = [u \in User |-> "no"]
    /\ \A u \in User :
         /\ shown[u] = [j \in 1 .. Len(shown[u]) |-> j]
         /\ Len(shown[u]) \in {typed[Peer(u)] - 1, typed[Peer(u)]}
    /\ typed[1] \in {typed[2], typed[2] + 1}

\* All lines have been exchanged, or somebody was killed.
Exchanged ==
  pipes \in {"once", "turns"} =>
    \/ \E u \in User : gone[u] # "no"
    \/ pipes = "once" /\ shown[2] = <<1>>
    \/ pipes = "turns" /\ \A u \in User : Len(shown[u]) = MaxLines
=============================================================================
