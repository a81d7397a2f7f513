------------------------------ MODULE SystemV -------------------------------
(***************************************************************************)
(* The programs on System V IPC.                                           *)
(*                                                                         *)
(* MSG_QUEUE_TASK, sender.c (user 1) and receiver.c (user 2): two users    *)
(* who talk over one message queue.  A program forks: the child receives,  *)
(* the parent sends what the user types, until "exit".  Nobody removes the *)
(* queue, and a child waits on when its parent has ended: both meet the    *)
(* programs that the users start later.                                    *)
(*                                                                         *)
(* IPM_WITH_SHM: shm_writer.c and shm_reader.c, which meet at a key        *)
(* ("keyed"), and the parent and child of shm_fork_demo.c, which share a   *)
(* private segment ("private").  A writer may be started while another one *)
(* runs or after one that was killed, whose segment is still there.  A     *)
(* segment removed loses its key at once and is destroyed when nobody has  *)
(* it attached.  text and length are the number of the writer that wrote   *)
(* them, 0 at first.                                                       *)
(***************************************************************************)
EXTENDS Naturals, SequencesExt

CONSTANTS
  MaxRuns, MaxTexts, QueueSize,
  Writer, Reader, NULL
-----------------------------------------------------------------------------
(* The message queue *)

User == {1, 2}
Peer(u) == 3 - u

\* The n-th text of a user is n.
EXIT == 0

VARIABLES mq,    \* the messages in the queue: type and text
  parent,        \* whether the user's program is sending
  children,      \* the children of each user that wait for messages
  started,       \* how many programs each user has started
  posted,        \* auxiliary: what each user has sent,
  taken          \* and what the children of each have received, in order

mqvars == <<mq, parent, children, started, posted, taken>>

QueueInit ==
  /\ mq = << >> /\ parent = [u \in User |-> FALSE] /\ children = [u \in User |-> {}]
  /\ started = [u \in User |-> 0]
  /\ posted = [u \in User |-> << >>] /\ taken = [u \in User |-> << >>]

\* msgget finds the queue or makes it; fork.
start(u) ==
  /\ ~parent[u] /\ started[u] < MaxRuns
  /\ started' = [started EXCEPT ![u] = @ + 1]
  /\ parent' = [parent EXCEPT ![u] = TRUE]
  /\ children' = [children EXCEPT ![u] = @ \cup {started'[u]}]
  /\ UNCHANGED <<mq, posted, taken>>

\* The type is the number of the sender; msgsnd waits for room.
msgsnd(u, text) ==
  /\ parent[u] /\ Len(mq) < QueueSize
  /\ mq' = Append(mq, [mtype |-> u, mtext |-> text])
  /\ posted' = [posted EXCEPT ![u] = Append(@, text)]
  /\ parent' = [parent EXCEPT ![u] = text # EXIT]
  /\ UNCHANGED <<children, started, taken>>

Texts(u) == Cardinality({j \in DOMAIN posted[u] : posted[u][j] # EXIT})
say(u) == Texts(u) < MaxTexts /\ msgsnd(u, Texts(u) + 1)
exit(u) == msgsnd(u, EXIT)

\* The first message of the other user, by its type.
msgrcv(u, child) ==
  LET theirs == {j \in DOMAIN mq : mq[j].mtype = Peer(u)}
      text == mq[Min(theirs)].mtext
  IN  /\ child \in children[u] /\ theirs # {}
      /\ mq' = RemoveAt(mq, Min(theirs))
      /\ taken' = [taken EXCEPT ![u] = Append(@, text)]
      /\ children' = [children EXCEPT ![u] = IF text = EXIT THEN @ \ {child} ELSE @]
      /\ UNCHANGED <<parent, started, posted>>

\* The user interrupts the program: parent and child end; a child left over
\* from an earlier one does not.
Interrupt(u) ==
  /\ parent[u]
  /\ parent' = [parent EXCEPT ![u] = FALSE]
  /\ children' = [children EXCEPT ![u] = @ \ {started[u]}]
  /\ UNCHANGED <<mq, started, posted, taken>>

Receive(u) == \E child \in children[u] : msgrcv(u, child)

QueueNext == \E u \in User : start(u) \/ say(u) \/ exit(u) \/ Receive(u) \/ Interrupt(u)
-----------------------------------------------------------------------------
Waiting(u) == LET theirs == SelectSeq(mq, LAMBDA m : m.mtype = Peer(u)) IN [j \in DOMAIN theirs |-> theirs[j].mtext]

\* Over all the programs that a user starts, their children receive what the
\* other user sent in the order sent, each message once, and what has not been
\* received is in the queue; a child has ended for each "exit" received, and
\* none for any other reason but an interrupt.
EachMessageOnce ==
  \A u \in User :
    /\ taken[u] \o Waiting(u) = posted[Peer(u)]
    /\ Cardinality({j \in DOMAIN taken[u] : taken[u][j] = EXIT}) <= started[u] - Cardinality(children[u])

\* While a user has a child, what the other one sends is received in the end.
Received == \A u \in User : children[u] = {} \/ Waiting(u) = << >>
-----------------------------------------------------------------------------
(* Shared memory *)

VARIABLES shm,   \* which program runs
  segments,      \* [ready, text, length] of each segment made
  key,           \* the segment that the key leads to
  attached,      \* who has each segment attached
  removed,       \* the segments marked for destruction
  wat, rat,      \* where the writers and the readers are
  seg,           \* the segment that each has
  seen,          \* what each reader has printed: text and length
  writers        \* auxiliary: the writers that each segment has had

shmvars == <<shm, segments, key, attached, removed, wat, rat, seg, seen, writers>>

Segment == 1 .. Cardinality(Writer)
Process == Writer \cup Reader

ShmInit ==
  /\ shm \in {"keyed", "private"}
  /\ segments = << >> /\ key = NULL
  /\ attached = [s \in Segment |-> {}] /\ removed = {}
  /\ wat = [w \in Writer |-> IF shm = "keyed" \/ w = 1 THEN "shmget" ELSE "ended"]
  /\ rat = [r \in Reader |-> IF shm = "keyed" THEN "shmget" ELSE "unborn"]
  /\ seg = [p \in Process |-> NULL]
  /\ seen = [r \in Reader |-> [text |-> 0, length |-> 0]]
  /\ writers = [s \in Segment |-> {}]

Exists(s) == s \notin removed \/ attached[s] # {}
-----------------------------------------------------------------------------
At(w, from, to) == wat[w] = from /\ wat' = [wat EXCEPT ![w] = to]

\* shmget finds the segment of the key or makes one, filled with zeros.
writer_shmget(w) ==
  /\ At(w, "shmget", "shmat")
  /\ IF shm = "keyed" /\ key # NULL
       THEN seg' = [seg EXCEPT ![w] = key] /\ UNCHANGED <<segments, key>>
       ELSE /\ segments' = Append(segments, [ready |-> 0, text |-> 0, length |-> 0])
            /\ seg' = [seg EXCEPT ![w] = Len(segments')]
            /\ key' = IF shm = "keyed" THEN Len(segments') ELSE key
  /\ UNCHANGED <<shm, attached, removed, rat, seen, writers>>

writer_shmat(w) ==
  /\ wat[w] = "shmat"
  /\ IF Exists(seg[w])
       THEN /\ wat' = [wat EXCEPT ![w] = "clear"]
            /\ attached' = [attached EXCEPT ![seg[w]] = @ \cup {w}]
            /\ writers' = [writers EXCEPT ![seg[w]] = @ \cup {w}]
       ELSE wat' = [wat EXCEPT ![w] = "ended"] /\ UNCHANGED <<attached, writers>>
  /\ UNCHANGED <<shm, segments, key, removed, rat, seg, seen>>

\* The parent of shm_fork_demo.c forks when it has cleared ready.
clear(w) ==
  /\ At(w, "clear", "text")
  /\ segments' = [segments EXCEPT ![seg[w]].ready = 0]
  /\ rat' = [r \in Reader |-> IF shm = "private" THEN "shmget" ELSE rat[r]]
  /\ UNCHANGED <<shm, key, attached, removed, seg, seen, writers>>

Put(w, field, value) ==
  /\ segments' = [segments EXCEPT ![seg[w]][field] = value]
  /\ UNCHANGED <<shm, key, attached, removed, rat, seg, seen, writers>>

publish(w) ==
  \/ At(w, "text", "length") /\ Put(w, "text", w)
  \/ At(w, "length", "ready") /\ Put(w, "length", w)
  \/ At(w, "ready", "shmdt") /\ Put(w, "ready", 1)

\* shm_writer.c sleeps for five seconds, the parent waits for its child.
writer_shmdt(w) ==
  /\ At(w, "shmdt", "remove")
  /\ shm = "private" => \A r \in Reader : rat[r] = "ended"
  /\ attached' = [attached EXCEPT ![seg[w]] = @ \ {w}]
  /\ UNCHANGED <<shm, segments, key, removed, rat, seg, seen, writers>>

\* It fails if another writer has removed the segment, and nobody has it.
shmctl(w) ==
  /\ At(w, "remove", "ended")
  /\ removed' = removed \cup {seg[w]}
  /\ key' = IF key = seg[w] THEN NULL ELSE key
  /\ UNCHANGED <<shm, segments, attached, rat, seg, seen, writers>>

\* A writer is killed; the kernel detaches its segment.
Kill(w) ==
  /\ shm = "keyed" /\ wat[w] \notin {"shmget", "ended"}
  /\ wat' = [wat EXCEPT ![w] = "killed"]
  /\ attached' = [attached EXCEPT ![seg[w]] = @ \ {w}]
  /\ UNCHANGED <<shm, segments, key, removed, rat, seg, seen, writers>>
-----------------------------------------------------------------------------
Turns(r, to) == rat' = [rat EXCEPT ![r] = to] /\ UNCHANGED <<shm, segments, key, removed, wat, writers>>

\* No segment: "Execute the writer first".  The child has inherited its id.
reader_shmget(r) ==
  LET found == IF shm = "private" THEN seg[1] ELSE key
  IN  /\ rat[r] = "shmget"
      /\ Turns(r, IF found = NULL THEN "ended" ELSE "shmat")
      /\ seg' = [seg EXCEPT ![r] = found]
      /\ UNCHANGED <<attached, seen>>

reader_shmat(r) ==
  /\ rat[r] = "shmat"
  /\ Turns(r, IF Exists(seg[r]) THEN "poll" ELSE "ended")
  /\ attached' = IF Exists(seg[r]) THEN [attached EXCEPT ![seg[r]] = @ \cup {r}] ELSE attached
  /\ UNCHANGED <<seg, seen>>

poll(r) ==
  /\ rat[r] = "poll" /\ segments[seg[r]].ready = 1
  /\ Turns(r, "text")
  /\ UNCHANGED <<seg, attached, seen>>

print(r) ==
  /\ UNCHANGED <<seg, attached>>
  /\ \/ rat[r] = "text" /\ seen' = [seen EXCEPT ![r].text = segments[seg[r]].text] /\ Turns(r, "length")
     \/ rat[r] = "length" /\ seen' = [seen EXCEPT ![r].length = segments[seg[r]].length] /\ Turns(r, "shmdt")

reader_shmdt(r) ==
  /\ rat[r] = "shmdt"
  /\ Turns(r, "ended")
  /\ attached' = [attached EXCEPT ![seg[r]] = @ \ {r}]
  /\ UNCHANGED <<seg, seen>>

write(w) ==
  writer_shmget(w) \/ writer_shmat(w) \/ clear(w) \/ publish(w) \/ writer_shmdt(w) \/ shmctl(w)
read(r) == reader_shmget(r) \/ reader_shmat(r) \/ poll(r) \/ print(r) \/ reader_shmdt(r)

ShmNext == (\E w \in Writer : write(w) \/ Kill(w)) \/ \E r \in Reader : read(r)
-----------------------------------------------------------------------------
\* A reader prints a whole message, its text and its length, of the one writer
\* that its segment has had; only where a second writer has come to the
\* segment, one left behind or still in use, may it be of two.
MessageWhole ==
  \A r \in Reader :
    rat[r] = "shmdt" \/ (rat[r] = "ended" /\ seen[r].length # 0) =>
      \/ \E w \in Writer : writers[seg[r]] = {w} /\ seen[r] = [text |-> w, length |-> w]
      \/ Cardinality(writers[seg[r]]) > 1

\* No segment is left behind by writers that come to their end: the key leads
\* to one that somebody will still remove, or that a killed writer has left.
NoneLeftBehind ==
  /\ key # NULL => key \notin removed /\ \E w \in Writer : seg[w] = key /\ wat[w] # "ended"
  /\ \A s \in 1 .. Len(segments) : s \in removed \/ s = key \/ shm = "private"

\* Writers have ended, and so has every reader whose segment had no writer
\* that was killed.
AllEnded ==
  /\ \A w \in Writer : wat[w] \in {"ended", "killed"}
  /\ \A r \in Reader : rat[r] = "ended" \/ \E w \in Writer : seg[w] = seg[r] /\ wat[w] = "killed"
-----------------------------------------------------------------------------
TypeOK ==
  /\ parent \in [User -> BOOLEAN] /\ started \in [User -> 0 .. MaxRuns]
  /\ Len(mq) <= QueueSize /\ \A u \in User : children[u] \subseteq 1 .. started[u]
  /\ \A s \in Segment : attached[s] \subseteq Process /\ writers[s] \subseteq Writer
  /\ removed \subseteq 1 .. Len(segments) /\ key \in {NULL} \cup 1 .. Len(segments)
  /\ \A p \in Process : seg[p] \in {NULL} \cup 1 .. Len(segments)
=============================================================================
