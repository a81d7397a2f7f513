----------------------------- MODULE MCServers ------------------------------
(***************************************************************************)
(* Processes that talk to each other: the request servers with their       *)
(* clients, the store shared by the threads of the key-value server, the   *)
(* select loops, the programs on named pipes, on a message queue and on    *)
(* shared memory, and the demos of multiplexing.  They are separate        *)
(* programs: running names the one that runs.                              *)
(***************************************************************************)
EXTENDS KvStore, RequestServer

CONSTANT Chatter  \* the clients of the select loops

VARIABLES
  running,
  echo, chat_up, pending, client_socket, readfds, i, conn, says, outbox, inbox, log, joined,
  pipes, step, mode, ends, content, buf, typed, shown, gone,
  mq, parent, children, started, posted, taken,
  shm, segments, key, attached, removed, wat, rat, seg, seen, writers,
  loop, epc, ready, arrived, waiting, closed, echoed, offset, child

Chat == INSTANCE ChatServer
  WITH Client <- Chatter, MAX_CLIENTS <- 2, MaxSays <- 2, MaxTotal <- 2, up <- chat_up, backlog <- pending

Pipes == INSTANCE NamedPipes WITH MaxLines <- 2, Garbage <- None

Ipc == INSTANCE SystemV
  WITH MaxRuns <- 2, MaxTexts <- 1, QueueSize <- 3, Writer <- {1, 2}, Reader <- {3}, NULL <- None

Loops == INSTANCE EventLoops WITH MaxTyped <- 3, FileSize <- 3, Message <- 2, Chunk <- 2

chatVars == <<echo, chat_up, pending, client_socket, readfds, i, conn, says, outbox, inbox, log, joined>>
pipeVars == <<pipes, step, mode, ends, content, buf, typed, shown, gone>>
queueVars == <<mq, parent, children, started, posted, taken>>
shmVars == <<shm, segments, key, attached, removed, wat, rat, seg, seen, writers>>
loopVars == <<loop, epc, ready, arrived, waiting, closed, echoed, offset, child>>
allVars == <<running, requestVars, kvVars, chatVars, pipeVars, queueVars, shmVars, loopVars>>

MCInit ==
  /\ running \in {"requests", "kv", "chat", "pipes", "queue", "shm", "loops"}
  /\ RequestInit /\ KvInit /\ Chat!Init /\ Pipes!Init /\ Ipc!QueueInit /\ Ipc!ShmInit /\ Loops!LoopInit
  /\ running = "requests" \/ server = "kv"
  /\ running = "chat" \/ ~echo
  /\ running = "pipes" \/ pipes = "chat"
  /\ running = "shm" \/ shm = "keyed"
  /\ running = "loops" \/ loop = "poll"

RunRequests(A) ==
  running = "requests" /\ A /\ UNCHANGED <<running, kvVars, chatVars, pipeVars, queueVars, shmVars, loopVars>>
RunKv(A) ==
  running = "kv" /\ A /\ UNCHANGED <<running, requestVars, chatVars, pipeVars, queueVars, shmVars, loopVars>>
RunChat(A) ==
  running = "chat" /\ A /\ UNCHANGED <<running, requestVars, kvVars, pipeVars, queueVars, shmVars, loopVars>>
RunPipes(A) ==
  running = "pipes" /\ A /\ UNCHANGED <<running, requestVars, kvVars, chatVars, queueVars, shmVars, loopVars>>
RunQueue(A) ==
  running = "queue" /\ A /\ UNCHANGED <<running, requestVars, kvVars, chatVars, pipeVars, shmVars, loopVars>>
RunShm(A) ==
  running = "shm" /\ A /\ UNCHANGED <<running, requestVars, kvVars, chatVars, pipeVars, queueVars, loopVars>>
RunLoops(A) ==
  running = "loops" /\ A /\ UNCHANGED <<running, requestVars, kvVars, chatVars, pipeVars, queueVars, shmVars>>

MCNext ==
  \/ RunRequests(RequestNext)
  \/ RunKv(KvNext)
  \/ RunChat(Chat!Next)
  \/ RunPipes(Pipes!Next)
  \/ RunQueue(Ipc!QueueNext)
  \/ RunShm(Ipc!ShmNext)
  \/ RunLoops(Loops!LoopNext)

\* A process that can run does, a read of standard input does not fail every
\* time, and the users of the kv clients and of the
\* named pipes type on; nobody has to connect to the chat, to start a program
\* of the message queue, to say something or to leave.
MCSpec ==
  /\ MCInit /\ [][MCNext]_allVars
  /\ WF_allVars(RunRequests(accept))
  /\ \A c \in Client :
       /\ WF_allVars(RunRequests(Serve(c)))
       /\ WF_allVars(RunRequests(ClientStep(c)))
  /\ WF_allVars(RunChat(Chat!Server))
  /\ \A t \in Pipes!Thread : WF_allVars(RunPipes(Pipes!Step(t)))
  /\ \A u \in {1, 2} : WF_allVars(RunQueue(Ipc!Receive(u)))
  /\ \A w \in {1, 2} : WF_allVars(RunShm(Ipc!write(w)))
  /\ WF_allVars(RunShm(Ipc!read(3)))
  /\ WF_allVars(RunLoops(Loops!Loop))
  /\ SF_allVars(RunLoops(Loops!read_stdin /\ waiting' < waiting))
  /\ WF_allVars(RunLoops(Loops!writer))
-----------------------------------------------------------------------------
\* multiclient_chat_server.c: the server reads what an open client said, in
\* order, and who has a slot is sent every message of the others once, in one
\* order; the echo server sends each its own.
ChatDelivered == Chat!TypeOK /\ Chat!HearsTheOthers /\ Chat!NothingSaidIsLost

\* The programs on named pipes, on the message queue and on shared memory:
\* what a process gets is what the other one sent, whole, in order and once,
\* but for the cases that ShownInOrder and MessageWhole name; two that take
\* turns on one pipe lose nothing; no segment is left that nobody will remove.
\* The demos of multiplexing, poll_with_pipe.c among them, print all that they
\* read, once, and never sleep in a read.
PeersHear ==
  /\ Pipes!TypeOK /\ Pipes!ShownInOrder /\ Pipes!TurnsKept
  /\ Ipc!TypeOK /\ Ipc!EachMessageOnce /\ Ipc!MessageWhole /\ Ipc!NoneLeftBehind
  /\ Loops!LoopTypeOK /\ Loops!EventsHandled

\* tcp_client.c and its like: every client comes to its end, whoever waits
\* for whom, is killed, or takes the server down.  multiclient_chat_server.c:
\* while the server runs, what was said is read in the end, and a client that
\* left gives its slot back.  Those that take turns on a named pipe exchange
\* all their lines, messages are received while somebody waits for them, and
\* readers and writers of shared memory end, unless somebody is killed.  The
\* demos of multiplexing print what is typed, or end.
EveryoneServed ==
  /\ <>(running = "requests" => AllLeft)
  /\ <>[](running = "chat" /\ chat_up => Chat!Quiet)
  /\ <>(running = "pipes" => Pipes!Exchanged)
  /\ <>[](running = "queue" => Ipc!Received)
  /\ <>(running = "shm" => Ipc!AllEnded)
  /\ <>[](running = "loops" => Loops!EventsAnswered)
=============================================================================
