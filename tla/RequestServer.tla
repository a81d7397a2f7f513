--------------------------- MODULE RequestServer ---------------------------
(***************************************************************************)
(* The socket servers that accept, perhaps greet, read requests, answer    *)
(* them and close, together with their clients: the line servers of        *)
(* SOCKET/, the key-value servers, the mini server of fork_vs_thread.c/    *)
(* in both modes, and the servers of remote_procedure_call/.               *)
(*                                                                         *)
(* A request and its answer are the number of the request.  A message is   *)
(* written and read as a whole: all of them are shorter than a segment.    *)
(* No server handles SIGPIPE: a write to a socket whose other end is gone  *)
(* ends the process that writes.                                           *)
(***************************************************************************)
EXTENDS Naturals, Sequences, FiniteSets

CONSTANTS
  Client,
  MaxRequests  \* bound: the requests of a kv client

ASSUME ServerAssumption == MaxRequests \in Nat \ {0}

\* workers: how many connections are served at a time; loops: a connection
\* is read to its end; prompts: the client asks its user for one request
\* after the other; tcp: a write may come before the news of the other end.
Served(workers, greets, loops, prompts, tcp) ==
  [workers |-> workers, greets |-> greets, loops |-> loops, prompts |-> prompts, tcp |-> tcp]

many == Cardinality(Client)

tcp_server             == Served(1,    TRUE,  FALSE, FALSE, TRUE)
uds_server             == Served(1,    TRUE,  FALSE, FALSE, FALSE)
uds_kv_server          == Served(1,    TRUE,  TRUE,  TRUE,  FALSE)
kvstore_server         == Served(1,    TRUE,  TRUE,  TRUE,  FALSE)
uds_kv_server_perf_top == Served(many, TRUE,  TRUE,  TRUE,  FALSE)
run_thread_mode        == Served(many, FALSE, TRUE,  FALSE, TRUE)
run_fork_mode          == Served(many, FALSE, TRUE,  FALSE, TRUE)
rpc_server             == Served(1,    FALSE, FALSE, FALSE, TRUE)
rpc_hello_server       == Served(1,    FALSE, FALSE, FALSE, TRUE)
structured_rpc_server  == Served(1,    FALSE, FALSE, FALSE, TRUE)

Servers ==
  [ tcp |-> tcp_server, uds |-> uds_server, kv |-> uds_kv_server, kvlib |-> kvstore_server,
    kv_threads |-> uds_kv_server_perf_top, mini |-> run_thread_mode, mini_fork |-> run_fork_mode,
    rpc |-> rpc_server, rpc_hello |-> rpc_hello_server, rpc_struct |-> structured_rpc_server ]

VARIABLES
  server,
  alive,     \* the server process runs and listens
  backlog,   \* connections that wait for accept, in order
  worker,    \* what the server does with a connection
  up,        \* what the client has written and the server not read
  down,      \* what the server has written and the client not read
  client,    \* what the client does
  sent,      \* the requests it has sent
  early      \* auxiliary: clients that closed before they had read it all

requestVars == <<server, alive, backlog, worker, up, down, client, sent, early>>

Greeting == 0
Exit == MaxRequests + 1

P == Servers[server]
once == server \in {"rpc", "rpc_hello", "rpc_struct"}  \* the server ends after one client
forks == server = "mini_fork"  \* a worker is a process of its own

RequestInit ==
  /\ server \in DOMAIN Servers
  /\ alive = TRUE
  /\ backlog = << >>
  /\ worker = [c \in Client |-> "none"]
  /\ up = [c \in Client |-> << >>]
  /\ down = [c \in Client |-> << >>]
  /\ client = [c \in Client |-> "start"]
  /\ sent = [c \in Client |-> 0]
  /\ early = {}
-----------------------------------------------------------------------------
Worker(c, label) == worker' = [worker EXCEPT ![c] = label]
ClientAt(c, label) == client' = [client EXCEPT ![c] = label]

Active == {c \in Client : worker[c] \in {"greet", "read", "answer", "close"}}

accept ==
  /\ alive
  /\ backlog # << >>
  /\ Cardinality(Active) < P.workers
  /\ Worker(Head(backlog), IF P.greets THEN "greet" ELSE "read")
  /\ backlog' = Tail(backlog)
  /\ UNCHANGED <<server, alive, up, down, client, sent, early>>

\* The writing process is killed: the server, or the child that serves c.
SigPipe(c) ==
  /\ alive' = forks
  /\ Worker(c, "closed")
  /\ UNCHANGED down

\* A write by the worker of c, which goes on at label.
Write(c, message, label) ==
  \/ /\ client[c] # "closed"
     /\ down' = [down EXCEPT ![c] = Append(@, message)]
     /\ Worker(c, label)
     /\ UNCHANGED alive
  \/ /\ client[c] = "closed"
     /\ SigPipe(c)
  \/ /\ client[c] = "closed"
     /\ P.tcp
     /\ Worker(c, label)
     /\ UNCHANGED <<alive, down>>

greet(c) ==
  /\ alive \/ forks
  /\ worker[c] = "greet"
  /\ Write(c, Greeting, "read")
  /\ UNCHANGED <<server, backlog, up, client, sent, early>>

\* Variant of read: the end of the connection is read as an empty request
\* and the next one awaited.
read_on(c) ==
  /\ alive \/ forks
  /\ worker[c] = "read"
  /\ up[c] # << >> /\ Worker(c, "answer")
  /\ UNCHANGED <<server, alive, backlog, up, down, client, sent, early>>

\* A request, the end of the connection, or its reset by a client that left
\* something unread.  (The rpc servers answer the end with an error that nobody
\* reads, and end all the same.)
read(c) ==
  /\ alive \/ forks
  /\ worker[c] = "read"
  /\ \/ up[c] # << >> /\ Worker(c, "answer")
     \/ client[c] = "closed" /\ (up[c] = << >> \/ down[c] # << >>) /\ Worker(c, "close")
  /\ UNCHANGED <<server, alive, backlog, up, down, client, sent, early>>

answer(c) ==
  /\ alive \/ forks
  /\ worker[c] = "answer"
  /\ Write(c, Head(up[c]), IF Head(up[c]) = Exit \/ ~P.loops THEN "close" ELSE "read")
  /\ up' = [up EXCEPT ![c] = Tail(@)]
  /\ UNCHANGED <<server, backlog, client, sent, early>>

\* A server of one client closes its listening socket too and returns.
close(c) ==
  /\ alive \/ forks
  /\ worker[c] = "close"
  /\ Worker(c, "closed")
  /\ alive' = ~once
  /\ UNCHANGED <<server, backlog, up, down, client, sent, early>>

Serve(c) == greet(c) \/ read(c) \/ answer(c) \/ close(c)
-----------------------------------------------------------------------------
\* Variant of connect: the client does not wait for the greeting.
connect_hasty(c) ==
  /\ client[c] = "start"
  /\ alive
  /\ backlog' = Append(backlog, c)
  /\ ClientAt(c, "prompt")
  /\ UNCHANGED <<server, alive, worker, up, down, sent, early>>

connect(c) ==
  /\ client[c] = "start"
  /\ \/ /\ alive
        /\ backlog' = Append(backlog, c)
        /\ ClientAt(c, IF P.greets THEN "greeting" ELSE "prompt")
     \/ /\ ~alive
        /\ ClientAt(c, "closed")
        /\ UNCHANGED backlog
  /\ UNCHANGED <<server, alive, worker, up, down, sent, early>>

\* The other end has been closed, by the server or with it.
HungUp(c) == worker[c] = "closed" \/ (~alive /\ (~forks \/ worker[c] = "none"))

read_greeting(c) ==
  /\ client[c] = "greeting"
  /\ down[c] # << >>
  /\ down' = [down EXCEPT ![c] = Tail(@)]
  /\ ClientAt(c, "prompt")
  /\ UNCHANGED <<server, alive, backlog, worker, up, sent, early>>

send_request(c) ==
  /\ client[c] = "prompt"
  /\ ~HungUp(c)
  /\ sent[c] < IF P.prompts THEN MaxRequests ELSE 1
  /\ sent' = [sent EXCEPT ![c] = @ + 1]
  /\ up' = [up EXCEPT ![c] = Append(@, sent[c] + 1)]
  /\ ClientAt(c, "reply")
  /\ UNCHANGED <<server, alive, backlog, worker, down, early>>

\* A kv client sends EXIT and closes without reading the answer.
send_exit(c) ==
  /\ P.prompts
  /\ client[c] = "prompt"
  /\ ~HungUp(c)
  /\ up' = [up EXCEPT ![c] = Append(@, Exit)]
  /\ ClientAt(c, "leaving")
  /\ UNCHANGED <<server, alive, backlog, worker, down, sent, early>>

\* Variant of read_reply: the client closes once it has sent its request.
read_reply_never(c) ==
  /\ client[c] = "reply"
  /\ ClientAt(c, "closed")
  /\ UNCHANGED <<server, alive, backlog, worker, up, down, sent, early>>

read_reply(c) ==
  /\ client[c] = "reply"
  /\ down[c] # << >>
  /\ down' = [down EXCEPT ![c] = Tail(@)]
  /\ ClientAt(c, IF P.prompts THEN "prompt" ELSE "closed")
  /\ UNCHANGED <<server, alive, backlog, worker, up, sent, early>>

\* The end of a kv client after EXIT or the end of its input, of any client
\* whose server has hung up, or by the user's hand.
Close(c) ==
  /\ ClientAt(c, "closed")
  /\ early' = IF client[c] = "prompt" THEN early ELSE early \cup {c}
  /\ UNCHANGED <<server, alive, backlog, worker, up, down, sent>>

leave(c) ==
  /\ \/ client[c] = "leaving"
     \/ P.prompts /\ client[c] = "prompt"
     \/ client[c] \in {"greeting", "prompt", "reply"} /\ down[c] = << >> /\ HungUp(c)
  /\ Close(c)

killed(c) ==
  /\ client[c] \in {"greeting", "prompt", "reply"}
  /\ Close(c)

ClientStep(c) ==
  connect(c) \/ read_greeting(c) \/ send_request(c) \/ send_exit(c) \/ read_reply(c) \/ leave(c)

RequestNext == accept \/ \E c \in Client : Serve(c) \/ ClientStep(c) \/ killed(c)

RequestSpec == RequestInit /\ [][RequestNext]_requestVars
-----------------------------------------------------------------------------
RequestTypeOK ==
  /\ server \in DOMAIN Servers
  /\ alive \in BOOLEAN
  /\ backlog \in Seq(Client)
  /\ worker \in [Client -> {"none", "greet", "read", "answer", "close", "closed"}]
  /\ up \in [Client -> Seq(1 .. Exit)]
  /\ down \in [Client -> Seq(0 .. Exit)]
  /\ client \in [Client -> {"start", "greeting", "prompt", "reply", "leaving", "closed"}]
  /\ sent \in [Client -> 0 .. MaxRequests]
  /\ early \subseteq Client

\* A client that waits for a reply finds nothing in its socket but the
\* answer to the request it sent last: requests and replies stay in step.
RepliesInStep ==
  \A c \in Client : client[c] = "reply" => down[c] \in {<< >>, <<sent[c]>>}

\* A server that loops for ever ends only through a client that closed
\* before it had read what the server writes to it.
DiesOnlyOfSigPipe == ~alive /\ ~once => early # {}

\* tcp_server.c, tcp_client.c and their like: a reply that a client reads is
\* the answer to the request it sent last, and a server that loops for ever
\* ends only through a client that closed before it had read what is written
\* to it.
OwnAnswer == RequestTypeOK /\ RepliesInStep /\ DiesOnlyOfSigPipe

\* Every client that reached a server comes to its end.
AllLeft == \A c \in Client : client[c] = "closed"
-----------------------------------------------------------------------------
(* The proofs' inductive invariant.                                        *)

\* Who waits to be accepted has connected, once, and is not served yet.
BacklogInv ==
  /\ \A i \in 1 .. Len(backlog) : worker[backlog[i]] = "none" /\ client[backlog[i]] # "start"
  /\ \A i, j \in 1 .. Len(backlog) : backlog[i] = backlog[j] => i = j

\* What is on its way between a client and its worker, and where both are.
Conversation(c) ==
  /\ client[c] = "start" => worker[c] = "none" /\ up[c] = << >> /\ down[c] = << >>
  /\ client[c] = "greeting" =>
       /\ P.greets /\ up[c] = << >>
       /\ \/ worker[c] \in {"none", "greet"} /\ down[c] = << >>
          \/ worker[c] = "read" /\ down[c] = <<Greeting>>
  /\ client[c] = "prompt" =>
       /\ up[c] = << >> /\ down[c] = << >>
       /\ worker[c] = "read" \/ (worker[c] = "none" /\ ~P.greets)
  /\ client[c] = "reply" =>
       \/ /\ up[c] = <<sent[c]>> /\ down[c] = << >>
          /\ worker[c] \in {"read", "answer"} \/ (worker[c] = "none" /\ ~P.greets)
       \/ up[c] = << >> /\ down[c] = <<sent[c]>> /\ worker[c] \in {"read", "close", "closed"}
  /\ worker[c] = "answer" => up[c] # << >>
  /\ P.prompts /\ client[c] = "reply" /\ up[c] = << >> => worker[c] = "read"

\* A client that has read all there is to read, and closes, is not written to.
NotWrittenTo(c) ==
  client[c] = "closed" /\ c \notin early =>
    /\ up[c] = << >>
    /\ worker[c] \notin {"greet", "answer"}
    /\ P.greets => \A i \in 1 .. Len(backlog) : backlog[i] # c

RequestInv ==
  /\ RequestTypeOK /\ BacklogInv /\ DiesOnlyOfSigPipe
  /\ \A c \in Client : Conversation(c) /\ NotWrittenTo(c)
=============================================================================
