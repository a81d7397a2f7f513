----------------------------- MODULE ChatServer -----------------------------
(***************************************************************************)
(* The servers that serve many clients from one select loop, and their     *)
(* clients: SOCKET/KEY_VALUE_UDS/multiclient_chat_server.c sends what it   *)
(* reads to all the others, NON_BLOCKING_IO/                               *)
(* multi_client_echo_server_non_blocking_select.c back to its sender.      *)
(*                                                                         *)
(* A message is <<its sender, its number>>.  One read takes all that a     *)
(* client has sent: BUF_SIZE is larger than the few lines that can wait.   *)
(***************************************************************************)
EXTENDS Naturals, Sequences, FiniteSets

CONSTANTS
  Client,
  MAX_CLIENTS,
  MaxSays,     \* bound: the messages of one client
  MaxTotal,    \* bound: the messages of all of them
  None

VARIABLES
  echo,            \* the echo server runs, not the chat server
  up,              \* the server process runs
  backlog,         \* connections that wait for accept
  client_socket,   \* the slots
  readfds,         \* what select reported: slots, and 0 for server_fd
  i,               \* the slot whose turn it is, 0 for accept, None for select
  conn,            \* a client: not yet connected, open, gone, or gone with a reset
  says,            \* the messages it has sent
  outbox,          \* those the server has not read
  inbox,           \* what the server has sent to it
  log,             \* auxiliary: what the server has read, in order
  joined           \* auxiliary: the length of log when it got its slot

vars == <<echo, up, backlog, client_socket, readfds, i, conn, says, outbox, inbox, log, joined>>

Slot == 1 .. MAX_CLIENTS

Init ==
  /\ echo \in BOOLEAN
  /\ up = TRUE
  /\ backlog = << >>
  /\ client_socket = [n \in Slot |-> None]
  /\ readfds = {}
  /\ i = None
  /\ conn = [c \in Client |-> "none"]
  /\ says = [c \in Client |-> 0]
  /\ outbox = [c \in Client |-> << >>]
  /\ inbox = [c \in Client |-> << >>]
  /\ log = << >>
  /\ joined = [c \in Client |-> 0]

Gone(c) == conn[c] \in {"closed", "reset"}
Readable(n) ==
  client_socket[n] # None /\ (outbox[client_socket[n]] # << >> \/ Gone(client_socket[n]))
Ready == {n \in Slot : Readable(n)} \cup (IF backlog = << >> THEN {} ELSE {0})
-----------------------------------------------------------------------------
select ==
  /\ up
  /\ i = None
  /\ Ready # {}
  /\ readfds' = Ready
  /\ i' = 0
  /\ UNCHANGED <<echo, up, backlog, client_socket, conn, says, outbox, inbox, log, joined>>

\* The first free slot; without one the connection stays open but unknown.
Store(c) ==
  LET free == {n \in Slot : client_socket[n] = None} IN
  IF free = {} THEN UNCHANGED <<client_socket, joined>>
  ELSE /\ client_socket' =
            [client_socket EXCEPT ![CHOOSE n \in free : \A m \in free : n <= m] = c]
       /\ joined' = [joined EXCEPT ![c] = Len(log)]

\* The chat server's welcome may meet a client that has gone.
accept ==
  /\ up
  /\ i = 0
  /\ \/ /\ 0 \notin readfds
        /\ UNCHANGED <<up, backlog, client_socket, joined>>
     \/ /\ 0 \in readfds
        /\ Store(Head(backlog))
        /\ backlog' = Tail(backlog)
        /\ up' \in IF ~echo /\ Gone(Head(backlog)) THEN BOOLEAN ELSE {TRUE}
  /\ i' = 1
  /\ UNCHANGED <<echo, readfds, conn, says, outbox, inbox, log>>

\* Whom a message from sd is sent to.
Recipients(sd) ==
  IF echo THEN {sd} ELSE {client_socket[m] : m \in Slot} \ {None, sd}

\* Variant of Pass: the first of the messages is sent, the others dropped.
Pass_First(n) ==
  LET sd == client_socket[n] IN
  /\ outbox[sd] # << >>
  /\ outbox' = [outbox EXCEPT ![sd] = << >>]
  /\ log' = Append(log, Head(outbox[sd]))
  /\ inbox' = [c \in Client |->
       IF c \in Recipients(sd) /\ ~Gone(c) THEN Append(inbox[c], Head(outbox[sd])) ELSE inbox[c]]
  /\ UNCHANGED <<up, client_socket, conn>>

\* The messages of the client in slot n are read and sent; a send to a
\* client that has gone is lost, or raises SIGPIPE and ends the server.
Pass(n) ==
  LET sd == client_socket[n] IN
  /\ outbox[sd] # << >>
  /\ outbox' = [outbox EXCEPT ![sd] = << >>]
  /\ log' = log \o outbox[sd]
  /\ inbox' = [c \in Client |->
       IF c \in Recipients(sd) /\ ~Gone(c) THEN inbox[c] \o outbox[sd] ELSE inbox[c]]
  /\ up' \in IF \E c \in Recipients(sd) : Gone(c) THEN BOOLEAN ELSE {TRUE}
  /\ UNCHANGED <<client_socket, conn>>

\* The end of the connection frees the slot.  The chat server takes a reset
\* for an empty message; the read after it returns 0.
Hangup(n) ==
  LET sd == client_socket[n] IN
  /\ outbox[sd] = << >>
  /\ \/ /\ conn[sd] = "closed" \/ echo
        /\ client_socket' = [client_socket EXCEPT ![n] = None]
        /\ UNCHANGED conn
     \/ /\ conn[sd] = "reset" /\ ~echo
        /\ conn' = [conn EXCEPT ![sd] = "closed"]
        /\ UNCHANGED client_socket
  /\ UNCHANGED <<up, outbox, inbox, log>>

advance == i' = IF i = MAX_CLIENTS THEN None ELSE i + 1

io ==
  /\ up
  /\ i \in Slot
  /\ \/ i \in readfds /\ (Pass(i) \/ Hangup(i))
     \/ i \notin readfds /\ UNCHANGED <<up, client_socket, conn, outbox, inbox, log>>
  /\ advance
  /\ UNCHANGED <<echo, backlog, readfds, says, joined>>

Server == select \/ accept \/ io
-----------------------------------------------------------------------------
connect(c) ==
  /\ up
  /\ conn[c] = "none"
  /\ conn' = [conn EXCEPT ![c] = "open"]
  /\ backlog' = Append(backlog, c)
  /\ UNCHANGED <<echo, up, client_socket, readfds, i, says, outbox, inbox, log, joined>>

Said == {m \in Client \X (1 .. MaxSays) : m[2] <= says[m[1]]}

say(c) ==
  /\ conn[c] = "open"
  /\ says[c] < MaxSays
  /\ Cardinality(Said) < MaxTotal
  /\ says' = [says EXCEPT ![c] = @ + 1]
  /\ outbox' = [outbox EXCEPT ![c] = Append(@, <<c, says[c] + 1>>)]
  /\ UNCHANGED <<echo, up, backlog, client_socket, readfds, i, conn, inbox, log, joined>>

\* A client that leaves something unread resets its connection, and what it
\* sent last is lost with it.
leave(c) ==
  /\ conn[c] = "open"
  /\ \/ /\ conn' = [conn EXCEPT ![c] = "closed"]
        /\ UNCHANGED outbox
     \/ /\ inbox[c] # << >>
        /\ conn' = [conn EXCEPT ![c] = "reset"]
        /\ outbox' = [outbox EXCEPT ![c] = << >>]
  /\ UNCHANGED <<echo, up, backlog, client_socket, readfds, i, says, inbox, log, joined>>

Next == Server \/ \E c \in Client : connect(c) \/ say(c) \/ leave(c)

Spec == Init /\ [][Next]_vars
-----------------------------------------------------------------------------
Registered == {client_socket[n] : n \in Slot} \ {None}

TypeOK ==
  /\ echo \in BOOLEAN /\ up \in BOOLEAN
  /\ backlog \in Seq(Client)
  /\ client_socket \in [Slot -> Client \cup {None}]
  /\ readfds \subseteq 0 .. MAX_CLIENTS
  /\ i = None \/ i \in 0 .. MAX_CLIENTS
  /\ conn \in [Client -> {"none", "open", "closed", "reset"}]
  /\ says \in [Client -> 0 .. MaxSays]
  /\ outbox \in [Client -> Seq(Client \X (1 .. MaxSays))]
  /\ inbox \in [Client -> Seq(Client \X (1 .. MaxSays))]
  /\ log \in Seq(Client \X (1 .. MaxSays))
  /\ joined \in [Client -> 0 .. Len(log)]

\* A client that has a slot has been sent, in one order common to all of
\* them, every message of the others since it got the slot, once, and none
\* of its own; the echo server has sent it exactly its own.
HearsTheOthers ==
  \A c \in Registered : ~Gone(c) =>
    inbox[c] = SelectSeq(SubSeq(log, joined[c] + 1, Len(log)), LAMBDA m : (m[1] = c) <=> echo)

\* What an open client has said is what the server has read from it and
\* what still waits, in the order it was said.
NothingSaidIsLost ==
  \A c \in Client : conn[c] = "open" =>
    SelectSeq(log, LAMBDA m : m[1] = c) \o outbox[c] = [n \in 1 .. says[c] |-> <<c, n>>]

\* All that the clients with a slot have sent has been read, and the slots
\* of those that left are free.
Quiet == \A c \in Registered : outbox[c] = << >> /\ ~Gone(c)
=============================================================================
