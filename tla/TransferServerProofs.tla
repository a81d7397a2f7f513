------------------------ MODULE TransferServerProofs -----------------------
(***************************************************************************)
(* Two concurrent programs that share nothing.                             *)
(*                                                                         *)
(* RequestServer, for any number of clients and requests: every reply is   *)
(* the answer to the client's last request, and only a client that left    *)
(* before it had read everything takes a server down.                      *)
(*                                                                         *)
(* TwoPhaseLocking, for any number of threads, accounts and transfers:     *)
(* lock discipline, no overdraft, and refinement of Bank.                  *)
(***************************************************************************)
EXTENDS RequestServer, TwoPhaseLocking, TLAPS

\* Every server whose clients ask for one request after the other greets and
\* reads the connection to its end.
LEMMA PromptsGreetAndLoop ==
  ASSUME server \in DOMAIN Servers
  PROVE  P.prompts => P.greets /\ P.loops
<1> DEFINE unprompted == {tcp_server, uds_server, run_thread_mode, run_fork_mode,
                          rpc_server, rpc_hello_server, structured_rpc_server}
           prompting == {uds_kv_server, kvstore_server, uds_kv_server_perf_top}
<1>1. P \in unprompted \cup prompting
  BY DEF P, Servers
<1>2. \A p \in unprompted : ~p.prompts
  BY DEF Served, tcp_server, uds_server, run_thread_mode, run_fork_mode,
         rpc_server, rpc_hello_server, structured_rpc_server
<1>3. \A p \in prompting : p.greets /\ p.loops
  BY DEF Served, uds_kv_server, kvstore_server, uds_kv_server_perf_top
<1>4. QED
  BY <1>1, <1>2, <1>3

\* What depends on the server alone.
LEMMA SameServer ==
  ASSUME server' = server
  PROVE  P' = P /\ once' = once /\ forks' = forks
BY DEF P, once, forks

\* A step of one client, or of its worker, leaves the other conversations alone.
LEMMA OthersKept ==
  ASSUME RequestInv, NEW c \in Client,
         server' = server, early \subseteq early', backlog' = backlog,
         \A d \in Client \ {c} :
           /\ worker'[d] = worker[d] /\ client'[d] = client[d] /\ sent'[d] = sent[d]
           /\ up'[d] = up[d] /\ down'[d] = down[d],
         worker[c] = "none" => worker'[c] = "none",
         client'[c] = "start" => client[c] = "start",
         RequestTypeOK', DiesOnlyOfSigPipe', Conversation(c)', NotWrittenTo(c)'
  PROVE  RequestInv'
<1>1. P' = P
  BY SameServer
<1>2. \A d \in Client \ {c} : Conversation(d)'
  <2> SUFFICES ASSUME NEW d \in Client \ {c} PROVE Conversation(d)'
    OBVIOUS
  <2>1. Conversation(d)
    BY DEF RequestInv
  <2>2. QED
    BY <1>1, <2>1 DEF Conversation
<1>3. \A d \in Client \ {c} : NotWrittenTo(d)'
  <2> SUFFICES ASSUME NEW d \in Client \ {c} PROVE NotWrittenTo(d)'
    OBVIOUS
  <2>1. NotWrittenTo(d)
    BY DEF RequestInv
  <2>2. QED
    BY <1>1, <2>1 DEF NotWrittenTo
<1>4. BacklogInv'
  <2>1. \A n \in 1 .. Len(backlog) : backlog[n] \in Client
    BY DEF RequestInv, RequestTypeOK
  <2>2. \A n \in 1 .. Len(backlog) : worker'[backlog[n]] = "none" /\ client'[backlog[n]] # "start"
    BY <2>1 DEF RequestInv, BacklogInv
  <2>3. QED
    BY <2>2 DEF RequestInv, BacklogInv
<1>5. QED
  BY <1>2, <1>3, <1>4 DEF RequestInv

\* A client without a worker of its own yet is all that accept takes.
LEMMA AcceptKeeps ==
  ASSUME RequestInv, accept
  PROVE  RequestInv'
<1> DEFINE c == Head(backlog)
           w == IF P.greets THEN "greet" ELSE "read"
<1>1. /\ backlog # << >> /\ backlog \in Seq(Client)
      /\ worker' = [worker EXCEPT ![c] = w] /\ backlog' = Tail(backlog)
      /\ UNCHANGED <<server, alive, up, down, client, sent, early>>
  BY DEF accept, Worker, RequestInv, RequestTypeOK
<1>2. /\ c \in Client /\ c = backlog[1] /\ 1 \in 1 .. Len(backlog)
      /\ backlog' \in Seq(Client) /\ Len(backlog') = Len(backlog) - 1 /\ Len(backlog) \in Nat
      /\ \A n \in 1 .. Len(backlog') : backlog'[n] = backlog[n + 1]
  BY <1>1
<1>3. \A n \in 1 .. Len(backlog') : n + 1 \in 1 .. Len(backlog) /\ n + 1 # 1
  BY <1>2
<1>4. worker[c] = "none" /\ client[c] # "start"
  BY <1>2 DEF RequestInv, BacklogInv
<1> HIDE DEF c
<1>5. P' = P /\ once' = once
  BY <1>1, SameServer
<1>6. worker'[c] = w /\ \A d \in Client \ {c} : worker'[d] = worker[d]
  BY <1>1, <1>2 DEF RequestInv, RequestTypeOK
<1>7. RequestTypeOK'
  BY <1>1, <1>2 DEF RequestInv, RequestTypeOK
<1>8. DiesOnlyOfSigPipe'
  BY <1>1, <1>5 DEF RequestInv, DiesOnlyOfSigPipe
<1>9. BacklogInv'
  <2>1. \A n \in 1 .. Len(backlog') : backlog'[n] \in Client \ {c}
    BY <1>2, <1>3 DEF RequestInv, BacklogInv
  <2>2. \A n \in 1 .. Len(backlog') : worker'[backlog'[n]] = "none" /\ client'[backlog'[n]] # "start"
    BY <1>1, <1>2, <1>3, <1>6, <2>1 DEF RequestInv, BacklogInv
  <2>3. \A n, j \in 1 .. Len(backlog') : backlog'[n] = backlog'[j] => n = j
    <3>1. \A n, j \in 1 .. Len(backlog') : backlog[n + 1] = backlog[j + 1] => n + 1 = j + 1
      BY <1>3 DEF RequestInv, BacklogInv
    <3>2. QED
      BY <1>2, <3>1
  <2>4. QED
    BY <2>2, <2>3 DEF BacklogInv
<1>10. ASSUME NEW d \in Client PROVE Conversation(d)'
  <2>1. Conversation(d)
    BY DEF RequestInv
  <2>2. CASE d = c
    BY <1>1, <1>4, <1>5, <1>6, <2>1, <2>2 DEF Conversation
  <2>3. CASE d # c
    BY <1>1, <1>5, <1>6, <2>1, <2>3 DEF Conversation
  <2>4. QED
    BY <2>2, <2>3
<1>11. ASSUME NEW d \in Client PROVE NotWrittenTo(d)'
  <2>1. NotWrittenTo(d)
    BY DEF RequestInv
  <2>2. CASE d = c
    <3>1. client[c] = "closed" /\ c \notin early => up[c] = << >> /\ ~P.greets
      BY <1>2, <2>1, <2>2 DEF NotWrittenTo
    <3>2. ~P.greets => worker'[c] = "read"
      BY <1>6
    <3>3. QED
      BY <1>1, <1>5, <2>2, <3>1, <3>2 DEF NotWrittenTo
  <2>3. CASE d # c
    BY <1>1, <1>2, <1>3, <1>5, <1>6, <2>1, <2>3 DEF NotWrittenTo
  <2>4. QED
    BY <2>2, <2>3
<1>12. QED
  BY <1>7, <1>8, <1>9, <1>10, <1>11 DEF RequestInv

\* A write arrives, or its reader had closed early: then the write is lost or
\* ends the process that serves the client.
LEMMA WriteDoes ==
  ASSUME RequestInv, NEW c \in Client, NEW message \in 0 .. Exit, NEW label \in {"read", "close"},
         worker[c] \in {"greet", "answer"}, Write(c, message, label),
         UNCHANGED <<server, client, early>>
  PROVE  /\ alive' \in BOOLEAN
         /\ worker' \in [Client -> {"none", "greet", "read", "answer", "close", "closed"}]
         /\ down' \in [Client -> Seq(0 .. Exit)]
         /\ \A d \in Client \ {c} : worker'[d] = worker[d] /\ down'[d] = down[d]
         /\ DiesOnlyOfSigPipe'
         /\ client[c] # "closed" => worker'[c] = label /\ down'[c] = Append(down[c], message)
         /\ client[c] = "closed" => worker'[c] \in {label, "closed"} /\ c \in early
<1>1. RequestTypeOK
  BY DEF RequestInv
<1>2. client[c] = "closed" => c \in early
  BY DEF RequestInv, NotWrittenTo
<1>3. once' = once /\ forks \in BOOLEAN
  BY SameServer DEF forks
<1>4. CASE /\ client[c] # "closed"
           /\ down' = [down EXCEPT ![c] = Append(down[c], message)]
           /\ Worker(c, label) /\ UNCHANGED alive
  <2>1. Append(down[c], message) \in Seq(0 .. Exit)
    BY <1>1 DEF RequestTypeOK
  <2>2. DiesOnlyOfSigPipe'
    BY <1>3, <1>4 DEF RequestInv, DiesOnlyOfSigPipe
  <2>3. QED
    BY <1>1, <1>4, <2>1, <2>2 DEF RequestTypeOK, Worker
<1>5. CASE client[c] = "closed" /\ SigPipe(c)
  <2>1. c \in early'
    BY <1>2, <1>5
  <2>2. DiesOnlyOfSigPipe'
    BY <2>1 DEF DiesOnlyOfSigPipe
  <2>3. QED
    BY <1>1, <1>2, <1>3, <1>5, <2>2 DEF RequestTypeOK, Worker, SigPipe
<1>6. CASE client[c] = "closed" /\ Worker(c, label) /\ UNCHANGED <<alive, down>>
  <2>1. DiesOnlyOfSigPipe'
    BY <1>3, <1>6 DEF RequestInv, DiesOnlyOfSigPipe
  <2>2. QED
    BY <1>1, <1>2, <1>6, <2>1 DEF RequestTypeOK, Worker
<1>7. QED
  BY <1>4, <1>5, <1>6 DEF Write

\* Sequences of requests and of one message.
LEMMA HeadAndTail ==
  ASSUME NEW S, NEW s \in Seq(S), s # << >>
  PROVE  Head(s) \in S /\ Tail(s) \in Seq(S)
OBVIOUS

LEMMA OneMessage ==
  ASSUME NEW x
  PROVE  Head(<<x>>) = x /\ Tail(<<x>>) = << >>
OBVIOUS

LEMMA ExitIsNat == Exit \in Nat /\ 0 \in 0 .. Exit /\ MaxRequests \in 1 .. Exit
BY ServerAssumption DEF Exit

\* The greeting goes to a client that waits for it.
LEMMA GreetKeeps ==
  ASSUME RequestInv, NEW c \in Client, greet(c)
  PROVE  RequestInv'
<1>1. /\ worker[c] = "greet" /\ Write(c, Greeting, "read")
      /\ UNCHANGED <<server, backlog, up, client, sent, early>>
  BY DEF greet
<1>2. Greeting \in 0 .. Exit
  BY ExitIsNat DEF Greeting
<1>3. /\ alive' \in BOOLEAN
      /\ worker' \in [Client -> {"none", "greet", "read", "answer", "close", "closed"}]
      /\ down' \in [Client -> Seq(0 .. Exit)]
      /\ \A d \in Client \ {c} : worker'[d] = worker[d] /\ down'[d] = down[d]
      /\ DiesOnlyOfSigPipe'
      /\ client[c] # "closed" => worker'[c] = "read" /\ down'[c] = Append(down[c], Greeting)
      /\ client[c] = "closed" => worker'[c] \in {"read", "closed"} /\ c \in early
  BY <1>1, <1>2, WriteDoes
<1>4. RequestTypeOK'
  BY <1>1, <1>3 DEF RequestInv, RequestTypeOK
<1>5. Conversation(c)
  BY DEF RequestInv
<1>6. P' = P
  BY <1>1, SameServer
<1>7. client[c] = "greeting" => down[c] = << >>
  BY <1>1, <1>5 DEF Conversation
<1>8. Append(<< >>, Greeting) = <<Greeting>>
  OBVIOUS
<1>9. Conversation(c)'
  BY <1>1, <1>3, <1>5, <1>6, <1>7, <1>8 DEF Conversation
<1>10. NotWrittenTo(c)'
  BY <1>1, <1>3 DEF NotWrittenTo
<1>11. QED
  BY <1>1, <1>3, <1>4, <1>9, <1>10, OthersKept

\* A request, or the end of the connection.
LEMMA ReadKeeps ==
  ASSUME RequestInv, NEW c \in Client, read(c)
  PROVE  RequestInv'
<1>1. /\ worker[c] = "read"
      /\ \/ up[c] # << >> /\ worker' = [worker EXCEPT ![c] = "answer"]
         \/ client[c] = "closed" /\ worker' = [worker EXCEPT ![c] = "close"]
      /\ UNCHANGED <<server, alive, backlog, up, down, client, sent, early>>
  BY DEF read, Worker
<1>2. /\ \A d \in Client \ {c} : worker'[d] = worker[d]
      /\ \/ up[c] # << >> /\ worker'[c] = "answer"
         \/ client[c] = "closed" /\ worker'[c] = "close"
  BY <1>1 DEF RequestInv, RequestTypeOK
<1>3. RequestTypeOK'
  BY <1>1 DEF RequestInv, RequestTypeOK
<1>4. P' = P /\ once' = once
  BY <1>1, SameServer
<1>5. DiesOnlyOfSigPipe'
  BY <1>1, <1>4 DEF RequestInv, DiesOnlyOfSigPipe
<1>6. Conversation(c) /\ NotWrittenTo(c)
  BY DEF RequestInv
<1>7. Conversation(c)'
  BY <1>1, <1>2, <1>4, <1>6 DEF Conversation
<1>8. NotWrittenTo(c)'
  BY <1>1, <1>2, <1>4, <1>6 DEF NotWrittenTo
<1>9. QED
  BY <1>1, <1>2, <1>3, <1>5, <1>7, <1>8, OthersKept

\* The answer to the request at the head of the connection.
LEMMA AnswerKeeps ==
  ASSUME RequestInv, NEW c \in Client, answer(c)
  PROVE  RequestInv'
<1> DEFINE m == Head(up[c])
           label == IF m = Exit \/ ~P.loops THEN "close" ELSE "read"
<1>1. /\ worker[c] = "answer" /\ Write(c, m, label)
      /\ up' = [up EXCEPT ![c] = Tail(up[c])]
      /\ UNCHANGED <<server, backlog, client, sent, early>>
  BY DEF answer
<1>2. Conversation(c) /\ RequestTypeOK
  BY DEF RequestInv
<1>3. up[c] \in Seq(1 .. Exit) /\ up[c] # << >>
  BY <1>1, <1>2 DEF Conversation, RequestTypeOK
<1>4. m \in 1 .. Exit /\ Tail(up[c]) \in Seq(1 .. Exit)
  BY <1>3, HeadAndTail
<1>5. m \in 0 .. Exit /\ label \in {"read", "close"}
  BY <1>4, ExitIsNat
<1>6. up'[c] = Tail(up[c]) /\ \A d \in Client \ {c} : up'[d] = up[d]
  BY <1>1, <1>2 DEF RequestTypeOK
<1>7. up' \in [Client -> Seq(1 .. Exit)]
  BY <1>1, <1>2, <1>4 DEF RequestTypeOK
<1>8. client[c] = "reply" => m = sent[c] /\ Tail(up[c]) = << >> /\ down[c] = << >>
  <2>1. client[c] = "reply" => up[c] = <<sent[c]>> /\ down[c] = << >>
    BY <1>1, <1>2, <1>3 DEF Conversation
  <2>2. QED
    BY <2>1, OneMessage
<1>9. client[c] = "reply" /\ P.prompts => label = "read"
  <2>1. sent[c] # Exit
    BY <1>2, ServerAssumption DEF RequestTypeOK, Exit
  <2>2. P.prompts => P.loops
    BY <1>2, PromptsGreetAndLoop DEF RequestTypeOK
  <2>3. QED
    BY <1>8, <2>1, <2>2
<1> HIDE DEF m, label
<1>10. /\ alive' \in BOOLEAN
       /\ worker' \in [Client -> {"none", "greet", "read", "answer", "close", "closed"}]
       /\ down' \in [Client -> Seq(0 .. Exit)]
       /\ \A d \in Client \ {c} : worker'[d] = worker[d] /\ down'[d] = down[d]
       /\ DiesOnlyOfSigPipe'
       /\ client[c] # "closed" => worker'[c] = label /\ down'[c] = Append(down[c], m)
       /\ client[c] = "closed" => worker'[c] \in {label, "closed"} /\ c \in early
  BY <1>1, <1>5, WriteDoes
<1>11. RequestTypeOK'
  BY <1>1, <1>2, <1>7, <1>10 DEF RequestTypeOK
<1>12. P' = P
  BY <1>1, SameServer
<1>13. client[c] = "reply" => up'[c] = << >> /\ down'[c] = <<sent[c]>>
  <2>1. client[c] = "reply" => down'[c] = Append(<< >>, sent[c])
    BY <1>8, <1>10
  <2>2. QED
    BY <1>6, <1>8, <2>1
<1>14. Conversation(c)'
  <2>1. client[c] \notin {"start", "greeting", "prompt"}
    BY <1>1, <1>2, <1>3 DEF Conversation
  <2>2. worker'[c] # "answer"
    BY <1>5, <1>10
  <2>3. client[c] = "reply" => worker'[c] = label
    BY <1>10
  <2>4. QED
    BY <1>1, <1>5, <1>9, <1>12, <1>13, <2>1, <2>2, <2>3 DEF Conversation
<1>15. NotWrittenTo(c)'
  BY <1>1, <1>10 DEF NotWrittenTo
<1>16. QED
  BY <1>1, <1>6, <1>10, <1>11, <1>14, <1>15, OthersKept

\* The server closes the connection.
LEMMA CloseKeeps ==
  ASSUME RequestInv, NEW c \in Client, close(c)
  PROVE  RequestInv'
<1>1. /\ worker[c] = "close" /\ worker' = [worker EXCEPT ![c] = "closed"] /\ alive' = ~once
      /\ UNCHANGED <<server, backlog, up, down, client, sent, early>>
  BY DEF close, Worker
<1>2. worker'[c] = "closed" /\ \A d \in Client \ {c} : worker'[d] = worker[d]
  BY <1>1 DEF RequestInv, RequestTypeOK
<1>3. once' = once /\ once \in BOOLEAN /\ P' = P
  BY <1>1, SameServer DEF once
<1>4. RequestTypeOK'
  BY <1>1, <1>3 DEF RequestInv, RequestTypeOK
<1>5. DiesOnlyOfSigPipe'
  BY <1>1, <1>3 DEF DiesOnlyOfSigPipe
<1>6. Conversation(c) /\ NotWrittenTo(c)
  BY DEF RequestInv
<1>7. Conversation(c)'
  BY <1>1, <1>2, <1>3, <1>6 DEF Conversation
<1>8. NotWrittenTo(c)'
  BY <1>1, <1>2, <1>3, <1>6 DEF NotWrittenTo
<1>9. QED
  BY <1>1, <1>2, <1>4, <1>5, <1>7, <1>8, OthersKept

\* A client connects, once, or finds no server.
LEMMA ConnectKeeps ==
  ASSUME RequestInv, NEW c \in Client, connect(c)
  PROVE  RequestInv'
<1> DEFINE l == IF P.greets THEN "greeting" ELSE "prompt"
<1>1. /\ client[c] = "start"
      /\ \/ backlog' = Append(backlog, c) /\ client' = [client EXCEPT ![c] = l]
         \/ client' = [client EXCEPT ![c] = "closed"] /\ UNCHANGED backlog
      /\ UNCHANGED <<server, alive, worker, up, down, sent, early>>
  BY DEF connect, ClientAt
<1>2. RequestTypeOK /\ BacklogInv /\ Conversation(c) /\ backlog \in Seq(Client)
  BY DEF RequestInv, RequestTypeOK
<1>3. /\ worker[c] = "none" /\ up[c] = << >> /\ down[c] = << >>
      /\ \A n \in 1 .. Len(backlog) : backlog[n] # c
  BY <1>1, <1>2 DEF Conversation, BacklogInv
<1>4. P' = P /\ once' = once
  BY <1>1, SameServer
<1>5. DiesOnlyOfSigPipe'
  BY <1>1, <1>4 DEF RequestInv, DiesOnlyOfSigPipe
<1>6. CASE backlog' = Append(backlog, c) /\ client' = [client EXCEPT ![c] = l]
  <2>1. client'[c] = l /\ \A d \in Client \ {c} : client'[d] = client[d]
    BY <1>2, <1>6 DEF RequestTypeOK
  <2>2. /\ backlog' \in Seq(Client) /\ Len(backlog') = Len(backlog) + 1 /\ Len(backlog) \in Nat
        /\ backlog'[Len(backlog) + 1] = c
        /\ \A n \in 1 .. Len(backlog) : backlog'[n] = backlog[n]
    BY <1>2, <1>6
  <2>3. \A n \in 1 .. Len(backlog') : n \in 1 .. Len(backlog) \/ n = Len(backlog) + 1
    BY <2>2
  <2>4. RequestTypeOK'
    BY <1>1, <1>2, <1>6, <2>2 DEF RequestTypeOK
  <2>5. BacklogInv'
    <3>1. \A n \in 1 .. Len(backlog) : backlog[n] \in Client \ {c}
      BY <1>2, <1>3
    <3>2. \A n \in 1 .. Len(backlog') : worker'[backlog'[n]] = "none" /\ client'[backlog'[n]] # "start"
      BY <1>1, <1>2, <1>3, <2>1, <2>2, <2>3, <3>1 DEF BacklogInv
    <3>3. \A n, j \in 1 .. Len(backlog') : backlog'[n] = backlog'[j] => n = j
      BY <1>2, <1>3, <2>2, <2>3 DEF BacklogInv
    <3>4. QED
      BY <3>2, <3>3 DEF BacklogInv
  <2>6. ASSUME NEW d \in Client PROVE Conversation(d)'
    <3>1. CASE d = c
      BY <1>1, <1>3, <1>4, <2>1, <3>1 DEF Conversation
    <3>2. CASE d # c
      <4>1. Conversation(d)
        BY DEF RequestInv
      <4>2. QED
        BY <1>1, <1>4, <2>1, <3>2, <4>1 DEF Conversation
    <3>3. QED
      BY <3>1, <3>2
  <2>7. ASSUME NEW d \in Client PROVE NotWrittenTo(d)'
    <3>1. CASE d = c
      BY <2>1, <3>1 DEF NotWrittenTo
    <3>2. CASE d # c
      <4>1. NotWrittenTo(d)
        BY DEF RequestInv
      <4>2. QED
        BY <1>1, <1>4, <2>1, <2>2, <2>3, <3>2, <4>1 DEF NotWrittenTo
    <3>3. QED
      BY <3>1, <3>2
  <2>8. QED
    BY <1>5, <2>4, <2>5, <2>6, <2>7 DEF RequestInv
<1>7. CASE client' = [client EXCEPT ![c] = "closed"] /\ UNCHANGED backlog
  <2>1. client'[c] = "closed" /\ \A d \in Client \ {c} : client'[d] = client[d]
    BY <1>2, <1>7 DEF RequestTypeOK
  <2>2. RequestTypeOK'
    BY <1>1, <1>2, <1>7 DEF RequestTypeOK
  <2>3. Conversation(c)' /\ NotWrittenTo(c)'
    BY <1>1, <1>3, <1>7, <2>1 DEF Conversation, NotWrittenTo
  <2>4. QED
    BY <1>1, <1>5, <1>7, <2>1, <2>2, <2>3, OthersKept
<1>8. QED
  BY <1>1, <1>6, <1>7

\* The client reads the greeting.
LEMMA ReadGreetingKeeps ==
  ASSUME RequestInv, NEW c \in Client, read_greeting(c)
  PROVE  RequestInv'
<1>1. /\ client[c] = "greeting" /\ down[c] # << >>
      /\ down' = [down EXCEPT ![c] = Tail(down[c])]
      /\ client' = [client EXCEPT ![c] = "prompt"]
      /\ UNCHANGED <<server, alive, backlog, worker, up, sent, early>>
  BY DEF read_greeting, ClientAt
<1>2. RequestTypeOK /\ Conversation(c)
  BY DEF RequestInv
<1>3. /\ client'[c] = "prompt" /\ down'[c] = Tail(down[c])
      /\ \A d \in Client \ {c} : client'[d] = client[d] /\ down'[d] = down[d]
  BY <1>1, <1>2 DEF RequestTypeOK
<1>4. worker[c] = "read" /\ down[c] = <<Greeting>> /\ up[c] = << >>
  BY <1>1, <1>2 DEF Conversation
<1>5. Tail(down[c]) = << >>
  BY <1>4
<1>6. RequestTypeOK'
  BY <1>1, <1>2, <1>5 DEF RequestTypeOK
<1>7. P' = P /\ once' = once
  BY <1>1, SameServer
<1>8. DiesOnlyOfSigPipe'
  BY <1>1, <1>7 DEF RequestInv, DiesOnlyOfSigPipe
<1>9. Conversation(c)' /\ NotWrittenTo(c)'
  BY <1>1, <1>3, <1>4, <1>5 DEF Conversation, NotWrittenTo
<1>10. QED
  BY <1>1, <1>3, <1>6, <1>8, <1>9, OthersKept

\* The client sends its next request, or EXIT.
LEMMA SendKeeps ==
  ASSUME RequestInv, NEW c \in Client, send_request(c) \/ send_exit(c)
  PROVE  RequestInv'
<1>1. RequestTypeOK /\ Conversation(c)
  BY DEF RequestInv
<1>2. client[c] = "prompt"
  BY DEF send_request, send_exit
<1>3. /\ up[c] = << >> /\ down[c] = << >>
      /\ worker[c] = "read" \/ (worker[c] = "none" /\ ~P.greets)
  BY <1>1, <1>2 DEF Conversation
<1>4. CASE send_request(c)
  <2>1. /\ sent[c] < IF P.prompts THEN MaxRequests ELSE 1
        /\ sent' = [sent EXCEPT ![c] = sent[c] + 1]
        /\ up' = [up EXCEPT ![c] = Append(up[c], sent[c] + 1)]
        /\ client' = [client EXCEPT ![c] = "reply"]
        /\ UNCHANGED <<server, alive, backlog, worker, down, early>>
    BY <1>4 DEF send_request, ClientAt
  <2>2. sent[c] + 1 \in 0 .. MaxRequests /\ sent[c] + 1 \in 1 .. Exit
    BY <1>1, <2>1, ServerAssumption DEF RequestTypeOK, Exit
  <2>3. Append(up[c], sent[c] + 1) = <<sent[c] + 1>> /\ <<sent[c] + 1>> \in Seq(1 .. Exit)
    BY <1>3, <2>2
  <2>4. /\ client'[c] = "reply" /\ sent'[c] = sent[c] + 1 /\ up'[c] = <<sent[c] + 1>>
        /\ \A d \in Client \ {c} : client'[d] = client[d] /\ sent'[d] = sent[d] /\ up'[d] = up[d]
    BY <1>1, <2>1, <2>3 DEF RequestTypeOK
  <2>5. RequestTypeOK'
    BY <1>1, <2>1, <2>2, <2>3 DEF RequestTypeOK
  <2>6. P' = P /\ once' = once
    BY <2>1, SameServer
  <2>7. DiesOnlyOfSigPipe'
    BY <2>1, <2>6 DEF RequestInv, DiesOnlyOfSigPipe
  <2>8. <<sent[c] + 1>> # << >>
    OBVIOUS
  <2>9. Conversation(c)' /\ NotWrittenTo(c)'
    BY <1>3, <2>1, <2>4, <2>6, <2>8 DEF Conversation, NotWrittenTo
  <2>10. QED
    BY <2>1, <2>4, <2>5, <2>7, <2>9, OthersKept
<1>5. CASE send_exit(c)
  <2>1. /\ up' = [up EXCEPT ![c] = Append(up[c], Exit)]
        /\ client' = [client EXCEPT ![c] = "leaving"]
        /\ UNCHANGED <<server, alive, backlog, worker, down, sent, early>>
    BY <1>5 DEF send_exit, ClientAt
  <2>2. Exit \in 1 .. Exit
    BY ExitIsNat
  <2>3. Append(up[c], Exit) \in Seq(1 .. Exit)
    BY <1>1, <2>2 DEF RequestTypeOK
  <2>4. /\ client'[c] = "leaving"
        /\ \A d \in Client \ {c} : client'[d] = client[d] /\ up'[d] = up[d]
    BY <1>1, <2>1 DEF RequestTypeOK
  <2>5. RequestTypeOK'
    BY <1>1, <2>1, <2>3 DEF RequestTypeOK
  <2>6. once' = once
    BY <2>1, SameServer
  <2>7. DiesOnlyOfSigPipe'
    BY <2>1, <2>6 DEF RequestInv, DiesOnlyOfSigPipe
  <2>8. Conversation(c)' /\ NotWrittenTo(c)'
    BY <1>3, <2>1, <2>4 DEF Conversation, NotWrittenTo
  <2>9. QED
    BY <2>1, <2>4, <2>5, <2>7, <2>8, OthersKept
<1>6. QED
  BY <1>4, <1>5

\* The client reads the reply; one that asks once closes.
LEMMA ReadReplyKeeps ==
  ASSUME RequestInv, NEW c \in Client, read_reply(c)
  PROVE  RequestInv'
<1> DEFINE l == IF P.prompts THEN "prompt" ELSE "closed"
<1>1. /\ client[c] = "reply" /\ down[c] # << >>
      /\ down' = [down EXCEPT ![c] = Tail(down[c])]
      /\ client' = [client EXCEPT ![c] = l]
      /\ UNCHANGED <<server, alive, backlog, worker, up, sent, early>>
  BY DEF read_reply, ClientAt
<1>2. RequestTypeOK /\ Conversation(c) /\ BacklogInv
  BY DEF RequestInv
<1>3. /\ client'[c] = l /\ down'[c] = Tail(down[c])
      /\ \A d \in Client \ {c} : client'[d] = client[d] /\ down'[d] = down[d]
  BY <1>1, <1>2 DEF RequestTypeOK
<1>4. /\ up[c] = << >> /\ down[c] = <<sent[c]>> /\ worker[c] \in {"read", "close", "closed"}
      /\ P.prompts => worker[c] = "read"
  BY <1>1, <1>2 DEF Conversation
<1>5. Tail(down[c]) = << >>
  BY <1>4
<1>6. RequestTypeOK'
  BY <1>1, <1>2, <1>5 DEF RequestTypeOK
<1>7. P' = P /\ once' = once
  BY <1>1, SameServer
<1>8. DiesOnlyOfSigPipe'
  BY <1>1, <1>7 DEF RequestInv, DiesOnlyOfSigPipe
<1>9. \A n \in 1 .. Len(backlog) : backlog[n] # c
  BY <1>2, <1>4 DEF BacklogInv
<1>10. Conversation(c)'
  BY <1>1, <1>3, <1>4, <1>5 DEF Conversation
<1>11. NotWrittenTo(c)'
  BY <1>1, <1>3, <1>4, <1>9 DEF NotWrittenTo
<1>12. QED
  BY <1>1, <1>3, <1>6, <1>8, <1>10, <1>11, OthersKept

\* The client closes, early unless it owes nothing and is owed nothing.
LEMMA ClientCloses ==
  ASSUME RequestInv, NEW c \in Client, client[c] \in {"leaving", "greeting", "prompt", "reply"},
         Close(c)
  PROVE  RequestInv'
<1>1. /\ client' = [client EXCEPT ![c] = "closed"]
      /\ early' = IF client[c] = "prompt" THEN early ELSE early \cup {c}
      /\ UNCHANGED <<server, alive, backlog, worker, up, down, sent>>
  BY DEF Close, ClientAt
<1>2. RequestTypeOK /\ Conversation(c) /\ BacklogInv
  BY DEF RequestInv
<1>3. client'[c] = "closed" /\ \A d \in Client \ {c} : client'[d] = client[d]
  BY <1>1, <1>2 DEF RequestTypeOK
<1>4. early \subseteq early' /\ early' \subseteq Client
  BY <1>1, <1>2 DEF RequestTypeOK
<1>5. RequestTypeOK'
  BY <1>1, <1>2, <1>4 DEF RequestTypeOK
<1>6. P' = P /\ once' = once
  BY <1>1, SameServer
<1>7. DiesOnlyOfSigPipe'
  BY <1>1, <1>4, <1>6 DEF RequestInv, DiesOnlyOfSigPipe
<1>8. Conversation(c)'
  BY <1>1, <1>2, <1>3 DEF Conversation
<1>9. NotWrittenTo(c)'
  <2>1. CASE client[c] = "prompt"
    <3>1. up[c] = << >> /\ (worker[c] = "read" \/ (worker[c] = "none" /\ ~P.greets))
      BY <1>2, <2>1 DEF Conversation
    <3>2. worker[c] = "read" => \A n \in 1 .. Len(backlog) : backlog[n] # c
      BY <1>2 DEF BacklogInv
    <3>3. QED
      BY <1>1, <1>6, <3>1, <3>2 DEF NotWrittenTo
  <2>2. CASE client[c] # "prompt"
    BY <1>1, <2>2 DEF NotWrittenTo
  <2>3. QED
    BY <2>1, <2>2
<1>10. QED
  BY <1>1, <1>3, <1>4, <1>5, <1>7, <1>8, <1>9, OthersKept

LEMMA RequestInitially == RequestInit => RequestInv
<1> SUFFICES ASSUME RequestInit PROVE RequestInv
  OBVIOUS
<1>1. RequestTypeOK
  BY ServerAssumption DEF RequestInit, RequestTypeOK
<1>2. BacklogInv /\ DiesOnlyOfSigPipe
  BY DEF RequestInit, BacklogInv, DiesOnlyOfSigPipe
<1>3. \A c \in Client : Conversation(c) /\ NotWrittenTo(c)
  BY DEF RequestInit, Conversation, NotWrittenTo
<1>4. QED
  BY <1>1, <1>2, <1>3 DEF RequestInv

LEMMA RequestKeeps ==
  ASSUME RequestInv, [RequestNext]_requestVars
  PROVE  RequestInv'
<1>1. CASE UNCHANGED requestVars
  BY <1>1, SameServer
  DEF requestVars, RequestInv, RequestTypeOK, BacklogInv, DiesOnlyOfSigPipe, Conversation, NotWrittenTo
<1>2. CASE accept
  BY <1>2, AcceptKeeps
<1>3. ASSUME NEW c \in Client, Serve(c)
      PROVE  RequestInv'
  BY <1>3, GreetKeeps, ReadKeeps, AnswerKeeps, CloseKeeps DEF Serve
<1>4. ASSUME NEW c \in Client, ClientStep(c)
      PROVE  RequestInv'
  <2>1. CASE leave(c)
    <3>1. client[c] \in {"leaving", "greeting", "prompt", "reply"} /\ Close(c)
      BY <2>1 DEF leave
    <3>2. QED
      BY <3>1, ClientCloses
  <2>2. QED
    BY <1>4, <2>1, ConnectKeeps, ReadGreetingKeeps, SendKeeps, ReadReplyKeeps DEF ClientStep
<1>5. ASSUME NEW c \in Client, killed(c)
      PROVE  RequestInv'
  BY <1>5, ClientCloses DEF killed
<1>6. QED
  BY <1>1, <1>2, <1>3, <1>4, <1>5 DEF RequestNext

\* The ten request servers: a reply that a client reads is the answer to its
\* last request, and a server that loops for ever ends only through a client
\* that closed before it had read what is written to it.
THEOREM OwnAnswerHolds == RequestSpec => []OwnAnswer
<1>1. RequestInv => OwnAnswer
  <2>1. RequestInv => RepliesInStep
    BY DEF RequestInv, Conversation, RepliesInStep
  <2>2. QED
    BY <2>1 DEF RequestInv, OwnAnswer
<1>2. QED
  BY <1>1, RequestInitially, RequestKeeps, PTL DEF RequestSpec

-----------------------------------------------------------------------------
(* The transfers *)

\* What Append returns, and when two sequences are one.
LEMMA AppendIs ==
  ASSUME NEW S, NEW s \in Seq(S), NEW e \in S
  PROVE  /\ Append(s, e) \in Seq(S)
         /\ Len(Append(s, e)) = Len(s) + 1
         /\ \A m \in 1 .. Len(s) : Append(s, e)[m] = s[m]
         /\ Append(s, e)[Len(s) + 1] = e
OBVIOUS

LEMMA SameSeq ==
  ASSUME NEW S, NEW s \in Seq(S), NEW t \in Seq(S), Len(s) = Len(t),
         \A m \in 1 .. Len(s) : s[m] = t[m]
  PROVE  s = t
OBVIOUS

\* The entries of a sequence, and of one with a single entry.
LEMMA Entries ==
  ASSUME NEW S, NEW s \in Seq(S)
  PROVE  \A m \in DOMAIN s : s[m] \in S
OBVIOUS

LEMMA OneEntry == \A x : DOMAIN <<x>> = {1} /\ <<x>>[1] = x
OBVIOUS

LEMMA ShortSeqs ==
  ASSUME NEW S, NEW x \in S, NEW y \in S
  PROVE  /\ Append(<<x>>, y) = <<x, y>>
         /\ SubSeq(<<x, y>>, 1, 1) = <<x>>
         /\ DOMAIN <<x, y>> = {1, 2}
<1>1. <<x>> \in Seq(S) /\ <<x, y>> \in Seq(S)
  OBVIOUS
<1>2. Append(<<x>>, y) = <<x, y>>
  <2> DEFINE a == Append(<<x>>, y)
  <2>1. a \in Seq(S) /\ Len(a) = 2 /\ a[1] = x /\ a[2] = y
    BY <1>1, AppendIs
  <2>2. Len(<<x, y>>) = 2 /\ \A m \in 1 .. 2 : a[m] = <<x, y>>[m]
    BY <2>1
  <2> HIDE DEF a
  <2>3. a = <<x, y>>
    BY <1>1, <2>1, <2>2, SameSeq
  <2> QED
    BY <2>3 DEF a
<1>3. SubSeq(<<x, y>>, 1, 1) = <<x>>
  <2> DEFINE a == SubSeq(<<x, y>>, 1, 1)
  <2>1. \A m \in 1 .. 1 : <<x, y>>[m] \in S
    OBVIOUS
  <2>2. a \in Seq(S) /\ Len(a) = 1 /\ a[1] = x
    BY <2>1
  <2>3. Len(<<x>>) = 1 /\ \A m \in 1 .. 1 : a[m] = <<x>>[m]
    BY <2>2
  <2> HIDE DEF a
  <2>4. a = <<x>>
    BY <1>1, <2>2, <2>3, SameSeq
  <2> QED
    BY <2>4 DEF a
<1>4. DOMAIN <<x, y>> = {1, 2}
  OBVIOUS
<1> QED
  BY <1>2, <1>3, <1>4

LEMMA TwoHeld ==
  ASSUME NEW t, NEW h, NEW x, NEW y, NEW ids, ids = <<x, y>>, h[x] = t, h[y] = t
  PROVE  \A m \in DOMAIN ids : h[ids[m]] = t
OBVIOUS

\* The two ids of tx_transfer are those of the accounts, in some order.
LEMMA IdFacts ==
  ASSUME TypeOK, NEW t \in Thread, from[t] # to[t]
  PROVE  /\ FirstId(t) \in Account /\ SecondId(t) \in Account
         /\ FirstId(t) # SecondId(t)
         /\ {FirstId(t), SecondId(t)} = {from[t], to[t]}
BY DEF TypeOK, FirstId, SecondId, Account

LEMMA InitInv == Init => IInv
<1> SUFFICES ASSUME Init PROVE IInv
  OBVIOUS
<1> USE TransferAssumption DEF Init
<1>1. << >> \in Seq(Account)
  OBVIOUS
<1>2. TypeOK
  BY <1>1 DEF TypeOK, Account, PC
<1>3. LockDiscipline
  BY DEF LockDiscipline, Drawn, LockedIds, HoldsLocked, Loaded
<1> QED
  BY <1>2, <1>3 DEF IInv

\* Between the locks and the commit a thread holds the mutexes of both of its
\* accounts.
LEMMA HoldsBoth ==
  ASSUME IInv, NEW t \in Thread, pc[t] \in {"check", "debit", "credit"}
  PROVE  holder[from[t]] = t /\ holder[to[t]] = t
<1>1. locked_ids[t] = <<FirstId(t), SecondId(t)>> /\ from[t] # to[t]
  BY DEF IInv, LockDiscipline, LockedIds, Drawn
<1>2. holder[FirstId(t)] = t /\ holder[SecondId(t)] = t
  <2>1. DOMAIN locked_ids[t] = {1, 2}
    BY <1>1
  <2> QED
    BY <1>1, <2>1 DEF IInv, LockDiscipline, HoldsLocked
<1> QED
  BY <1>1, <1>2, IdFacts DEF IInv

\* A step of another thread leaves a thread's part of the discipline alone
\* as long as it changes no mutex that the thread holds and no account that
\* it has locked.
LEMMA OtherThread ==
  ASSUME IInv, NEW u \in Thread,
         pc'[u] = pc[u], locked_ids'[u] = locked_ids[u], from'[u] = from[u],
         to'[u] = to[u], amount'[u] = amount[u], reg'[u] = reg[u],
         left'[u] = left[u],
         \A a \in Account : holder[a] = u => holder'[a] = u /\ accounts'[a] = accounts[a]
  PROVE  (Drawn(u) /\ LockedIds(u) /\ HoldsLocked(u) /\ Loaded(u))'
<1>1. Drawn(u)'
  BY DEF IInv, LockDiscipline, Drawn
<1>2. LockedIds(u)'
  BY DEF IInv, LockDiscipline, LockedIds, FirstId, SecondId
<1>3. HoldsLocked(u)'
  <2>1. \A m \in DOMAIN locked_ids[u] : locked_ids[u][m] \in Account
    <3>1. locked_ids[u] \in Seq(Account)
      BY DEF IInv, TypeOK
    <3> QED
      BY <3>1, Entries, Zenon
  <2> QED
    BY <2>1 DEF IInv, LockDiscipline, HoldsLocked
<1>4. Loaded(u)'
  BY HoldsBoth DEF IInv, TypeOK, LockDiscipline, Loaded
<1> QED
  BY <1>1, <1>2, <1>3, <1>4

\* To preserve the discipline it is enough that the step is harmless to the
\* other threads and leaves its own thread's part true.
LEMMA Discipline ==
  ASSUME IInv, NEW t \in Thread,
         \A u \in Thread \ {t} :
           /\ pc'[u] = pc[u] /\ locked_ids'[u] = locked_ids[u]
           /\ from'[u] = from[u] /\ to'[u] = to[u] /\ amount'[u] = amount[u]
           /\ reg'[u] = reg[u] /\ left'[u] = left[u]
           /\ \A a \in Account :
                holder[a] = u => holder'[a] = u /\ accounts'[a] = accounts[a],
         Drawn(t)', LockedIds(t)', HoldsLocked(t)', Loaded(t)'
  PROVE  LockDiscipline'
BY OtherThread DEF LockDiscipline

LEMMA BeginStep ==
  ASSUME IInv, NEW t \in Thread, tx_begin(t)
  PROVE  IInv'
<1> USE TransferAssumption DEF IInv, tx_begin
<1>1. << >> \in Seq(Account)
  OBVIOUS
<1>2. TypeOK'
  <2>1. PICK f \in Account, g \in Account, x \in Amount :
          /\ from' = [from EXCEPT ![t] = f]
          /\ to' = [to EXCEPT ![t] = g]
          /\ amount' = [amount EXCEPT ![t] = x]
    OBVIOUS
  <2>2. pc' \in [Thread -> PC]
    BY DEF TypeOK, PC
  <2>3. left' \in [Thread -> 0 .. Transfers]
    <3>1. left[t] - 1 \in 0 .. Transfers
      BY DEF TypeOK
    <3> QED
      BY <3>1 DEF TypeOK
  <2> QED
    BY <1>1, <2>1, <2>2, <2>3 DEF TypeOK
<1>3. LockDiscipline'
  <2>1. Drawn(t)'
    BY DEF TypeOK, Drawn
  <2>2. locked_ids'[t] = << >> /\ pc'[t] \in {"worker", "lock_a"}
    BY DEF TypeOK
  <2>3. LockedIds(t)' /\ HoldsLocked(t)' /\ Loaded(t)'
    BY <2>2 DEF LockedIds, HoldsLocked, Loaded
  <2> QED
    BY <2>1, <2>3, Discipline DEF TypeOK
<1> QED
  BY <1>2, <1>3

LEMMA LockStep ==
  ASSUME IInv, NEW t \in Thread, lock_a(t) \/ lock_b(t)
  PROVE  IInv'
<1> USE TransferAssumption DEF IInv, tx_lock_record, args
<1>1. from[t] # to[t]
  BY DEF lock_a, lock_b, LockDiscipline, Drawn
<1>2. FirstId(t) \in Account /\ SecondId(t) \in Account /\ FirstId(t) # SecondId(t)
  BY <1>1, IdFacts
<1>3. CASE lock_a(t)
  <2> USE <1>3 DEF lock_a
  <2>1. locked_ids[t] = << >>
    BY DEF LockDiscipline, LockedIds
  <2>2. locked_ids'[t] = <<FirstId(t)>> /\ holder'[FirstId(t)] = t
    BY <2>1, <1>2 DEF TypeOK
  <2>3. TypeOK'
    BY <1>2 DEF TypeOK, PC
  <2>4. Drawn(t)' /\ LockedIds(t)' /\ HoldsLocked(t)' /\ Loaded(t)'
    BY <2>2 DEF LockDiscipline, Drawn, LockedIds, HoldsLocked, Loaded, TypeOK, FirstId
  <2>5. LockDiscipline'
    BY <1>2, <2>4, Discipline DEF TypeOK
  <2> QED
    BY <2>3, <2>5
<1>4. CASE lock_b(t)
  <2> USE <1>4 DEF lock_b
  <2>1. locked_ids[t] = <<FirstId(t)>> /\ holder[FirstId(t)] = t
    BY DEF LockDiscipline, LockedIds, HoldsLocked
  <2>2. /\ locked_ids'[t] = <<FirstId(t), SecondId(t)>>
        /\ holder'[FirstId(t)] = t /\ holder'[SecondId(t)] = t
    <3>1. locked_ids'[t] = Append(locked_ids[t], SecondId(t))
      BY DEF TypeOK
    <3>2. locked_ids'[t] = <<FirstId(t), SecondId(t)>>
      BY <3>1, <2>1, <1>2, ShortSeqs
    <3>3. holder'[FirstId(t)] = t /\ holder'[SecondId(t)] = t
      BY <2>1, <1>2 DEF TypeOK
    <3> QED
      BY <3>2, <3>3
  <2>3. TypeOK'
    BY <1>2 DEF TypeOK, PC
  <2>4. Drawn(t)' /\ Loaded(t)'
    BY DEF LockDiscipline, Drawn, Loaded, TypeOK
  <2>5. LockedIds(t)' /\ HoldsLocked(t)'
    <3>1. LockedIds(t)'
      BY <2>2 DEF LockedIds, TypeOK, FirstId, SecondId
    <3>2. DOMAIN locked_ids'[t] = {1, 2}
      BY <2>2
    <3> QED
      <4>1. \A m \in DOMAIN locked_ids'[t] : holder'[locked_ids'[t][m]] = t
        <5> DEFINE ids == locked_ids'[t]
                   h == holder'
                   x == FirstId(t)
                   y == SecondId(t)
        <5>1. ids = <<x, y>> /\ h[x] = t /\ h[y] = t
          BY <2>2
        <5> HIDE DEF ids, h, x, y
        <5>2. \A m \in DOMAIN ids : h[ids[m]] = t
          BY <5>1, TwoHeld
        <5> QED
          BY <5>2 DEF ids, h
      <4> QED
        BY <3>1, <4>1 DEF HoldsLocked
  <2>6. LockDiscipline'
    BY <1>2, <2>4, <2>5, Discipline DEF TypeOK
  <2> QED
    BY <2>3, <2>6
<1> QED
  BY <1>3, <1>4

LEMMA AccessStep ==
  ASSUME IInv, NEW t \in Thread, check(t) \/ debit(t) \/ credit(t)
  PROVE  IInv'
<1> USE TransferAssumption DEF IInv, args
<1>1. holder[from[t]] = t /\ holder[to[t]] = t /\ from[t] # to[t]
  BY HoldsBoth DEF check, debit, credit, LockDiscipline, Drawn
<1>2. TypeOK'
  <2>1. CASE check(t)
    BY <2>1 DEF check, TypeOK, PC
  <2>2. CASE debit(t)
    <3>1. reg[t] - amount[t] \in Nat
      BY <2>2 DEF debit, LockDiscipline, Loaded, TypeOK
    <3> QED
      BY <2>2, <3>1 DEF debit, TypeOK, PC
  <2>3. CASE credit(t)
    BY <2>3 DEF credit, TypeOK, PC
  <2> QED
    BY <2>1, <2>2, <2>3
<1>3. Drawn(t)'
  BY DEF check, debit, credit, LockDiscipline, Drawn, TypeOK
<1>4. LockedIds(t)'
  BY DEF check, debit, credit, LockDiscipline, LockedIds, TypeOK, FirstId, SecondId
<1>5. HoldsLocked(t)'
  BY DEF check, debit, credit, LockDiscipline, HoldsLocked, TypeOK
<1>6. Loaded(t)'
  BY <1>1 DEF check, debit, credit, LockDiscipline, Loaded, TypeOK
<1>7. \A u \in Thread \ {t} :
           /\ pc'[u] = pc[u] /\ locked_ids'[u] = locked_ids[u]
           /\ from'[u] = from[u] /\ to'[u] = to[u] /\ amount'[u] = amount[u]
           /\ reg'[u] = reg[u] /\ left'[u] = left[u]
           /\ \A a \in Account :
                holder[a] = u => holder'[a] = u /\ accounts'[a] = accounts[a]
  BY <1>1 DEF check, debit, credit, TypeOK
<1>8. LockDiscipline'
  BY <1>3, <1>4, <1>5, <1>6, <1>7, Discipline
<1> QED
  BY <1>2, <1>8

LEMMA CommitStep ==
  ASSUME IInv, NEW t \in Thread, tx_commit(t)
  PROVE  IInv'
<1> USE TransferAssumption DEF IInv, args
<1> DEFINE n == Len(locked_ids[t])
<1>1. /\ from[t] # to[t] /\ left[t] > 0
      /\ locked_ids[t] \in {<<FirstId(t)>>, <<FirstId(t), SecondId(t)>>}
      /\ pc[t] = "commit"
  BY DEF tx_commit, LockDiscipline, Drawn, LockedIds
<1>2. FirstId(t) \in Account /\ SecondId(t) \in Account /\ FirstId(t) # SecondId(t)
  BY <1>1, IdFacts
<1>3. holder[locked_ids[t][n]] = t /\ locked_ids[t][n] \in Account
  <2>1. n \in DOMAIN locked_ids[t]
    <3>1. CASE locked_ids[t] = <<FirstId(t)>>
      BY <3>1
    <3>2. CASE locked_ids[t] = <<FirstId(t), SecondId(t)>>
      BY <3>2
    <3> QED
      BY <1>1, <3>1, <3>2
  <2> QED
    BY <2>1 DEF LockDiscipline, HoldsLocked, TypeOK
<1>4. \A u \in Thread \ {t} :
           /\ pc'[u] = pc[u] /\ locked_ids'[u] = locked_ids[u]
           /\ from'[u] = from[u] /\ to'[u] = to[u] /\ amount'[u] = amount[u]
           /\ reg'[u] = reg[u] /\ left'[u] = left[u]
           /\ \A a \in Account :
                holder[a] = u => holder'[a] = u /\ accounts'[a] = accounts[a]
  BY <1>3 DEF tx_commit, TypeOK
<1>5. holder' \in [Account -> Thread \cup {None}]
  BY DEF tx_commit, TypeOK
<1>6. CASE n = 1
  <2>1. locked_ids[t] = <<FirstId(t)>>
    BY <1>1, <1>6
  <2>2. /\ locked_ids'[t] = << >> /\ pc'[t] = "worker" /\ left'[t] = left[t] - 1
        /\ left' = [left EXCEPT ![t] = left[t] - 1]
        /\ pc' = [pc EXCEPT ![t] = "worker"]
        /\ locked_ids' = [locked_ids EXCEPT ![t] = << >>]
    <3>1. /\ locked_ids' = [locked_ids EXCEPT ![t] = SubSeq(locked_ids[t], 1, n - 1)]
          /\ pc' = [pc EXCEPT ![t] = "worker"]
          /\ left' = [left EXCEPT ![t] = left[t] - 1]
      BY <1>6 DEF tx_commit
    <3>2. SubSeq(<<FirstId(t)>>, 1, 0) = << >>
      BY <1>2
    <3>3. SubSeq(locked_ids[t], 1, n - 1) = << >>
      BY <1>6, <2>1, <3>2
    <3>4. locked_ids' = [locked_ids EXCEPT ![t] = << >>]
      BY <3>1, <3>3, Zenon
    <3> HIDE DEF n
    <3> QED
      BY <3>1, <3>4 DEF TypeOK
  <2>3. locked_ids' \in [Thread -> Seq(Account)]
    <3>1. << >> \in Seq(Account) /\ locked_ids \in [Thread -> Seq(Account)]
      BY DEF TypeOK
    <3> HIDE DEF n, IInv
    <3> QED
      BY <2>2, <3>1
  <2>4. TypeOK'
    BY <1>1, <1>5, <2>2, <2>3 DEF tx_commit, TypeOK, PC
  <2>5. Drawn(t)' /\ LockedIds(t)' /\ HoldsLocked(t)' /\ Loaded(t)'
    <3>1. Drawn(t)' /\ LockedIds(t)'
      BY <2>2 DEF Drawn, LockedIds
    <3>2. DOMAIN locked_ids'[t] = {}
      BY <2>2
    <3>3. HoldsLocked(t)'
      BY <3>2 DEF HoldsLocked
    <3>4. Loaded(t)'
      BY <2>2 DEF Loaded
    <3> QED
      BY <3>1, <3>3, <3>4
  <2> QED
    BY <2>4, <2>5, <1>4, Discipline
<1>7. CASE n > 1
  <2>1. locked_ids[t] = <<FirstId(t), SecondId(t)>> /\ n = 2
    BY <1>1, <1>7
  <2>2. /\ locked_ids'[t] = <<FirstId(t)>> /\ UNCHANGED <<pc, left, accounts, args, reg>>
        /\ holder' = [holder EXCEPT ![SecondId(t)] = None]
    <3>1. /\ locked_ids'[t] = SubSeq(locked_ids[t], 1, n - 1)
          /\ holder' = [holder EXCEPT ![locked_ids[t][n]] = None]
          /\ UNCHANGED <<pc, left, accounts, args, reg>>
      BY <1>7 DEF tx_commit, TypeOK
    <3>2. SubSeq(<<FirstId(t), SecondId(t)>>, 1, 1) = <<FirstId(t)>>
      BY <1>2, ShortSeqs
    <3>3. locked_ids[t][n] = SecondId(t)
      BY <2>1
    <3>4. n - 1 = 1
      BY <2>1
    <3> HIDE DEF n, IInv
    <3>5. locked_ids'[t] = <<FirstId(t)>>
      BY <2>1, <3>1, <3>2, <3>4, Zenon
    <3> QED
      BY <3>1, <3>3, <3>5, Zenon
  <2>3. locked_ids' \in [Thread -> Seq(Account)]
    <3>1. <<FirstId(t)>> \in Seq(Account) /\ locked_ids \in [Thread -> Seq(Account)]
      BY <1>2 DEF TypeOK
    <3>2. locked_ids' = [locked_ids EXCEPT ![t] = <<FirstId(t)>>]
      BY <2>2 DEF tx_commit, TypeOK
    <3> HIDE DEF n, IInv
    <3> QED
      BY <3>1, <3>2
  <2>4. TypeOK'
    BY <1>5, <2>2, <2>3 DEF TypeOK
  <2>5. Drawn(t)' /\ Loaded(t)'
    BY <2>2 DEF LockDiscipline, Drawn, Loaded
  <2>6. LockedIds(t)'
    BY <1>1, <2>2 DEF LockedIds, FirstId, SecondId
  <2>7. HoldsLocked(t)'
    <3>1. 1 \in DOMAIN locked_ids[t] /\ locked_ids[t][1] = FirstId(t)
      BY <2>1
    <3>2. holder[FirstId(t)] = t
      BY <3>1 DEF LockDiscipline, HoldsLocked
    <3>3. holder'[FirstId(t)] = t
      BY <3>2, <1>2, <2>2 DEF TypeOK
    <3>4. DOMAIN locked_ids'[t] = {1} /\ locked_ids'[t][1] = FirstId(t)
      BY <2>2, OneEntry, Zenon
    <3> QED
      BY <3>3, <3>4 DEF HoldsLocked
  <2> QED
    BY <2>4, <2>5, <2>6, <2>7, <1>4, Discipline
<1> QED
  BY <1>1, <1>6, <1>7

LEMMA NextInv == IInv /\ [Next]_vars => IInv'
<1> SUFFICES ASSUME IInv, [Next]_vars PROVE IInv'
  OBVIOUS
<1>1. CASE UNCHANGED vars
  <2>1. TypeOK'
    BY <1>1 DEF vars, IInv, TypeOK
  <2>2. LockDiscipline'
    BY <1>1 DEF vars, IInv, LockDiscipline, Drawn, LockedIds, HoldsLocked, Loaded,
      FirstId, SecondId
  <2> QED
    BY <2>1, <2>2 DEF IInv
<1> QED
  BY <1>1, BeginStep, LockStep, AccessStep, CommitStep DEF Next, Step, Finished

\* The inductive invariant holds throughout every run of the transfers.
THEOREM Invariance == Spec => []IInv
<1>1. Init => IInv
  BY InitInv
<1>2. IInv /\ [Next]_vars => IInv'
  BY NextInv
<1> QED
  BY <1>1, <1>2, PTL DEF Spec

\* Types; in particular no account of 2pl.c is ever overdrawn.
THEOREM NoOverdraft == Spec => []TypeOK
<1>1. IInv => TypeOK
  BY DEF IInv
<1> QED
  BY <1>1, Invariance, PTL

\* tx_transfer reads and writes its two accounts under both of their mutexes
\* and on values no other thread has changed since it loaded them.
THEOREM LockDisciplineHolds == Spec => []LockDiscipline
<1>1. IInv => LockDiscipline
  BY DEF IInv
<1> QED
  BY <1>1, Invariance, PTL

\* At most one thread is about to credit an account.
LEMMA OneCrediting ==
  ASSUME IInv, NEW a \in Account, NEW t \in Crediting(a)
  PROVE  Crediting(a) = {t}
<1>1. \A u \in Crediting(a) : u \in Thread /\ holder[a] = u
  BY HoldsBoth DEF Crediting
<1> QED
  BY <1>1

\* settled, without CHOOSE.
LEMMA SettledIs ==
  ASSUME IInv, NEW a \in Account
  PROVE  /\ Crediting(a) = {} => settled[a] = accounts[a]
         /\ \A t \in Crediting(a) : settled[a] = accounts[a] + amount[t]
<1>1. ASSUME NEW t \in Crediting(a) PROVE settled[a] = accounts[a] + amount[t]
  <2>1. Crediting(a) = {t}
    BY <1>1, OneCrediting
  <2>2. AnyOf({t}) = t
    BY DEF AnyOf
  <2> QED
    BY <2>1, <2>2 DEF settled
<1> QED
  BY <1>1 DEF settled

\* A step that moves no money, and starts or ends no credit, is a stutter.
LEMMA QuietStep ==
  ASSUME IInv, IInv', accounts' = accounts,
         \A u \in Thread : pc'[u] = "credit" <=> pc[u] = "credit",
         \A u \in Thread : pc[u] = "credit" => to'[u] = to[u] /\ amount'[u] = amount[u]
  PROVE  settled' = settled
<1>1. \A a \in Account : Crediting(a)' = Crediting(a)
  BY DEF Crediting
<1>2. \A a \in Account : settled'[a] = settled[a]
  <2> SUFFICES ASSUME NEW a \in Account PROVE settled'[a] = settled[a]
    OBVIOUS
  <2>1. CASE Crediting(a) = {}
    BY <2>1, <1>1 DEF settled
  <2>2. CASE Crediting(a) # {}
    <3>1. AnyOf(Crediting(a)) \in Crediting(a)
      BY <2>2 DEF AnyOf
    <3> QED
      <4>1. amount'[AnyOf(Crediting(a))] = amount[AnyOf(Crediting(a))]
        BY <3>1 DEF Crediting
      <4> QED
        BY <2>2, <4>1, <1>1 DEF settled
  <2> QED
    BY <2>1, <2>2
<1> QED
  BY <1>2 DEF settled

\* The debit is the point at which a transfer takes effect.
LEMMA DebitIsTransfer ==
  ASSUME IInv, IInv', NEW t \in Thread, debit(t)
  PROVE  B!Transfer(from[t], to[t], amount[t])
<1>0. PICK f \in Account, g \in Account : f = from[t] /\ g = to[t]
  BY DEF IInv, TypeOK
<1>1. /\ f # g /\ f \in Account /\ g \in Account
      /\ holder[f] = t /\ holder[g] = t
      /\ reg[t] = accounts[f] /\ reg[t] >= amount[t]
  BY <1>0, HoldsBoth DEF debit, IInv, LockDiscipline, Drawn, Loaded, TypeOK
<1>2. Crediting(f) = {} /\ Crediting(g) = {}
  <2>1. \A u \in Thread : pc[u] = "credit" => u # t
    BY DEF debit
  <2>2. \A u \in Thread : pc[u] = "credit" => holder[to[u]] = u
    BY HoldsBoth
  <2> QED
    BY ONLY <1>1, <2>1, <2>2 DEF Crediting
<1>3. /\ Crediting(g)' = {t} /\ Crediting(f)' = {}
      /\ \A a \in Account \ {f, g} : Crediting(a)' = Crediting(a)
  <2>1. pc \in [Thread -> PC] /\ pc' = [pc EXCEPT ![t] = "credit"] /\ pc[t] = "debit"
    BY DEF debit, IInv, TypeOK
  <2>2. to' = to /\ to[t] = g
    BY <1>0 DEF debit, args
  <2>3. \A a : Crediting(a)' = {u \in Thread : pc'[u] = "credit" /\ to[u] = a}
    BY <2>2 DEF Crediting
  <2> QED
    BY <2>1, <2>2, <2>3, <1>1, <1>2 DEF Crediting
<1>4. settled[f] = accounts[f] /\ settled[g] = accounts[g]
  BY <1>1, <1>2 DEF settled
<1>5. settled'[f] = settled[f] - amount[t]
  <2>1. settled'[f] = accounts'[f]
    BY <1>1, <1>3 DEF settled
  <2> QED
    BY <2>1, <1>0, <1>1, <1>4 DEF debit, IInv, TypeOK
<1>6. settled'[g] = settled[g] + amount[t]
  <2>1. AnyOf({t}) = t
    BY DEF AnyOf
  <2>2. settled'[g] = accounts'[g] + amount'[t]
    BY <1>1, <1>3, <2>1 DEF settled
  <2> QED
    BY <2>2, <1>0, <1>1, <1>4 DEF debit, args, IInv, TypeOK
<1>7. ASSUME NEW a \in Account \ {f, g} PROVE settled'[a] = settled[a]
  <2>1. accounts'[a] = accounts[a] /\ amount' = amount
    BY <1>0, <1>7 DEF debit, args, IInv, TypeOK
  <2> QED
    BY <1>3, <1>7, <2>1 DEF settled
<1>8. settled' = [settled EXCEPT ![f] = @ - amount[t], ![g] = @ + amount[t]]
  <2>1. DOMAIN settled = Account /\ DOMAIN settled' = Account
    BY DEF settled
  <2>2. settled = [a \in Account |-> settled[a]] /\ settled' = [a \in Account |-> settled'[a]]
    BY DEF settled
  <2> QED
    BY <1>1, <1>5, <1>6, <1>7, <2>1, <2>2
<1> QED
  BY <1>0, <1>1, <1>4, <1>8 DEF B!Transfer

LEMMA CreditIsStutter ==
  ASSUME IInv, IInv', NEW t \in Thread, credit(t)
  PROVE  settled' = settled
<1>0. PICK g \in Account : g = to[t]
  BY DEF IInv, TypeOK
<1>1. /\ g \in Account /\ reg[t] = accounts[g] /\ t \in Crediting(g)
  BY <1>0 DEF credit, IInv, TypeOK, LockDiscipline, Loaded, Crediting
<1>2. Crediting(g) = {t}
  BY <1>1, OneCrediting
<1>3. Crediting(g)' = {} /\ \A a \in Account \ {g} : Crediting(a)' = Crediting(a)
  BY <1>0, <1>1, <1>2 DEF credit, args, Crediting, IInv, TypeOK
<1>4. settled'[g] = settled[g]
  <2>1. settled[g] = accounts[g] + amount[t]
    BY <1>1, SettledIs
  <2>2. settled'[g] = accounts'[g]
    BY <1>1, <1>3 DEF settled
  <2> QED
    BY <2>1, <2>2, <1>0, <1>1 DEF credit, IInv, TypeOK
<1>5. ASSUME NEW a \in Account \ {g} PROVE settled'[a] = settled[a]
  <2>1. accounts'[a] = accounts[a] /\ amount' = amount
    BY <1>0, <1>5 DEF credit, args, IInv, TypeOK
  <2> QED
    BY <1>3, <1>5, <2>1 DEF settled
<1> QED
  BY <1>4, <1>5 DEF settled

\* Seen through settled, the transfers of 2pl.c happen one at a time and none
\* overdraws its account: two-phase locking makes them serialisable.
THEOREM Serialisable == Spec => ImplementsBank
<1>1. Init => B!Init
  BY DEF Init, B!Init, settled, Crediting
<1>2. ASSUME IInv, IInv', [Next]_vars PROVE [B!Next]_settled
  <2>1. ASSUME NEW t \in Thread, debit(t) PROVE B!Next
    <3>1. from[t] \in Account /\ to[t] \in Account /\ amount[t] \in Amount
      BY <1>2, <2>1 DEF debit, IInv, TypeOK, LockDiscipline, Drawn
    <3> QED
      BY <1>2, <2>1, <3>1, DebitIsTransfer DEF B!Next
  <2>2. ASSUME NEW t \in Thread, credit(t) PROVE settled' = settled
    BY <1>2, <2>2, CreditIsStutter
  <2>3. ASSUME NEW t \in Thread, tx_begin(t) PROVE settled' = settled
    BY <1>2, <2>3, QuietStep DEF tx_begin, IInv, TypeOK
  <2>4. ASSUME NEW t \in Thread, lock_a(t) \/ lock_b(t) \/ check(t) PROVE settled' = settled
    BY <1>2, <2>4, QuietStep DEF lock_a, lock_b, check, args, IInv, TypeOK
  <2>5. ASSUME NEW t \in Thread, tx_commit(t) PROVE settled' = settled
    BY <1>2, <2>5, QuietStep DEF tx_commit, args, IInv, TypeOK
  <2>6. CASE UNCHANGED vars
    BY <1>2, <2>6, QuietStep DEF vars
  <2> QED
    BY <1>2, <2>1, <2>2, <2>3, <2>4, <2>5, <2>6 DEF Next, Step, Finished
<1> QED
  BY <1>1, <1>2, Invariance, PTL DEF Spec, ImplementsBank, B!Spec
=============================================================================
