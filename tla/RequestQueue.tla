---------------------------- MODULE RequestQueue ----------------------------
(***************************************************************************)
(* Posix-Thread/pthread_db.c: client threads number their requests and     *)
(* queue them, worker threads take them, and main shuts the workers down   *)
(* with one request of id -1 each.                                         *)
(***************************************************************************)
EXTENDS Integers, BoundedBuffer

CONSTANTS
  Client,
  Worker,
  main,
  Requests   \* REQUESTS_PER_CLIENT

Shutdown == -1

Item == {Shutdown} \cup (Nat \ {0})

ASSUME RequestAssumption ==
  /\ IsFiniteSet(Client) /\ IsFiniteSet(Worker) /\ Worker # {}
  /\ Requests \in Nat
  /\ main \notin Client \cup Worker
  /\ Client \cap Worker = {}

VARIABLES
  next_request_id,
  id,      \* the id a client has drawn for the request it is queueing
  left,    \* the requests a client, the shutdowns main, still has to queue
  pc

vars == <<bufferVars, next_request_id, id, left, pc>>

Producer == Client \cup {main}

Init ==
  /\ InitBuffer
  /\ next_request_id = 1
  /\ id = [c \in Producer |-> IF c = main THEN Shutdown ELSE 0]
  /\ left = [c \in Producer |-> IF c = main THEN Cardinality(Worker) ELSE Requests]
  /\ pc = [t \in Producer \cup Worker |->
             IF t \in Client THEN "client" ELSE IF t = main THEN "join" ELSE "dequeue"]

Goto(t, label) == pc' = [pc EXCEPT ![t] = label]

\* A client's section of id_mutex.
draw_id(c) ==
  /\ pc[c] = "client"
  /\ left[c] > 0
  /\ id' = [id EXCEPT ![c] = next_request_id]
  /\ next_request_id' = next_request_id + 1
  /\ Goto(c, "enqueue")
  /\ UNCHANGED <<bufferVars, left>>

enqueue(t) ==
  /\ pc[t] = "enqueue"
  /\ \/ /\ Put(t, id[t])
        /\ left' = [left EXCEPT ![t] = @ - 1]
        /\ Goto(t, IF t = main THEN "shutdown" ELSE "client")
     \/ /\ AwaitNotFull(t)
        /\ UNCHANGED <<left, pc>>
  /\ UNCHANGED <<next_request_id, id>>

\* main has joined every client.
main_joins_clients ==
  /\ pc[main] = "join"
  /\ \A c \in Client : pc[c] = "client" /\ left[c] = 0
  /\ Goto(main, "shutdown")
  /\ UNCHANGED <<bufferVars, next_request_id, id, left>>

main_shuts_down ==
  /\ pc[main] = "shutdown"
  /\ left[main] > 0
  /\ Goto(main, "enqueue")
  /\ UNCHANGED <<bufferVars, next_request_id, id, left>>

\* A worker takes the next request, and stops after a shutdown.
dequeue(w) ==
  /\ pc[w] = "dequeue"
  /\ \/ Get(w) /\ Goto(w, IF buffer[out] = Shutdown THEN "exited" ELSE "dequeue")
     \/ AwaitNotEmpty(w) /\ UNCHANGED pc
  /\ UNCHANGED <<next_request_id, id, left>>

Step(t) ==
  \/ t \in Client /\ draw_id(t)
  \/ t \in Producer /\ enqueue(t)
  \/ t = main /\ (main_joins_clients \/ main_shuts_down)
  \/ t \in Worker /\ dequeue(t)

\* main has queued the shutdowns and joined every worker.
Terminated ==
  /\ pc[main] = "shutdown"
  /\ left[main] = 0
  /\ \A w \in Worker : pc[w] = "exited"

Next ==
  \/ \E t \in Producer \cup Worker : Step(t)
  \/ Spurious /\ UNCHANGED <<next_request_id, id, left, pc>>
  \/ Terminated /\ UNCHANGED vars

Spec == Init /\ [][Next]_vars

\* Every thread that can run does, and gets the mutex in the end.
FairSpec == Spec /\ \A t \in Producer \cup Worker : WF_vars(Step(t))
-----------------------------------------------------------------------------
TypeOK ==
  /\ BufferTypeOK(Item)
  /\ not_full \subseteq {t \in Producer : pc[t] = "enqueue"}
  /\ not_empty \subseteq {w \in Worker : pc[w] = "dequeue"}
  /\ next_request_id \in Nat \ {0}
  /\ id \in [Producer -> Item \cup {0}]
  /\ left \in [Producer -> Nat]
  /\ pc \in [Producer \cup Worker ->
               {"client", "enqueue", "join", "shutdown", "dequeue", "exited"}]

\* The queue of pthread_db.c is a bounded first-in first-out queue.
ImplementsFifo == Fifo!Spec

\* enqueue and dequeue signal often enough: while a worker waits, every
\* request in the queue has a running worker of its own to take it; while a
\* producer waits, every free slot has a running producer to fill it.
NobodyStranded ==
  /\ not_empty # {} =>
       count <= Cardinality({w \in Worker \ not_empty : pc[w] = "dequeue"})
  /\ not_full # {} =>
       Size - count <= Cardinality({t \in Producer \ not_full : pc[t] = "enqueue"})

\* id_mutex and the queue together deliver every request once, and nothing
\* but shutdowns follows them: when main returns the workers have processed
\* each id exactly once and the queue is empty.
AllServed ==
  Terminated =>
    /\ count = 0
    /\ \A m, n \in DOMAIN received :
         received[m] = received[n] /\ received[m] # Shutdown => m = n
    /\ {received[n] : n \in DOMAIN received} \ {Shutdown} = 1 .. Cardinality(Client) * Requests

\* The requests numbered so far: client c draws an id for its request n, the
\* n counting down from Requests.
Drawn ==
  {r \in Client \X (1 .. Requests) :
     r[2] > left[r[1]] \/ (r[2] = left[r[1]] /\ pc[r[1]] = "enqueue")}

\* Every id below next_request_id is in the queue's history once, or is the
\* one that one client is about to queue.
Numbered ==
  /\ next_request_id = 1 + Cardinality(Drawn)
  /\ \A c \in Client : left[c] <= Requests
  /\ \A n \in DOMAIN sent : sent[n] = Shutdown \/ sent[n] < next_request_id
  /\ \A m, n \in DOMAIN sent : sent[m] = sent[n] /\ sent[m] # Shutdown => m = n
  /\ \A c \in Client : pc[c] = "enqueue" =>
       /\ id[c] \in 1 .. next_request_id - 1
       /\ \A n \in DOMAIN sent : sent[n] # id[c]
       /\ \A d \in Client : pc[d] = "enqueue" /\ id[d] = id[c] => d = c
  /\ \A r \in 1 .. next_request_id - 1 :
       \/ \E n \in DOMAIN sent : sent[n] = r
       \/ \E c \in Client : pc[c] = "enqueue" /\ id[c] = r

\* Where Shutdown occurs in a sequence of items.
Shutdowns(items) == {n \in DOMAIN items : items[n] = Shutdown}

\* main queues a shutdown for each worker behind the last request; a worker
\* that has taken one has stopped.
ShutDownInOrder ==
  /\ \A c \in Client : pc[c] \in {"client", "enqueue"}
  /\ pc[main] # "join" => \A c \in Client : pc[c] = "client" /\ left[c] = 0
  /\ pc[main] = "join" => left[main] = Cardinality(Worker)
  /\ \A m, n \in DOMAIN sent : m < n /\ sent[m] = Shutdown => sent[n] = Shutdown
  /\ Cardinality(Shutdowns(sent)) = Cardinality(Worker) - left[main]
  /\ Cardinality(Shutdowns(received)) = Cardinality({w \in Worker : pc[w] = "exited"})

\* What has been received is the beginning of what was sent.
Prefix ==
  /\ Len(received) <= Len(sent)
  /\ \A n \in DOMAIN received : received[n] = sent[n]

\* The proofs' inductive invariant: the ring holds the items still inside,
\* and a producer that is queueing has an item to queue.
IInv ==
  /\ TypeOK
  /\ Contents
  /\ \A t \in Producer : pc[t] = "enqueue" => id[t] \in Item /\ left[t] > 0
  /\ id[main] = Shutdown

\* The same, with the history of the requests and the waiting threads.
ServiceInv == IInv /\ Prefix /\ Numbered /\ ShutDownInOrder /\ NobodyStranded
=============================================================================
