-------------------------- MODULE ProducerConsumer --------------------------
(***************************************************************************)
(* Producers and consumers on a bounded buffer:                            *)
(* Mutex-Spi-Sem-RWlock/mutex_with_conditional_variable.c, where a woken   *)
(* consumer asks whether everything has been consumed, and                 *)
(* concurrency-and-multithreading/                                         *)
(* producer_consumer_queue_using_cond_variable.c, where it asks only       *)
(* before it waits and main wakes the consumers once at the end.           *)
(***************************************************************************)
EXTENDS BoundedBuffer

CONSTANTS
  Producers,  \* NUMBER_OF_PRODUCERS
  Consumers,  \* NUMBER_OF_CONSUMERS
  Each        \* PRODUCE_PER_PRODUCER, PRODUCES_PER_PRODUCER

VARIABLES
  program,
  consumed_total,
  iterator,  \* of each producer's loop
  pc,        \* of each consumer
  main_at

vars == <<bufferVars, program, consumed_total, iterator, pc, main_at>>

Asks == "mutex_with_conditional_variable"
Queue == "producer_consumer_queue"

total_to_produce == Each * Producers

\* In the second program the item does not depend on the producer.
Made(id, n) == IF program = Asks THEN id * 1000 + n ELSE n * 100 + n

Init ==
  /\ InitBuffer
  /\ program \in {Asks, Queue}
  /\ consumed_total = 0
  /\ iterator = [p \in 1 .. Producers |-> 0]
  /\ pc = [c \in 1 .. Consumers |-> "loop"]
  /\ main_at = "join producers"

producer(p) ==
  /\ iterator[p] < Each
  /\ \/ Put(p, Made(p, iterator[p])) /\ iterator' = [iterator EXCEPT ![p] = @ + 1]
     \/ AwaitNotFull(p) /\ UNCHANGED iterator
  /\ UNCHANGED <<program, consumed_total, pc, main_at>>
-----------------------------------------------------------------------------
take_item(c, next) ==
  /\ Get(c)
  /\ consumed_total' = consumed_total + 1
  /\ pc' = [pc EXCEPT ![c] = next]

await_item(c, next) ==
  /\ AwaitNotEmpty(c)
  /\ pc' = [pc EXCEPT ![c] = next]
  /\ UNCHANGED consumed_total

finish(c) == pc' = [pc EXCEPT ![c] = "finished"] /\ UNCHANGED <<bufferVars, consumed_total>>

\* One section under the mutex, or the read of consumed_total after the
\* sleep, without it.
asking_consumer(c) ==
  /\ program = Asks
  /\ \/ pc[c] = "loop" /\ take_item(c, "consumed")
     \/ /\ pc[c] = "loop" /\ consumed_total >= total_to_produce
        /\ c \notin not_empty /\ count = 0
        /\ finish(c)
     \/ /\ pc[c] = "loop" /\ consumed_total < total_to_produce
        /\ await_item(c, "loop")
     \/ /\ pc[c] = "consumed" /\ consumed_total >= total_to_produce
        /\ finish(c)
     \/ /\ pc[c] = "consumed" /\ consumed_total < total_to_produce
        /\ pc' = [pc EXCEPT ![c] = "loop"] /\ UNCHANGED <<bufferVars, consumed_total>>
  /\ UNCHANGED <<program, iterator, main_at>>

\* Variant of queue_consumer: the test for the end is off by one.
queue_consumer_early(c) ==
  /\ program = Queue
  /\ \/ /\ pc[c] = "loop" /\ consumed_total + 1 >= total_to_produce
        /\ finish(c)
     \/ /\ pc[c] = "loop" => consumed_total + 1 < total_to_produce
        /\ pc[c] # "finished"
        /\ await_item(c, "wait loop") \/ take_item(c, "loop")
  /\ UNCHANGED <<program, iterator, main_at>>

\* From the lock, or from the return from the wait: what was asked at the
\* start of the section is not asked again.
queue_consumer(c) ==
  /\ program = Queue
  /\ \/ /\ pc[c] = "loop" /\ consumed_total >= total_to_produce
        /\ finish(c)
     \/ /\ pc[c] = "loop" => consumed_total < total_to_produce
        /\ pc[c] # "finished"
        /\ await_item(c, "wait loop") \/ take_item(c, "loop")
  /\ UNCHANGED <<program, iterator, main_at>>

consumer(c) == asking_consumer(c) \/ queue_consumer(c)

\* main has joined the producers and broadcasts not_empty, once.
broadcast ==
  /\ program = Queue
  /\ main_at = "join producers"
  /\ \A p \in 1 .. Producers : iterator[p] = Each
  /\ not_empty' = {}
  /\ main_at' = "join consumers"
  /\ UNCHANGED <<ring, not_full, program, consumed_total, iterator, pc>>

Next ==
  \/ \E p \in 1 .. Producers : producer(p)
  \/ \E c \in 1 .. Consumers : consumer(c)
  \/ broadcast
  \/ Spurious /\ UNCHANGED <<program, consumed_total, iterator, pc, main_at>>

\* Every thread that can run does, and gets the mutex in the end.
Spec ==
  /\ Init /\ [][Next]_vars
  /\ \A p \in 1 .. Producers : WF_vars(producer(p))
  /\ \A c \in 1 .. Consumers : WF_vars(consumer(c))
  /\ WF_vars(broadcast)
-----------------------------------------------------------------------------
TypeOK ==
  /\ BufferTypeOK({Made(p, n) : p \in 1 .. Producers, n \in 0 .. Each - 1})
  /\ not_full \subseteq {p \in 1 .. Producers : iterator[p] < Each}
  /\ not_empty \subseteq {c \in 1 .. Consumers : pc[c] \in {"loop", "wait loop"}}
  /\ consumed_total \in 0 .. total_to_produce
  /\ iterator \in [1 .. Producers -> 0 .. Each]
  /\ pc \in [1 .. Consumers -> {"loop", "wait loop", "consumed", "finished"}]
  /\ main_at \in {"join producers", "join consumers"}

\* A consumer leaves ("consumed final item", "all task alrady done") only when
\* every item has been produced and consumed, although in the first program
\* it may have read consumed_total without the mutex.
LeavesLast ==
  \A c \in 1 .. Consumers :
    pc[c] = "finished" => consumed_total = total_to_produce /\ count = 0
=============================================================================
