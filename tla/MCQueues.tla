------------------------------ MODULE MCQueues ------------------------------
(***************************************************************************)
(* The programs that wait at queues: the three built on BoundedBuffer,     *)
(* which share its variables, and the asynchronous I/O of AsyncIo.         *)
(* program says which of them is running.                                  *)
(***************************************************************************)
EXTENDS RequestQueue, AsyncIo

CONSTANTS Producers, Consumers, Each

ASSUME QueuesAssumption == Producers \in Nat /\ Consumers \in Nat /\ Each \in Nat

VARIABLES program, consumed_total, iterator, main_at

PC == INSTANCE ProducerConsumer

\* A chunk and a half, one chunk, and an empty file.
FileLengths == <<3, 2, 0>>

requestVars == <<next_request_id, id, left>>
consumerVars == <<consumed_total, iterator, main_at>>
allVars == <<program, vars, consumerVars, asyncVars>>

NoRequests == next_request_id = 0 /\ id = 0 /\ left = 0
NoConsumers == consumed_total = 0 /\ iterator = 0 /\ main_at = 0
NoAsync == AsyncInit /\ io = "merge"

MCInit ==
  \/ program = "pthread_db" /\ Init /\ NoConsumers /\ NoAsync
  \/ PC!Init /\ NoRequests /\ NoAsync
  \/ program = "async" /\ AsyncInit /\ Init /\ NoConsumers

RunRequests(A) == program = "pthread_db" /\ A /\ UNCHANGED <<program, consumerVars, asyncVars>>
RunPC(A) == program \notin {"pthread_db", "async"} /\ A /\ UNCHANGED <<requestVars, asyncVars>>
RunAsync(A) == program = "async" /\ A /\ UNCHANGED <<program, vars, consumerVars>>

MCNext == RunRequests(Next) \/ RunPC(PC!Next) \/ RunAsync(AsyncNext)

\* Every thread that can run does, and gets the mutex in the end; the kernel
\* ends every request, and does not refuse a submission for ever.
MCSpec ==
  /\ MCInit /\ [][MCNext]_allVars
  /\ \A t \in Producer \cup Worker : WF_allVars(RunRequests(Step(t)))
  /\ \A p \in 1 .. Producers : WF_allVars(RunPC(PC!producer(p)))
  /\ \A c \in 1 .. Consumers : WF_allVars(RunPC(PC!consumer(c)))
  /\ WF_allVars(RunPC(PC!broadcast))
  /\ WF_allVars(RunAsync(Merge)) /\ WF_allVars(RunAsync(Write))
  /\ SF_allVars(RunAsync(submit_window /\ prepared' = {}))
  /\ \A f \in File : WF_allVars(RunAsync(read_done(f)))
  /\ \A b \in Block : WF_allVars(RunAsync(write_done(b)))
-----------------------------------------------------------------------------
\* Nothing is left behind: when main of pthread_db.c returns, every request
\* has been processed once, and it signals often enough: no request waits while
\* every worker sleeps, and no slot while every producer does; in
\* mutex_with_conditional_variable.c and
\* producer_consumer_queue_using_cond_variable.c a consumer leaves only when
\* everything has been consumed.  The state of the running program keeps its
\* types.
NothingLeftBehind ==
  /\ AsyncTypeOK
  /\ program = "pthread_db" => TypeOK /\ AllServed /\ NobodyStranded
  /\ program \notin {"pthread_db", "async"} => PC!TypeOK /\ PC!LeavesLast

\* pthread_db.c comes to its end, in the two other programs everything is
\* consumed in the end, and the programs of AsyncIo end, unless io_uring.c
\* waits for a write that was never submitted.
QueuesDrain ==
  <>(CASE program = "pthread_db" -> Terminated
       [] program = "async" -> ioPc \in {"done", "exit"} \/ NeverSubmitted
       [] OTHER -> consumed_total = Producers * Each)

\* "All producer and consumer finished. exiting now...." (line 120 of
\* producer_consumer_queue_using_cond_variable.c).
QueueDemoFinishes ==
  <>(program = "producer_consumer_queue" => \A c \in 1 .. Consumers : pc[c] = "finished")
=============================================================================
