--------------------------- MODULE BoundedBuffer ----------------------------
(***************************************************************************)
(* The circular buffer with one mutex and two condition variables that     *)
(* three programs of the repository share in form: the request queue of    *)
(* Posix-Thread/pthread_db.c and the buffers of                            *)
(* Mutex-Spi-Sem-RWlock/mutex_with_conditional_variable.c and              *)
(* concurrency-and-multithreading/                                         *)
(* producer_consumer_queue_using_cond_variable.c.                          *)
(*                                                                         *)
(* A step is what a thread does between taking the mutex and giving it up, *)
(* at the unlock or in pthread_cond_wait.  A woken thread leaves the set   *)
(* of waiters, and its next step starts at the test of its while loop.     *)
(***************************************************************************)
EXTENDS Naturals, Sequences, FiniteSets

CONSTANT Size   \* QUEUE_SIZE, BUFFER_SIZE

ASSUME SizeAssumption == Size \in Nat \ {0}

VARIABLES
  buffer, in, out, count,
  not_full,    \* the threads waiting on the condition not_full
  not_empty,   \* the threads waiting on the condition not_empty
  sent,        \* auxiliary: all items put so far
  received     \* auxiliary: all items got so far

ring == <<buffer, in, out, count, sent, received>>

bufferVars == <<ring, not_full, not_empty>>

\* Positions go round the array.
Slot(n) == n % Size

\* Static storage: the slots start as zeroes, whatever an item looks like.
InitBuffer ==
  /\ buffer = [i \in 0 .. Size - 1 |-> 0]
  /\ in = 0
  /\ out = 0
  /\ count = 0
  /\ not_full = {}
  /\ not_empty = {}
  /\ sent = << >>
  /\ received = << >>

\* pthread_cond_signal wakes one waiter, if there is one.
Signalled(waiters, remaining) ==
  \/ waiters = {} /\ remaining = {}
  \/ \E t \in waiters : remaining = waiters \ {t}

\* Variant of Put: nobody is signalled.
Put_Silent(t, item) ==
  /\ t \notin not_full
  /\ count # Size
  /\ buffer' = [buffer EXCEPT ![in] = item]
  /\ in' = Slot(in + 1)
  /\ count' = count + 1
  /\ sent' = Append(sent, item)
  /\ UNCHANGED <<out, not_full, not_empty, received>>

Put(t, item) ==
  /\ t \notin not_full
  /\ count # Size
  /\ buffer' = [buffer EXCEPT ![in] = item]
  /\ in' = Slot(in + 1)
  /\ count' = count + 1
  /\ sent' = Append(sent, item)
  /\ Signalled(not_empty, not_empty')
  /\ UNCHANGED <<out, not_full, received>>

AwaitNotFull(t) ==
  /\ t \notin not_full
  /\ count = Size
  /\ not_full' = not_full \cup {t}
  /\ UNCHANGED <<ring, not_empty>>

\* Variant of Get: the head is not advanced round the end of the array.
Get_Stuck(t) ==
  /\ t \notin not_empty
  /\ count # 0
  /\ out' = IF out + 1 = Size THEN out ELSE out + 1
  /\ count' = count - 1
  /\ received' = Append(received, buffer[out])
  /\ Signalled(not_full, not_full')
  /\ UNCHANGED <<buffer, in, not_empty, sent>>

\* Variant of Get: nobody is signalled.
Get_Silent(t) ==
  /\ t \notin not_empty
  /\ count # 0
  /\ out' = Slot(out + 1)
  /\ count' = count - 1
  /\ received' = Append(received, buffer[out])
  /\ UNCHANGED <<buffer, in, not_full, not_empty, sent>>

Get(t) ==
  /\ t \notin not_empty
  /\ count # 0
  /\ out' = Slot(out + 1)
  /\ count' = count - 1
  /\ received' = Append(received, buffer[out])
  /\ Signalled(not_full, not_full')
  /\ UNCHANGED <<buffer, in, not_empty, sent>>

AwaitNotEmpty(t) ==
  /\ t \notin not_empty
  /\ count = 0
  /\ not_empty' = not_empty \cup {t}
  /\ UNCHANGED <<ring, not_full>>

\* pthread_cond_wait may return without a signal.
Spurious ==
  \/ \E t \in not_full : not_full' = not_full \ {t} /\ UNCHANGED <<ring, not_empty>>
  \/ \E t \in not_empty : not_empty' = not_empty \ {t} /\ UNCHANGED <<ring, not_full>>
-----------------------------------------------------------------------------
\* Item is what the program puts into its buffer.
BufferTypeOK(Item) ==
  /\ buffer \in [0 .. Size - 1 -> Item \cup {0}]
  /\ in \in 0 .. Size - 1
  /\ out \in 0 .. Size - 1
  /\ count \in 0 .. Size
  /\ sent \in Seq(Item)
  /\ received \in Seq(Item)

Fifo == INSTANCE BoundedFifo

\* The slots from out on, going round, hold the items still inside, in order.
Contents ==
  /\ count = Len(sent) - Len(received)
  /\ in = Slot(out + count)
  /\ \A i \in 0 .. count - 1 : buffer[Slot(out + i)] = sent[Len(received) + i + 1]
=============================================================================
