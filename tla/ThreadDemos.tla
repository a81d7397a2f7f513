---------------------------- MODULE ThreadDemos -----------------------------
(***************************************************************************)
(* Three programs in which threads meet at a lock or at a memory location: *)
(*                                                                         *)
(* the readers and writers of Mutex-Spi-Sem-RWlock/read_write_lock.c under *)
(* one pthread_rwlock, until main raises stop_requested;                   *)
(*                                                                         *)
(* one thread that hands something to another, the signaler and the waiter *)
(* of concurrency-and-multithreading/futex.c, and the writer and the       *)
(* reader of memory_barrier.c;                                             *)
(*                                                                         *)
(* the hash map of Mutex-Spi-Sem-RWlock/concurrent_hashmap_using_locks.c,  *)
(* one mutex per bucket, and its workers, which insert the same keys.  A   *)
(* bucket's list is a sequence of entries, head first.                     *)
(***************************************************************************)
EXTENDS Naturals, Sequences, FiniteSets

CONSTANTS
  Reader,
  Writer,
  MaxTurns,     \* bound: the turns of the loop a thread makes before the stop
  Inserter,     \* the worker threads
  Keys,         \* the keys are 0 .. Keys - 1, each worker inserts them in order
  NUM_BUCKETS,
  hash,         \* the bucket of a key
  Nobody
-----------------------------------------------------------------------------
(* The read-write lock *)

Participant == Reader \cup Writer

VARIABLES
  holders,        \* the threads inside the rwlock
  shared_counter,
  total_reader_operations,
  total_writer_operations,
  stop_requested,
  seen,           \* a reader's local_value, or what a writer has loaded
  turns,          \* auxiliary: the turns a thread has begun
  rwpc

rwVars == <<holders, shared_counter, total_reader_operations, total_writer_operations,
            stop_requested, seen, turns, rwpc>>

totals == <<total_reader_operations, total_writer_operations>>

RwInit ==
  /\ holders = {}
  /\ shared_counter = 0
  /\ total_reader_operations = 0
  /\ total_writer_operations = 0
  /\ stop_requested = FALSE
  /\ seen = [t \in Participant |-> 0]
  /\ turns = [t \in Participant |-> 0]
  /\ rwpc = [t \in Participant |-> "loop"]

RwGoto(t, label) == rwpc' = [rwpc EXCEPT ![t] = label]

\* while (!stop_requested)
loop(t) ==
  /\ rwpc[t] = "loop"
  /\ \/ stop_requested /\ RwGoto(t, "returned") /\ UNCHANGED turns
     \/ /\ ~stop_requested
        /\ turns[t] < MaxTurns
        /\ turns' = [turns EXCEPT ![t] = @ + 1]
        /\ RwGoto(t, "lock")
  /\ UNCHANGED <<holders, shared_counter, totals, stop_requested, seen>>

\* Variant of Admitted: a writer does not wait for the readers.
Admitted_Writer(t) == holders \cap Writer = {}

\* pthread_rwlock_rdlock and pthread_rwlock_wrlock.
Admitted(t) == IF t \in Reader THEN holders \cap Writer = {} ELSE holders = {}

lock(t) ==
  /\ rwpc[t] = "lock"
  /\ Admitted(t)
  /\ holders' = holders \cup {t}
  /\ RwGoto(t, "load")
  /\ UNCHANGED <<shared_counter, totals, stop_requested, seen, turns>>

load(t) ==
  /\ rwpc[t] = "load"
  /\ seen' = [seen EXCEPT ![t] = shared_counter]
  /\ RwGoto(t, IF t \in Reader THEN "count" ELSE "store")
  /\ UNCHANGED <<holders, shared_counter, totals, stop_requested, turns>>

store(t) ==
  /\ rwpc[t] = "store"
  /\ shared_counter' = seen[t] + 1
  /\ RwGoto(t, "count")
  /\ UNCHANGED <<holders, totals, stop_requested, seen, turns>>

count(t) ==
  /\ rwpc[t] = "count"
  /\ \/ /\ t \in Reader
        /\ total_reader_operations' = total_reader_operations + 1
        /\ UNCHANGED total_writer_operations
     \/ /\ t \in Writer
        /\ total_writer_operations' = total_writer_operations + 1
        /\ UNCHANGED total_reader_operations
  /\ RwGoto(t, "unlock")
  /\ UNCHANGED <<holders, shared_counter, stop_requested, seen, turns>>

unlock_rw(t) ==
  /\ rwpc[t] = "unlock"
  /\ holders' = holders \ {t}
  /\ RwGoto(t, "loop")
  /\ UNCHANGED <<shared_counter, totals, stop_requested, seen, turns>>

\* main after its sleep.
stop ==
  /\ ~stop_requested
  /\ stop_requested' = TRUE
  /\ UNCHANGED <<holders, shared_counter, totals, seen, turns, rwpc>>

Step(t) == loop(t) \/ lock(t) \/ load(t) \/ store(t) \/ count(t) \/ unlock_rw(t)

RwNext == stop \/ \E t \in Participant : Step(t)
-----------------------------------------------------------------------------
\* While a reader is inside, the counter is what it has read and the number
\* of writes that were counted.
ReadsAreStable ==
  \A r \in Reader : rwpc[r] = "count" =>
    seen[r] = shared_counter /\ shared_counter = total_writer_operations

Returned == \A t \in Participant : rwpc[t] = "returned"
-----------------------------------------------------------------------------
(* The handoffs *)

VARIABLES
  futex_value,
  waiter,     \* "check", "futex_wait", "sleeping", "woken" or "returned"
  signaler,   \* "sleep", "futex_wake" or "returned"
  stored,     \* the stores of memory_barrier.c's writer, in program order
  visible,    \* those the reader's loads can see
  read        \* what the reader's load of data returned, or -1

futexVars == <<futex_value, waiter, signaler>>
barrierVars == <<stored, visible, read>>

HandInit ==
  /\ futex_value = 0
  /\ waiter = "check"
  /\ signaler = "sleep"
  /\ stored = 0
  /\ visible = {}
  /\ read = 0 - 1
-----------------------------------------------------------------------------
\* atomic_load_explicit: proceed unless the value is zero.
waiter_check ==
  /\ waiter = "check"
  /\ waiter' = IF futex_value # 0 THEN "returned" ELSE "futex_wait"
  /\ UNCHANGED <<futex_value, signaler, barrierVars>>

\* The kernel compares the value with 0 before it queues the thread; EAGAIN
\* otherwise, and the loop goes on.
futex_wait ==
  /\ waiter = "futex_wait"
  /\ waiter' = IF futex_value = 0 THEN "sleeping" ELSE "check"
  /\ UNCHANGED <<futex_value, signaler, barrierVars>>

\* EINTR, or a wake-up.
interrupted ==
  /\ waiter = "sleeping"
  /\ waiter' = "check"
  /\ UNCHANGED <<futex_value, signaler, barrierVars>>

woken ==
  /\ waiter = "woken"
  /\ waiter' = "check"
  /\ UNCHANGED <<futex_value, signaler, barrierVars>>

signaler_store ==
  /\ signaler = "sleep"
  /\ futex_value' = 1
  /\ signaler' = "futex_wake"
  /\ UNCHANGED <<waiter, barrierVars>>

futex_wake ==
  /\ signaler = "futex_wake"
  /\ waiter' = IF waiter = "sleeping" THEN "woken" ELSE waiter
  /\ signaler' = "returned"
  /\ UNCHANGED <<futex_value, barrierVars>>

WaiterStep == waiter_check \/ futex_wait \/ woken
SignalerStep == signaler_store \/ futex_wake
-----------------------------------------------------------------------------
\* The writer stores data and then flag.
writer ==
  /\ stored < 2
  /\ stored' = stored + 1
  /\ UNCHANGED <<visible, read, futexVars>>

\* A store becomes visible to the reader some time after it was made; the
\* second one, a release, not before the first.
propagate ==
  /\ \E n \in 1 .. stored :
       /\ n \notin visible
       /\ n = 2 => 1 \in visible
       /\ visible' = visible \cup {n}
  /\ UNCHANGED <<stored, read, futexVars>>

\* The acquiring load has seen flag; the load of data comes after it.
reader ==
  /\ 2 \in visible
  /\ read = 0 - 1
  /\ read' = IF 1 \in visible THEN 42 ELSE 0
  /\ UNCHANGED <<stored, visible, futexVars>>

HandNext == WaiterStep \/ SignalerStep \/ interrupted \/ writer \/ propagate \/ reader
-----------------------------------------------------------------------------
\* memory_barrier.c: a reader that has seen flag reads the 42.
Published == read \in {0 - 1, 42}

\* futex.c: both threads return, and main's joins with them.
HandedOver == waiter = "returned" /\ signaler = "returned"
-----------------------------------------------------------------------------
(* The concurrent map *)

Bucket == 0 .. NUM_BUCKETS - 1

VARIABLES
  entries,   \* buckets[b].head
  holder,    \* the owner of buckets[b].lock
  next_key,  \* the i of worker
  mappc,
  found      \* the index of the entry the walk has found, 0 for none

mapVars == <<entries, holder, next_key, mappc, found>>

hashmap_init ==
  /\ entries = [b \in Bucket |-> << >>]
  /\ holder = [b \in Bucket |-> Nobody]

MapInit ==
  /\ hashmap_init
  /\ next_key = [t \in Inserter |-> 0]
  /\ mappc = [t \in Inserter |-> "lock"]
  /\ found = [t \in Inserter |-> 0]

b_of(t) == hash[next_key[t]]
MapGoto(t, label) == mappc' = [mappc EXCEPT ![t] = label]

hashmap_insert(t) ==
  /\ mappc[t] = "lock"
  /\ next_key[t] < Keys
  /\ holder[b_of(t)] = Nobody
  /\ holder' = [holder EXCEPT ![b_of(t)] = t]
  /\ MapGoto(t, "walk")
  /\ UNCHANGED <<entries, next_key, found>>

\* The position of a key in a list, 0 if it is not there.
Position(list, k) ==
  IF \E n \in DOMAIN list : list[n].key = k
  THEN CHOOSE n \in DOMAIN list : list[n].key = k ELSE 0

walk(t) ==
  /\ mappc[t] = "walk"
  /\ found' = [found EXCEPT ![t] = Position(entries[b_of(t)], next_key[t])]
  /\ MapGoto(t, "change")
  /\ UNCHANGED <<entries, holder, next_key>>

\* A key that was found gets the value, any other a new entry at the head.
change(t) ==
  /\ mappc[t] = "change"
  /\ entries' = [entries EXCEPT ![b_of(t)] =
       IF found[t] # 0 THEN [@ EXCEPT ![found[t]].value = next_key[t]]
       ELSE <<[key |-> next_key[t], value |-> next_key[t]]>> \o @]
  /\ MapGoto(t, "unlock")
  /\ UNCHANGED <<holder, next_key, found>>

unlock_bucket(t) ==
  /\ mappc[t] = "unlock"
  /\ holder' = [holder EXCEPT ![b_of(t)] = Nobody]
  /\ next_key' = [next_key EXCEPT ![t] = @ + 1]
  /\ MapGoto(t, "lock")
  /\ UNCHANGED <<entries, found>>

worker(t) == hashmap_insert(t) \/ walk(t) \/ change(t) \/ unlock_bucket(t)

MapNext == \E t \in Inserter : worker(t)

Joined == \A t \in Inserter : next_key[t] = Keys

\* What a lookup finds: no value or one.
hashmap_lookup(k) ==
  LET list == entries[hash[k]] IN
    IF Position(list, k) = 0 THEN {} ELSE {list[Position(list, k)].value}
-----------------------------------------------------------------------------
\* Two workers that insert one key at once make one entry for it, in its
\* own bucket.
OneEntryPerKey ==
  \A b \in Bucket : \A m, n \in DOMAIN entries[b] :
    /\ hash[entries[b][m].key] = b
    /\ entries[b][m].key = entries[b][n].key => m = n

\* "key42 -> 42": after the joins every key is found with its value.
NothingLost == Joined => \A k \in 0 .. Keys - 1 : hashmap_lookup(k) = {k}
-----------------------------------------------------------------------------
TypeOK ==
  /\ holders \subseteq Participant
  /\ shared_counter \in Nat
  /\ total_reader_operations \in Nat
  /\ total_writer_operations \in Nat
  /\ stop_requested \in BOOLEAN
  /\ seen \in [Participant -> Nat]
  /\ turns \in [Participant -> 0 .. MaxTurns]
  /\ rwpc \in [Participant -> {"loop", "lock", "load", "store", "count", "unlock", "returned"}]
  /\ futex_value \in 0 .. 1
  /\ waiter \in {"check", "futex_wait", "sleeping", "woken", "returned"}
  /\ signaler \in {"sleep", "futex_wake", "returned"}
  /\ stored \in 0 .. 2
  /\ visible \subseteq 1 .. 2
  /\ read \in {0 - 1, 0, 42}
  /\ entries \in [Bucket -> Seq([key : 0 .. Keys - 1, value : 0 .. Keys - 1])]
  /\ holder \in [Bucket -> Inserter \cup {Nobody}]
  /\ next_key \in [Inserter -> 0 .. Keys]
  /\ mappc \in [Inserter -> {"lock", "walk", "change", "unlock"}]
  /\ found \in [Inserter -> Nat]
-----------------------------------------------------------------------------
(* The proofs' inductive invariants, one for each program.                 *)

Inside(t) == rwpc[t] \in {"load", "store", "count", "unlock"}

\* A writer is alone inside, and the counter is ahead of the total only
\* between a writer's store and its count.
RwInv ==
  /\ \A t \in Participant : t \in holders <=> Inside(t)
  /\ \A w \in Writer : w \in holders => holders = {w}
  /\ \A t \in Participant : rwpc[t] = "store" => t \in Writer
  /\ \A t \in Participant :
       rwpc[t] = "store" \/ (t \in Reader /\ rwpc[t] = "count") => seen[t] = shared_counter
  /\ shared_counter =
       total_writer_operations + (IF \E w \in Writer : rwpc[w] = "count" THEN 1 ELSE 0)

\* The release orders the two stores.
HandInv == (2 \in visible => 1 \in visible) /\ Published

Has(k) == \E n \in DOMAIN entries[hash[k]] : entries[hash[k]][n].key = k

\* A worker inside a bucket has its lock, what its walk found stays true, and
\* the keys it has inserted stay.
MapInv ==
  /\ OneEntryPerKey
  /\ \A b \in Bucket : \A n \in DOMAIN entries[b] : entries[b][n].value = entries[b][n].key
  /\ \A t \in Inserter :
       /\ mappc[t] # "lock" => next_key[t] < Keys /\ holder[b_of(t)] = t
       /\ mappc[t] = "change" => found[t] = Position(entries[b_of(t)], next_key[t])
       /\ \A k \in 0 .. Keys - 1 :
            k < next_key[t] \/ (k = next_key[t] /\ mappc[t] = "unlock") => Has(k)

IInv == TypeOK /\ RwInv /\ HandInv /\ MapInv
=============================================================================
