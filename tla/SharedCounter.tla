--------------------------- MODULE SharedCounter ---------------------------
(***************************************************************************)
(* Threads that update one shared number: the counters of mutex.c,         *)
(* lock_comparision.c, atomics_vs_mutex.c and the like, and the account of *)
(* multi_thread_bank.c.                                                    *)
(*                                                                         *)
(* main runs one round after the other; in a round it creates all threads  *)
(* and joins them, and every thread makes Updates updates.  A round says   *)
(* how the number is protected: by a "mutex", by a "spin" lock, by an      *)
(* "atomic" instruction or by "nothing".  An update that is not atomic is  *)
(* a load and a store, as an unoptimised build has them.                   *)
(***************************************************************************)
EXTENDS Integers, Sequences, FiniteSets

CONSTANTS
  Threads,   \* the number of threads
  Updates,   \* what each of them makes
  Start,     \* the balance multi_thread_bank.c starts with
  Amount     \* and the amounts it draws

Rounds == [
  mutex             |-> <<"nothing", "mutex">>,
  lock_comparision  |-> <<"mutex", "spin">>,
  atomics_vs_mutex  |-> <<"atomic", "mutex">>,
  atomic_counter    |-> <<"atomic">>,
  multi_thread_bank |-> <<"mutex">> ]

VARIABLES
  program,
  round,
  main,      \* "create", "barrier", "join", "cleanup", "exit" or "done"
  created,   \* the threads of the round that exist
  locked_by,      \* the thread that holds the mutex or the spin lock, or 0
  counter,
  reg,       \* the counter as a thread has loaded it
  delta,    \* what it wants to add
  left,      \* the updates it still has to make
  pc,
  applied    \* auxiliary: the sum of the updates made since the last reset

vars == <<program, round, main, created, locked_by, counter, reg, delta, left, pc, applied>>

Counting == 1 .. Threads
Protection == Rounds[program][round]
Initial == IF program = "multi_thread_bank" THEN Start ELSE 0
Change == IF program = "multi_thread_bank" THEN Amount \cup {-a : a \in Amount} ELSE {1}

Init ==
  /\ program \in DOMAIN Rounds
  /\ round = 1
  /\ main = "create"
  /\ created = 0
  /\ locked_by = 0
  /\ counter = Initial
  /\ reg = [t \in Counting |-> 0]
  /\ delta = [t \in Counting |-> 0]
  /\ left = [t \in Counting |-> Updates]
  /\ pc = [t \in Counting |-> "none"]
  /\ applied = 0
-----------------------------------------------------------------------------
main_only == <<program, round, main, created>>
data == <<locked_by, counter, reg, delta, left, applied>>

\* The threads of lock_comparision.c wait for each other and for main.
pthread_create ==
  /\ main = "create"
  /\ created < Threads
  /\ created' = created + 1
  /\ pc' = [pc EXCEPT ![created + 1] = IF program = "lock_comparision" THEN "barrier" ELSE "loop"]
  /\ UNCHANGED <<program, round, main, data>>

\* lock_comparision.c then joins the threads it has; they wait at the
\* barrier for one that will not come.  atomic_counter_with_instrinsics.c
\* exits, and its threads end with it; the others do not look.
pthread_create_fails ==
  /\ main = "create"
  /\ created < Threads
  /\ \/ program = "lock_comparision" /\ main' = IF created = 0 THEN "exit" ELSE "cleanup"
     \/ program = "atomic_counter" /\ main' = "exit"
  /\ UNCHANGED <<program, round, created, data, pc>>

all_created ==
  /\ main = "create"
  /\ created = Threads
  /\ main' = IF program = "lock_comparision" THEN "barrier" ELSE "join"
  /\ UNCHANGED <<program, round, created, data, pc>>

pthread_barrier_wait ==
  /\ main = "barrier"
  /\ pc' = [t \in Counting |-> "loop"]
  /\ main' = "join"
  /\ UNCHANGED <<program, round, created, data>>

Joined == main = "join" /\ \A t \in Counting : pc[t] = "loop" /\ left[t] = 0

\* main prints the counter, resets it and starts the next round.
next_round ==
  /\ Joined
  /\ round < Len(Rounds[program])
  /\ round' = round + 1
  /\ main' = "create"
  /\ created' = 0
  /\ counter' = 0
  /\ applied' = 0
  /\ left' = [t \in Counting |-> Updates]
  /\ pc' = [t \in Counting |-> "none"]
  /\ UNCHANGED <<program, locked_by, reg, delta>>

main_returns ==
  /\ Joined
  /\ round = Len(Rounds[program])
  /\ main' = "done"
  /\ UNCHANGED <<program, round, created, data, pc>>
-----------------------------------------------------------------------------
Goto(t, label) == pc' = [pc EXCEPT ![t] = label]

\* Variant of worker: the lock is not asked for.
worker_unlocked(t) ==
  /\ main # "exit"
  /\ pc[t] = "loop"
  /\ left[t] > 0
  /\ \E d \in Change : delta' = [delta EXCEPT ![t] = d]
  /\ Goto(t, "load")
  /\ UNCHANGED <<main_only, locked_by, counter, reg, left, applied>>

\* The head of the loop; a bank thread draws an amount and a direction.
worker(t) ==
  /\ main # "exit"
  /\ pc[t] = "loop"
  /\ left[t] > 0
  /\ \E d \in Change : delta' = [delta EXCEPT ![t] = d]
  /\ \/ Protection = "nothing" /\ Goto(t, "load") /\ UNCHANGED locked_by
     \/ Protection = "atomic" /\ Goto(t, "add") /\ UNCHANGED locked_by
     \/ Protection \in {"mutex", "spin"} /\ locked_by = 0 /\ locked_by' = t /\ Goto(t, "load")
  /\ UNCHANGED <<main_only, counter, reg, left, applied>>

Apply(t, old) ==
  /\ counter' = old + delta[t]
  /\ applied' = applied + delta[t]

fetch_add(t) ==
  /\ main # "exit"
  /\ pc[t] = "add"
  /\ Apply(t, counter)
  /\ left' = [left EXCEPT ![t] = @ - 1]
  /\ Goto(t, "loop")
  /\ UNCHANGED <<main_only, locked_by, reg, delta>>

load(t) ==
  /\ pc[t] = "load"
  /\ reg' = [reg EXCEPT ![t] = counter]
  /\ Goto(t, "store")
  /\ UNCHANGED <<main_only, locked_by, counter, delta, left, applied>>

\* A withdrawal of more than there is changes nothing.
store(t) ==
  /\ pc[t] = "store"
  /\ \/ reg[t] + delta[t] >= 0 /\ Apply(t, reg[t])
     \/ reg[t] + delta[t] < 0 /\ UNCHANGED <<counter, applied>>
  /\ Goto(t, "unlock")
  /\ UNCHANGED <<main_only, locked_by, reg, delta, left>>

unlock(t) ==
  /\ pc[t] = "unlock"
  /\ locked_by' = IF Protection = "nothing" THEN locked_by ELSE 0
  /\ left' = [left EXCEPT ![t] = @ - 1]
  /\ Goto(t, "loop")
  /\ UNCHANGED <<main_only, counter, reg, delta, applied>>

Step(t) == worker(t) \/ fetch_add(t) \/ load(t) \/ store(t) \/ unlock(t)

MainStep == pthread_create \/ all_created \/ pthread_barrier_wait \/ next_round \/ main_returns

Next == MainStep \/ pthread_create_fails \/ \E t \in Counting : Step(t)

Spec == Init /\ [][Next]_vars
-----------------------------------------------------------------------------
TypeOK ==
  /\ program \in DOMAIN Rounds
  /\ round \in 1 .. Len(Rounds[program])
  /\ main \in {"create", "barrier", "join", "cleanup", "exit", "done"}
  /\ created \in 0 .. Threads
  /\ locked_by \in 0 .. Threads
  /\ counter \in Nat
  /\ reg \in [Counting -> Nat]
  /\ delta \in [Counting -> Change \cup {0}]
  /\ left \in [Counting -> 0 .. Updates]
  /\ pc \in [Counting -> {"none", "barrier", "loop", "add", "load", "store", "unlock"}]
  /\ applied \in Int

\* "expected = %d actual = %ld" of mutex.c and its like: what main prints
\* after a protected round is every update, and the balance that
\* multi_thread_bank.c prints is the sum of what succeeded.
PrintedExact ==
  Joined /\ Protection # "nothing" =>
    /\ counter = Initial + applied
    /\ program # "multi_thread_bank" => counter = Threads * Updates

\* mutex.c without the mutex: an update may be lost, but with two updates
\* or more in each thread the printed number is at least two.
UnprotectedKeepsTwo ==
  Joined /\ Protection = "nothing" /\ Threads >= 2 /\ Updates >= 2 =>
    counter \in 2 .. Threads * Updates
-----------------------------------------------------------------------------
(* The proofs' inductive invariant.                                        *)

Updating(t) == pc[t] \in {"load", "store", "unlock"}

\* Which threads can run, and that the lock is held by the one that updates.
Control ==
  /\ program = "lock_comparision" /\ main # "join" /\ main # "done" =>
       \A t \in Counting : pc[t] \in {"none", "barrier"}
  /\ main = "barrier" => program = "lock_comparision"
  /\ main \in {"barrier", "join"} => created = Threads
  /\ \A t \in Counting :
       /\ t > created => pc[t] = "none"
       /\ pc[t] \notin {"none", "barrier", "loop"} =>
            left[t] > 0 /\ (pc[t] # "unlock" => delta[t] \in Change)
       /\ pc[t] \in {"none", "barrier"} => left[t] = Updates
       /\ pc[t] = "add" <=> Protection = "atomic" /\ pc[t] \notin {"none", "barrier", "loop"}
       /\ Protection \in {"mutex", "spin"} => (locked_by = t <=> Updating(t))
  /\ Protection \notin {"mutex", "spin"} => locked_by = 0

\* The updates that have reached the counter, or have been overwritten there,
\* each named by its thread and its number.
Made ==
  {d \in Counting \X (1 .. Updates) :
     d[2] > left[d[1]] \/ (d[2] = left[d[1]] /\ pc[d[1]] = "unlock")}

\* A protected update works on the current value, so that none is lost.
NoneLost ==
  Protection # "nothing" =>
    /\ counter = Initial + applied
    /\ \A t \in Counting : pc[t] = "store" => reg[t] = counter
    /\ program # "multi_thread_bank" => counter = Cardinality(Made)

\* Without protection, a thread that has made an update never loads zero
\* again, so that its last store is at least two.
SomeKept ==
  Protection = "nothing" =>
    /\ counter <= Cardinality(Made)
    /\ \A t \in Counting :
         /\ pc[t] = "store" => reg[t] <= Cardinality(Made)
         /\ left[t] < Updates \/ pc[t] = "unlock" => counter >= 1
         /\ left[t] < Updates /\ pc[t] = "store" => reg[t] >= 1
    /\ Updates >= 2 /\ Threads >= 1 =>
         \/ counter >= 2
         \/ \E t \in Counting : left[t] > 1 \/ (left[t] = 1 /\ pc[t] # "unlock")

IInv == TypeOK /\ Control /\ NoneLost /\ SomeKept
=============================================================================
