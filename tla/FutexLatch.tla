----------------------------- MODULE FutexLatch -----------------------------
(***************************************************************************)
(* The futex latch of concurrency-and-multithreading/                      *)
(* latch_demo_using_futex.c and the workers that count under it.           *)
(*                                                                         *)
(* A step is one atomic access to latch->state, one futex call, or one     *)
(* access to shared_counter.                                               *)
(***************************************************************************)
EXTENDS Naturals, FiniteSets

CONSTANTS
  Thread,
  Increments,  \* INCREMENTS
  Spins        \* the 100 turns of the spin loop

ASSUME LatchAssumption == Increments \in Nat /\ Spins \in Nat /\ IsFiniteSet(Thread)

VARIABLES
  state,           \* latch->state: 0 is free, 1 is held
  sleepers,        \* the threads the kernel has queued on the futex
  shared_counter,
  reg,             \* the value of shared_counter a thread has loaded
  spin,            \* the turns of the spin loop left
  left,            \* the increments a worker still has to make
  pc

vars == <<state, sleepers, shared_counter, reg, spin, left, pc>>

counter == <<shared_counter, reg>>

Init ==
  /\ state = 0
  /\ sleepers = {}
  /\ shared_counter = 0
  /\ reg = [t \in Thread |-> 0]
  /\ spin = [t \in Thread |-> 0]
  /\ left = [t \in Thread |-> Increments]
  /\ pc = [t \in Thread |-> "worker"]

Goto(t, label) == pc' = [pc EXCEPT ![t] = label]

\* Variant of CompareExchange: the swap is not conditional on the old value.
CompareExchange_Always(t, failure) == state' = 1 /\ Goto(t, "load")

\* atomic_compare_exchange_strong(&state, 0, 1) and the branch on its result.
CompareExchange(t, failure) ==
  \/ state = 0 /\ state' = 1 /\ Goto(t, "load")
  \/ state = 1 /\ state' = 1 /\ Goto(t, failure)

latch_acquire(t) ==
  /\ pc[t] = "worker"
  /\ left[t] > 0
  /\ CompareExchange(t, "spin")
  /\ spin' = [spin EXCEPT ![t] = Spins]
  /\ UNCHANGED <<sleepers, counter, left>>

\* One turn of the spin loop: the load of line 39, then the swap if it saw
\* the latch free.
spin_load(t) ==
  /\ pc[t] = "spin"
  /\ \/ /\ spin[t] = 0
        /\ Goto(t, "futex_wait")
        /\ UNCHANGED spin
     \/ /\ spin[t] > 0
        /\ Goto(t, IF state = 0 THEN "spin_swap" ELSE "spin")
        /\ spin' = [spin EXCEPT ![t] = @ - 1]
  /\ UNCHANGED <<state, sleepers, counter, left>>

spin_swap(t) ==
  /\ pc[t] = "spin_swap"
  /\ CompareExchange(t, "spin")
  /\ UNCHANGED <<sleepers, counter, spin, left>>

\* futex_wait(&state, 1): the kernel puts the thread to sleep if the latch is
\* held; otherwise the call fails with EAGAIN and line 57 calls it again.
futex_wait(t) ==
  /\ pc[t] = "futex_wait"
  /\ state = 1
  /\ sleepers' = sleepers \cup {t}
  /\ Goto(t, "sleeping")
  /\ UNCHANGED <<state, counter, spin, left>>

futex_wait_again(t) ==
  /\ pc[t] = "futex_wait"
  /\ state = 0
  /\ UNCHANGED vars

\* A signal interrupts the sleep: EINTR, line 61.
interrupted(t) ==
  /\ pc[t] = "sleeping"
  /\ t \in sleepers
  /\ sleepers' = sleepers \ {t}
  /\ Goto(t, "futex_wait")
  /\ UNCHANGED <<state, counter, spin, left>>

woken(t) ==
  /\ pc[t] = "sleeping"
  /\ t \notin sleepers
  /\ CompareExchange(t, "futex_wait")
  /\ UNCHANGED <<sleepers, counter, spin, left>>

\* shared_counter++, a load and a store.
load(t) ==
  /\ pc[t] = "load"
  /\ reg' = [reg EXCEPT ![t] = shared_counter]
  /\ Goto(t, "store")
  /\ UNCHANGED <<state, sleepers, shared_counter, spin, left>>

store(t) ==
  /\ pc[t] = "store"
  /\ shared_counter' = reg[t] + 1
  /\ Goto(t, "release")
  /\ UNCHANGED <<state, sleepers, reg, spin, left>>

latch_release(t) ==
  /\ pc[t] = "release"
  /\ state' = 0
  /\ Goto(t, "futex_wake")
  /\ UNCHANGED <<sleepers, counter, spin, left>>

\* Variant of futex_wake: the call is missing.
futex_wake_none(t) ==
  /\ pc[t] = "futex_wake"
  /\ left' = [left EXCEPT ![t] = @ - 1]
  /\ Goto(t, "worker")
  /\ UNCHANGED <<state, sleepers, counter, spin>>

futex_wake(t) ==
  /\ pc[t] = "futex_wake"
  /\ \/ \E u \in sleepers : sleepers' = sleepers \ {u}
     \/ sleepers = {} /\ UNCHANGED sleepers
  /\ left' = [left EXCEPT ![t] = @ - 1]
  /\ Goto(t, "worker")
  /\ UNCHANGED <<state, counter, spin>>

Step(t) ==
  \/ latch_acquire(t)
  \/ spin_load(t)
  \/ spin_swap(t)
  \/ futex_wait(t)
  \/ futex_wait_again(t)
  \/ woken(t)
  \/ load(t)
  \/ store(t)
  \/ latch_release(t)
  \/ futex_wake(t)

Joined == \A t \in Thread : pc[t] = "worker" /\ left[t] = 0

Next ==
  \/ \E t \in Thread : Step(t) \/ interrupted(t)
  \/ Joined /\ UNCHANGED vars

Spec == Init /\ [][Next]_vars
-----------------------------------------------------------------------------
PC == {"worker", "spin", "spin_swap", "futex_wait", "sleeping", "load", "store",
       "release", "futex_wake"}

TypeOK ==
  /\ state \in 0 .. 1
  /\ sleepers \subseteq {t \in Thread : pc[t] = "sleeping"}
  /\ shared_counter \in Nat
  /\ reg \in [Thread -> Nat]
  /\ spin \in [Thread -> 0 .. Spins]
  /\ left \in [Thread -> 0 .. Increments]
  /\ pc \in [Thread -> PC]

InSection(t) == pc[t] \in {"load", "store", "release"}

\* The latch excludes: at most one thread is between latch_acquire and the
\* store of latch_release, and then the latch is marked as held.
MutualExclusion ==
  /\ \A t, u \in Thread : InSection(t) /\ InSection(u) => t = u
  /\ \A t \in Thread : InSection(t) => state = 1

\* No increment is lost: what a thread has loaded is still the counter.
LoadIsCurrent == \A t \in Thread : pc[t] = "store" => reg[t] = shared_counter

\* Nobody sleeps on a free latch unless a wake-up is on its way: a releaser
\* is about to call futex_wake, or a woken thread is about to try the latch.
NoLostWakeup ==
  sleepers # {} /\ state = 0 =>
    \E t \in Thread : pc[t] = "futex_wake" \/ (pc[t] = "sleeping" /\ t \notin sleepers)

\* "Expected counter=..., actual=..." (line 128) agree: with every worker
\* joined no increment has been lost.
CounterExact ==
  Joined => shared_counter = Cardinality(Thread) * Increments

\* Nobody is left who would take the latch: the threads that have not ended ask
\* futex_wait to wait for a latch that is free, and EAGAIN takes them back to the
\* same call.
RetriesForEver ==
  state = 0 /\ \A t \in Thread : pc[t] = "futex_wait" \/ (pc[t] = "worker" /\ left[t] = 0)

\* The increments that have reached the counter, each named by its thread and
\* its number.
Stored ==
  {d \in Thread \X (1 .. Increments) :
     d[2] > left[d[1]] \/ (d[2] = left[d[1]] /\ pc[d[1]] \in {"release", "futex_wake"})}

\* The proofs' inductive invariant.  A worker that has turns to make has not
\* used them up.
IInv ==
  /\ TypeOK
  /\ MutualExclusion
  /\ LoadIsCurrent
  /\ NoLostWakeup
  /\ shared_counter = Cardinality(Stored)
  /\ \A t \in Thread : pc[t] # "worker" => left[t] > 0
=============================================================================
