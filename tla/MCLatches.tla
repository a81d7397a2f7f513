----------------------------- MODULE MCLatches ------------------------------
(***************************************************************************)
(* The lock programs: the futex latch, the tracked locks with their        *)
(* deadlock monitor, the shared counters, the read-write lock, the two     *)
(* handoffs and the concurrent hash map.  They are separate programs:      *)
(* running names the one that runs, the others stay as they start.         *)
(***************************************************************************)
EXTENDS FutexLatch, Integers, Sequences

CONSTANTS
  None, Monitor,                       \* of WaitForGraph
  Threads, Updates, Start, Amount,     \* of SharedCounter
  Reader, Writer, MaxTurns, Keys, NUM_BUCKETS, hash   \* of ThreadDemos

ASSUME LatchesAssumption ==
  /\ None # Monitor /\ None \notin {0, 1} /\ Monitor \notin {0, 1}
  /\ Threads \in Nat /\ Updates \in Nat /\ Start \in Nat /\ Amount \subseteq Nat
  /\ Reader \cap Writer = {} /\ Reader # {} /\ None \notin Reader \cup Writer
  /\ MaxTurns \in Nat /\ Keys \in Nat /\ NUM_BUCKETS \in Nat
  /\ hash \in [0 .. Keys - 1 -> 0 .. NUM_BUCKETS - 1]

\* Two of the four keys share a bucket.
ThreeBuckets == [k \in 0 .. 3 |-> k % 3]

VARIABLES
  running,
  mutex, owner, wait_for, abort_flag, phase, wpc, mpc, next_lock,
  program, round, main, created, locked_by, number, loaded, delta, updates, cpc, applied,
  holders, guarded, reads, writes, stop_requested, seen, turns, rwpc,
  futex_value, waiter, signaler, stored, visible, read,
  entries, holder, next_key, mappc, found

Graph == INSTANCE WaitForGraph WITH pc <- wpc

Counters == INSTANCE SharedCounter
  WITH counter <- number, reg <- loaded, left <- updates, pc <- cpc

Demos == INSTANCE ThreadDemos
  WITH shared_counter <- guarded,
       total_reader_operations <- reads, total_writer_operations <- writes,
       Inserter <- Reader \cup Writer, Nobody <- None

latchVars == <<state, sleepers, shared_counter, reg, spin, left, pc>>
graphVars == <<mutex, owner, wait_for, abort_flag, phase, wpc, mpc, next_lock>>
counterVars == <<program, round, main, created, locked_by, number, loaded, delta, updates, cpc, applied>>
rwVars == <<holders, guarded, reads, writes, stop_requested, seen, turns, rwpc>>
handVars == <<futex_value, waiter, signaler, stored, visible, read>>
mapVars == <<entries, holder, next_key, mappc, found>>
allVars == <<running, latchVars, graphVars, counterVars, rwVars, handVars, mapVars>>

MCInit ==
  /\ running \in {"latch", "graph", "counters", "rwlock", "handoff", "map"}
  /\ Init /\ Graph!Init /\ Demos!RwInit /\ Demos!HandInit /\ Demos!MapInit /\ Counters!Init
  /\ running = "counters" \/ program = "mutex"

RunLatch(A) == running = "latch" /\ A /\ UNCHANGED <<running, graphVars, counterVars, rwVars, handVars, mapVars>>
RunGraph(A) == running = "graph" /\ A /\ UNCHANGED <<running, latchVars, counterVars, rwVars, handVars, mapVars>>
RunCounters(A) == running = "counters" /\ A /\ UNCHANGED <<running, latchVars, graphVars, rwVars, handVars, mapVars>>
RunRW(A) == running = "rwlock" /\ A /\ UNCHANGED <<running, latchVars, graphVars, counterVars, handVars, mapVars>>
RunHand(A) == running = "handoff" /\ A /\ UNCHANGED <<running, latchVars, graphVars, counterVars, rwVars, mapVars>>
RunMap(A) == running = "map" /\ A /\ UNCHANGED <<running, latchVars, graphVars, counterVars, rwVars, handVars>>

MCNext ==
  \/ RunLatch(Next)
  \/ RunGraph(Graph!Next)
  \/ RunCounters(Counters!Next)
  \/ RunRW(Demos!RwNext)
  \/ RunHand(Demos!HandNext)
  \/ RunMap(Demos!MapNext)

\* Threads that can run do; a mutex that keeps becoming free is handed to
\* each of its waiters; spurious wake-ups and signals are not counted on.
MCSpec ==
  /\ MCInit /\ [][MCNext]_allVars
  /\ \A t \in Thread : WF_allVars(RunLatch(Step(t)))
  /\ \A w \in Graph!Worker :
       /\ WF_allVars(RunGraph(Graph!Step(w)))
       /\ SF_allVars(RunGraph(Graph!enter(w)))
       /\ SF_allVars(RunGraph(Graph!wake_up(w)))
  /\ WF_allVars(RunGraph(Graph!monitor_function))
  /\ SF_allVars(RunGraph(Graph!monitor_lock))
  /\ \A t \in Reader \cup Writer : WF_allVars(RunRW(Demos!Step(t)))
  /\ WF_allVars(RunRW(Demos!stop))
  /\ WF_allVars(RunHand(Demos!WaiterStep))
  /\ WF_allVars(RunHand(Demos!SignalerStep))
-----------------------------------------------------------------------------
\* The state of every program stays well formed: the types; in
\* deadlock_with_wfg.c, who gave up or finished owns no lock and waits for
\* nobody; in concurrent_hashmap_using_locks.c, a key has one entry.
StateSound ==
  /\ TypeOK /\ Graph!TypeOK /\ Counters!TypeOK /\ Demos!TypeOK
  /\ Graph!DoneIsClean
  /\ Demos!OneEntryPerKey

\* deadlock_with_wfg.c: the monitor aborts only to resolve a deadlock.
OnlyRealDeadlocks == Graph!OnlyRealDeadlocks

\* latch_demo_using_futex.c, mutex.c and its like: a counter protected by a
\* lock or by atomics has every update when it is printed, and the
\* unprotected round of mutex.c keeps at least two.
CountersExact == CounterExact /\ Counters!PrintedExact /\ Counters!UnprotectedKeepsTwo

\* What a reader may rely on: in read_write_lock.c nothing changes under it,
\* in memory_barrier.c who has seen flag reads the 42, and in
\* concurrent_hashmap_using_locks.c every inserted key is found.
ReadersSeeWrites == Demos!ReadsAreStable /\ Demos!Published /\ Demos!NothingLost

\* Nobody waits for ever: the workers of deadlock_with_wfg.c return from every
\* deadlock, the threads of read_write_lock.c after the stop, and waiter and
\* signaler of futex.c.  The workers of latch_demo_using_futex.c return too,
\* but for those that call futex_wait again and again on a latch that stays
\* free (line 57).
EveryoneReturns ==
  /\ <>(running = "latch" => Joined \/ RetriesForEver)
  /\ <>(running = "graph" => Graph!WorkersDone)
  /\ <>(running = "rwlock" => Demos!Returned)
  /\ <>(running = "handoff" => Demos!HandedOver)
=============================================================================
