----------------------------- MODULE LatchProofs ----------------------------
(***************************************************************************)
(* The lock programs, for any threads, increments, keys and buckets: the   *)
(* futex latch excludes and loses no wake-up, the deadlock monitor aborts  *)
(* only on a deadlock, protected counters are exact, readers see what was  *)
(* written.                                                                *)
(***************************************************************************)
EXTENDS MCLatches, FiniteSetTheorems, TLAPS

(* latch_demo_using_futex.c *)

\* The increments that have been stored are finitely many.
LEMMA StoredFinite ==
  ASSUME TypeOK
  PROVE  IsFiniteSet(Stored) /\ IsFiniteSet(Thread \X (1 .. Increments))
         /\ Cardinality(Thread \X (1 .. Increments)) = Cardinality(Thread) * Increments
<1>1. IsFiniteSet(1 .. Increments) /\ Cardinality(1 .. Increments) = Increments
  BY LatchAssumption, FS_Interval
<1>2. /\ IsFiniteSet(Thread \X (1 .. Increments))
      /\ Cardinality(Thread \X (1 .. Increments)) = Cardinality(Thread) * Increments
  BY <1>1, LatchAssumption, FS_Product
<1>3. Stored \subseteq Thread \X (1 .. Increments)
  BY DEF Stored
<1>4. QED
  BY <1>2, <1>3, FS_Subset

LEMMA InitInv == Init => IInv
<1> SUFFICES ASSUME Init PROVE IInv
  OBVIOUS
<1>1. Stored = {}
  BY LatchAssumption DEF Init, Stored
<1>2. shared_counter = Cardinality(Stored)
  BY <1>1, FS_EmptySet DEF Init
<1>3. QED
  BY <1>2, LatchAssumption DEF Init, IInv, TypeOK, PC, MutualExclusion, InSection,
    LoadIsCurrent, NoLostWakeup

\* One turn of a thread, or a signal.
ThreadStep(t) == Step(t) \/ interrupted(t)

LEMMA TypeStep ==
  ASSUME IInv, NEW t \in Thread, ThreadStep(t)
  PROVE  TypeOK'
<1> USE LatchAssumption DEF IInv, Goto, counter, PC
<1>1. CASE latch_acquire(t)
  BY <1>1 DEF latch_acquire, CompareExchange, TypeOK
<1>2. CASE spin_load(t)
  BY <1>2 DEF spin_load, TypeOK
<1>3. CASE spin_swap(t)
  BY <1>3 DEF spin_swap, CompareExchange, TypeOK
<1>4. CASE futex_wait(t)
  BY <1>4 DEF futex_wait, TypeOK
<1>5. CASE futex_wait_again(t)
  BY <1>5 DEF futex_wait_again, vars, TypeOK
<1>6. CASE woken(t)
  BY <1>6 DEF woken, CompareExchange, TypeOK
<1>7. CASE load(t)
  BY <1>7 DEF load, TypeOK
<1>8. CASE store(t)
  BY <1>8 DEF store, TypeOK
<1>9. CASE latch_release(t)
  BY <1>9 DEF latch_release, TypeOK
<1>10. CASE futex_wake(t)
  <2>1. left[t] - 1 \in 0 .. Increments
    BY <1>10 DEF futex_wake, TypeOK
  <2> QED
    BY <1>10, <2>1 DEF futex_wake, TypeOK
<1>11. CASE interrupted(t)
  BY <1>11 DEF interrupted, TypeOK
<1> QED
  BY <1>1, <1>2, <1>3, <1>4, <1>5, <1>6, <1>7, <1>8, <1>9, <1>10, <1>11
  DEF ThreadStep, Step

\* A thread enters the section only by swapping a free latch to held, and
\* only the thread in the section frees the latch.
LEMMA ExclusionStep ==
  ASSUME IInv, NEW t \in Thread, ThreadStep(t)
  PROVE  MutualExclusion' /\ LoadIsCurrent'
<1> USE DEF IInv, Goto, counter, TypeOK, MutualExclusion, InSection, LoadIsCurrent
<1>1. CASE latch_acquire(t)
  BY <1>1 DEF latch_acquire, CompareExchange
<1>2. CASE spin_load(t)
  BY <1>2 DEF spin_load
<1>3. CASE spin_swap(t)
  BY <1>3 DEF spin_swap, CompareExchange
<1>4. CASE futex_wait(t)
  BY <1>4 DEF futex_wait
<1>5. CASE futex_wait_again(t)
  BY <1>5 DEF futex_wait_again, vars
<1>6. CASE woken(t)
  BY <1>6 DEF woken, CompareExchange
<1>7. CASE load(t)
  BY <1>7 DEF load
<1>8. CASE store(t)
  BY <1>8 DEF store
<1>9. CASE latch_release(t)
  BY <1>9 DEF latch_release
<1>10. CASE futex_wake(t)
  BY <1>10 DEF futex_wake
<1>11. CASE interrupted(t)
  BY <1>11 DEF interrupted
<1> QED
  BY <1>1, <1>2, <1>3, <1>4, <1>5, <1>6, <1>7, <1>8, <1>9, <1>10, <1>11
  DEF ThreadStep, Step

\* A wake-up on its way is either delivered, to a thread that will try the
\* latch, or finds nobody asleep; a woken thread that fails finds the latch
\* held.
LEMMA WakeupStep ==
  ASSUME IInv, NEW t \in Thread, ThreadStep(t)
  PROVE  NoLostWakeup' /\ \A u \in Thread : pc'[u] # "worker" => left'[u] > 0
<1> USE DEF IInv, Goto, counter, TypeOK, NoLostWakeup
<1>1. CASE latch_acquire(t)
  BY <1>1 DEF latch_acquire, CompareExchange
<1>2. CASE spin_load(t)
  BY <1>2 DEF spin_load
<1>3. CASE spin_swap(t)
  BY <1>3 DEF spin_swap, CompareExchange
<1>4. CASE futex_wait(t)
  BY <1>4 DEF futex_wait
<1>5. CASE futex_wait_again(t)
  BY <1>5 DEF futex_wait_again, vars
<1>6. CASE woken(t)
  BY <1>6 DEF woken, CompareExchange
<1>7. CASE load(t)
  BY <1>7 DEF load
<1>8. CASE store(t)
  BY <1>8 DEF store
<1>9. CASE latch_release(t)
  BY <1>9 DEF latch_release
<1>10. CASE futex_wake(t)
  BY <1>10 DEF futex_wake
<1>11. CASE interrupted(t)
  BY <1>11 DEF interrupted
<1> QED
  BY <1>1, <1>2, <1>3, <1>4, <1>5, <1>6, <1>7, <1>8, <1>9, <1>10, <1>11
  DEF ThreadStep, Step

\* A store adds one increment to those that have been stored, and nothing else
\* changes them.
LEMMA CountStep ==
  ASSUME IInv, NEW t \in Thread, ThreadStep(t)
  PROVE  shared_counter' = Cardinality(Stored')
<1> USE DEF IInv
<1>1. CASE store(t)
  <2> DEFINE d == <<t, left[t]>>
  <2>1. d \in Thread \X (1 .. Increments) /\ d \notin Stored
    BY <1>1 DEF store, TypeOK, Stored
  <2>2. Stored' = Stored \cup {d}
    BY <1>1, <2>1 DEF store, Goto, TypeOK, Stored
  <2>3. Cardinality(Stored') = Cardinality(Stored) + 1
    BY <2>1, <2>2, StoredFinite, FS_AddElement
  <2>4. shared_counter' = shared_counter + 1
    BY <1>1 DEF store, LoadIsCurrent
  <2>5. QED
    BY <2>3, <2>4
<1>2. CASE futex_wake(t)
  <2>1. Stored' = Stored
    BY <1>2 DEF futex_wake, Goto, TypeOK, Stored
  <2>2. QED
    BY <1>2, <2>1 DEF futex_wake, counter
<1>3. CASE ~store(t) /\ ~futex_wake(t)
  <2> USE DEF Goto, counter, TypeOK
  <2>1. UNCHANGED <<left, shared_counter>>
    BY <1>3 DEF ThreadStep, Step, latch_acquire, spin_load, spin_swap, futex_wait,
      futex_wait_again, vars, woken, load, latch_release, interrupted
  <2>2. \A u \in Thread : pc'[u] \in {"release", "futex_wake"} <=> pc[u] \in {"release", "futex_wake"}
    BY <1>3 DEF ThreadStep, Step, latch_acquire, spin_load, spin_swap, futex_wait,
      futex_wait_again, vars, woken, load, latch_release, interrupted, CompareExchange
  <2>3. Stored' = Stored
    BY <2>1, <2>2 DEF Stored
  <2>4. QED
    BY <2>1, <2>3
<1>4. QED
  BY <1>1, <1>2, <1>3

\* Every step of the latch program keeps the invariant.
LEMMA LatchStep ==
  ASSUME IInv, Next \/ UNCHANGED vars
  PROVE  IInv'
<1>1. ASSUME NEW t \in Thread, ThreadStep(t)
      PROVE  IInv'
  BY <1>1, TypeStep, ExclusionStep, WakeupStep, CountStep DEF IInv
<1>2. CASE UNCHANGED vars
  BY <1>2 DEF vars, IInv, TypeOK, MutualExclusion, InSection, LoadIsCurrent, NoLostWakeup,
    Stored
<1>3. QED
  BY <1>1, <1>2 DEF Next, ThreadStep

\* With every worker joined all increments have been stored.
LEMMA LatchCounts ==
  ASSUME IInv
  PROVE  CounterExact
<1> SUFFICES ASSUME Joined
             PROVE  shared_counter = Cardinality(Thread) * Increments
  BY DEF CounterExact
<1>1. Stored = Thread \X (1 .. Increments)
  BY DEF Joined, Stored, IInv, TypeOK
<1>2. QED
  BY <1>1, StoredFinite DEF IInv
-----------------------------------------------------------------------------
(* deadlock_with_wfg.c *)

LEMMA GraphInit == Graph!Init => Graph!IInv
BY LatchesAssumption DEF Graph!Init, Graph!IInv, Graph!TypeOK, Graph!Mutexes,
  Graph!Ownership, Graph!Edges, Graph!Flags, Graph!OnlyRealDeadlocks, Graph!Target,
  Graph!Acquiring, Graph!Worker, Graph!Lock

\* What a worker, a spurious wake-up or the monitor may do.
GraphStep ==
  \/ \E w \in Graph!Worker : Graph!Step(w) \/ Graph!spurious_wakeup(w)
  \/ Graph!monitor_function

\* Every step keeps the types.
LEMMA GraphTypes ==
  ASSUME Graph!IInv, GraphStep
  PROVE  Graph!TypeOK'
<1> USE DEF Graph!IInv, Graph!TypeOK, Graph!Goto, Graph!monitor, Graph!Worker, Graph!Lock,
            Graph!Target, Graph!Enter, Graph!Leave, Graph!wfg_add_edge, Graph!wfg_remove_all_from
<1>1. ASSUME NEW w \in Graph!Worker, Graph!enter(w)
      PROVE  Graph!TypeOK'
  BY <1>1 DEF Graph!enter
<1>2. ASSUME NEW w \in Graph!Worker, Graph!acquire_free(w)
      PROVE  Graph!TypeOK'
  BY <1>2 DEF Graph!acquire_free
<1>3. ASSUME NEW w \in Graph!Worker, Graph!acquire_busy(w)
      PROVE  Graph!TypeOK'
  BY <1>3 DEF Graph!acquire_busy
<1>4. ASSUME NEW w \in Graph!Worker, Graph!cond_wait(w)
      PROVE  Graph!TypeOK'
  BY <1>4 DEF Graph!cond_wait
<1>5. ASSUME NEW w \in Graph!Worker, Graph!wake_up(w)
      PROVE  Graph!TypeOK'
  BY <1>5 DEF Graph!wake_up
<1>6. ASSUME NEW w \in Graph!Worker, Graph!after_wait(w)
      PROVE  Graph!TypeOK'
  BY <1>6 DEF Graph!after_wait
<1>7. ASSUME NEW w \in Graph!Worker, Graph!track_release(w)
      PROVE  Graph!TypeOK'
  BY <1>7 DEF Graph!track_release, Graph!Woken
<1>8. ASSUME NEW w \in Graph!Worker, Graph!spurious_wakeup(w)
      PROVE  Graph!TypeOK'
  BY <1>8 DEF Graph!spurious_wakeup
<1>9. CASE Graph!monitor_check
  BY <1>9 DEF Graph!monitor_check
<1>10. CASE Graph!monitor_abort
  BY <1>10 DEF Graph!monitor_abort
<1>11. CASE Graph!monitor_lock
  BY <1>11 DEF Graph!monitor_lock
<1>12. CASE Graph!monitor_broadcast
  BY <1>12 DEF Graph!monitor_broadcast, Graph!Woken, Graph!Flags
<1>13. QED
  BY <1>1, <1>2, <1>3, <1>4, <1>5, <1>6, <1>7, <1>8, <1>9, <1>10, <1>11, <1>12
  DEF GraphStep, Graph!Step, Graph!monitor_function

\* A mutex is held by the worker or the monitor that is inside its section.
LEMMA GraphMutexes ==
  ASSUME Graph!IInv, GraphStep
  PROVE  Graph!Mutexes'
<1> USE LatchesAssumption DEF Graph!IInv, Graph!TypeOK, Graph!Goto, Graph!monitor, Graph!Worker, Graph!Lock,
            Graph!Target, Graph!Enter, Graph!Leave, Graph!wfg_add_edge, Graph!wfg_remove_all_from,
            Graph!Mutexes, Graph!Flags, Graph!Acquiring, Graph!Releasing
<1>1. ASSUME NEW w \in Graph!Worker, Graph!enter(w)
      PROVE  Graph!Mutexes'
  BY <1>1 DEF Graph!enter
<1>2. ASSUME NEW w \in Graph!Worker, Graph!acquire_free(w)
      PROVE  Graph!Mutexes'
  BY <1>2 DEF Graph!acquire_free
<1>3. ASSUME NEW w \in Graph!Worker, Graph!acquire_busy(w)
      PROVE  Graph!Mutexes'
  BY <1>3 DEF Graph!acquire_busy
<1>4. ASSUME NEW w \in Graph!Worker, Graph!cond_wait(w)
      PROVE  Graph!Mutexes'
  BY <1>4 DEF Graph!cond_wait
<1>5. ASSUME NEW w \in Graph!Worker, Graph!wake_up(w)
      PROVE  Graph!Mutexes'
  BY <1>5 DEF Graph!wake_up
<1>6. ASSUME NEW w \in Graph!Worker, Graph!after_wait(w)
      PROVE  Graph!Mutexes'
  BY <1>6 DEF Graph!after_wait
<1>7. ASSUME NEW w \in Graph!Worker, Graph!track_release(w)
      PROVE  Graph!Mutexes'
  BY <1>7 DEF Graph!track_release, Graph!Woken
<1>8. ASSUME NEW w \in Graph!Worker, Graph!spurious_wakeup(w)
      PROVE  Graph!Mutexes'
  BY <1>8 DEF Graph!spurious_wakeup
<1>9. CASE Graph!monitor_check
  BY <1>9 DEF Graph!monitor_check
<1>10. CASE Graph!monitor_abort
  BY <1>10 DEF Graph!monitor_abort
<1>11. CASE Graph!monitor_lock
  BY <1>11 DEF Graph!monitor_lock
<1>12. CASE Graph!monitor_broadcast
  BY <1>12 DEF Graph!monitor_broadcast, Graph!Woken, Graph!Flags
<1>13. QED
  BY <1>1, <1>2, <1>3, <1>4, <1>5, <1>6, <1>7, <1>8, <1>9, <1>10, <1>11, <1>12
  DEF GraphStep, Graph!Step, Graph!monitor_function

\* The calls of a worker take and give back the locks in order.
LEMMA GraphOwnership ==
  ASSUME Graph!IInv, GraphStep
  PROVE  Graph!Ownership'
<1> USE LatchesAssumption DEF Graph!IInv, Graph!TypeOK, Graph!Goto, Graph!monitor, Graph!Worker, Graph!Lock,
            Graph!Target, Graph!Enter, Graph!Leave, Graph!wfg_add_edge, Graph!wfg_remove_all_from,
            Graph!Ownership, Graph!Acquiring, Graph!Releasing, Graph!Flags
<1>1. ASSUME NEW w \in Graph!Worker, Graph!enter(w)
      PROVE  Graph!Ownership'
  BY <1>1 DEF Graph!enter
<1>2. ASSUME NEW w \in Graph!Worker, Graph!acquire_free(w)
      PROVE  Graph!Ownership'
  BY <1>2 DEF Graph!acquire_free
<1>3. ASSUME NEW w \in Graph!Worker, Graph!acquire_busy(w)
      PROVE  Graph!Ownership'
  BY <1>3 DEF Graph!acquire_busy
<1>4. ASSUME NEW w \in Graph!Worker, Graph!cond_wait(w)
      PROVE  Graph!Ownership'
  BY <1>4 DEF Graph!cond_wait
<1>5. ASSUME NEW w \in Graph!Worker, Graph!wake_up(w)
      PROVE  Graph!Ownership'
  BY <1>5 DEF Graph!wake_up
<1>6. ASSUME NEW w \in Graph!Worker, Graph!after_wait(w)
      PROVE  Graph!Ownership'
  BY <1>6 DEF Graph!after_wait
<1>7. ASSUME NEW w \in Graph!Worker, Graph!track_release(w)
      PROVE  Graph!Ownership'
  BY <1>7 DEF Graph!track_release, Graph!Woken
<1>8. ASSUME NEW w \in Graph!Worker, Graph!spurious_wakeup(w)
      PROVE  Graph!Ownership'
  BY <1>8 DEF Graph!spurious_wakeup
<1>9. CASE Graph!monitor_check
  BY <1>9 DEF Graph!monitor_check
<1>10. CASE Graph!monitor_abort
  BY <1>10 DEF Graph!monitor_abort
<1>11. CASE Graph!monitor_lock
  BY <1>11 DEF Graph!monitor_lock
<1>12. CASE Graph!monitor_broadcast
  BY <1>12 DEF Graph!monitor_broadcast, Graph!Woken, Graph!Flags
<1>13. QED
  BY <1>1, <1>2, <1>3, <1>4, <1>5, <1>6, <1>7, <1>8, <1>9, <1>10, <1>11, <1>12
  DEF GraphStep, Graph!Step, Graph!monitor_function

\* An edge stays only while its worker is acquiring, and the other worker
\* never falls back.
LEMMA GraphEdges ==
  ASSUME Graph!IInv, GraphStep
  PROVE  Graph!Edges'
<1> USE LatchesAssumption DEF Graph!IInv, Graph!TypeOK, Graph!Goto, Graph!monitor, Graph!Worker, Graph!Lock,
            Graph!Target, Graph!Enter, Graph!Leave, Graph!wfg_add_edge, Graph!wfg_remove_all_from,
            Graph!Ownership, Graph!Edges, Graph!Acquiring, Graph!Releasing, Graph!Flags
<1>1. ASSUME NEW w \in Graph!Worker, Graph!enter(w)
      PROVE  Graph!Edges'
  BY <1>1 DEF Graph!enter
<1>2. ASSUME NEW w \in Graph!Worker, Graph!acquire_free(w)
      PROVE  Graph!Edges'
  BY <1>2 DEF Graph!acquire_free
<1>3. ASSUME NEW w \in Graph!Worker, Graph!acquire_busy(w)
      PROVE  Graph!Edges'
  BY <1>3 DEF Graph!acquire_busy
<1>4. ASSUME NEW w \in Graph!Worker, Graph!cond_wait(w)
      PROVE  Graph!Edges'
  BY <1>4 DEF Graph!cond_wait
<1>5. ASSUME NEW w \in Graph!Worker, Graph!wake_up(w)
      PROVE  Graph!Edges'
  BY <1>5 DEF Graph!wake_up
<1>6. ASSUME NEW w \in Graph!Worker, Graph!after_wait(w)
      PROVE  Graph!Edges'
  BY <1>6 DEF Graph!after_wait
<1>7. ASSUME NEW w \in Graph!Worker, Graph!track_release(w)
      PROVE  Graph!Edges'
  BY <1>7 DEF Graph!track_release, Graph!Woken
<1>8. ASSUME NEW w \in Graph!Worker, Graph!spurious_wakeup(w)
      PROVE  Graph!Edges'
  BY <1>8 DEF Graph!spurious_wakeup
<1>9. CASE Graph!monitor_check
  BY <1>9 DEF Graph!monitor_check
<1>10. CASE Graph!monitor_abort
  BY <1>10 DEF Graph!monitor_abort
<1>11. CASE Graph!monitor_lock
  BY <1>11 DEF Graph!monitor_lock
<1>12. CASE Graph!monitor_broadcast
  BY <1>12 DEF Graph!monitor_broadcast, Graph!Woken, Graph!Flags
<1>13. QED
  BY <1>1, <1>2, <1>3, <1>4, <1>5, <1>6, <1>7, <1>8, <1>9, <1>10, <1>11, <1>12
  DEF GraphStep, Graph!Step, Graph!monitor_function

\* The monitor moves only once both workers wait for their second lock.
LEMMA GraphFlags ==
  ASSUME Graph!IInv, GraphStep
  PROVE  Graph!Flags'
<1> USE LatchesAssumption DEF Graph!IInv, Graph!TypeOK, Graph!Goto, Graph!monitor, Graph!Worker, Graph!Lock,
            Graph!Target, Graph!Enter, Graph!Leave, Graph!wfg_add_edge, Graph!wfg_remove_all_from,
            Graph!Flags, Graph!Acquiring, Graph!Releasing
<1>1. ASSUME NEW w \in Graph!Worker, Graph!enter(w)
      PROVE  Graph!Flags'
  BY <1>1 DEF Graph!enter
<1>2. ASSUME NEW w \in Graph!Worker, Graph!acquire_free(w)
      PROVE  Graph!Flags'
  BY <1>2 DEF Graph!acquire_free
<1>3. ASSUME NEW w \in Graph!Worker, Graph!acquire_busy(w)
      PROVE  Graph!Flags'
  BY <1>3 DEF Graph!acquire_busy
<1>4. ASSUME NEW w \in Graph!Worker, Graph!cond_wait(w)
      PROVE  Graph!Flags'
  BY <1>4 DEF Graph!cond_wait
<1>5. ASSUME NEW w \in Graph!Worker, Graph!wake_up(w)
      PROVE  Graph!Flags'
  BY <1>5 DEF Graph!wake_up
<1>6. ASSUME NEW w \in Graph!Worker, Graph!after_wait(w)
      PROVE  Graph!Flags'
  BY <1>6 DEF Graph!after_wait
<1>7. ASSUME NEW w \in Graph!Worker, Graph!track_release(w)
      PROVE  Graph!Flags'
  BY <1>7 DEF Graph!track_release, Graph!Woken
<1>8. ASSUME NEW w \in Graph!Worker, Graph!spurious_wakeup(w)
      PROVE  Graph!Flags'
  BY <1>8 DEF Graph!spurious_wakeup
<1>9. CASE Graph!monitor_check
  BY <1>9 DEF Graph!monitor_check, Graph!has_cycle, Graph!Edges
<1>10. CASE Graph!monitor_abort
  BY <1>10 DEF Graph!monitor_abort
<1>11. CASE Graph!monitor_lock
  BY <1>11 DEF Graph!monitor_lock
<1>12. CASE Graph!monitor_broadcast
  BY <1>12 DEF Graph!monitor_broadcast, Graph!Woken, Graph!Flags
<1>13. QED
  BY <1>1, <1>2, <1>3, <1>4, <1>5, <1>6, <1>7, <1>8, <1>9, <1>10, <1>11, <1>12
  DEF GraphStep, Graph!Step, Graph!monitor_function

\* In a deadlock neither worker can take its second lock, and worker 0 is
\* never told to give up.
LEMMA GraphReal ==
  ASSUME Graph!IInv, GraphStep
  PROVE  Graph!OnlyRealDeadlocks'
<1> USE LatchesAssumption DEF Graph!IInv, Graph!TypeOK, Graph!Goto, Graph!monitor, Graph!Worker, Graph!Lock,
            Graph!Target, Graph!Enter, Graph!Leave, Graph!wfg_add_edge, Graph!wfg_remove_all_from,
            Graph!OnlyRealDeadlocks, Graph!Ownership, Graph!Flags, Graph!Acquiring, Graph!Releasing
<1>1. ASSUME NEW w \in Graph!Worker, Graph!enter(w)
      PROVE  Graph!OnlyRealDeadlocks'
  BY <1>1 DEF Graph!enter
<1>2. ASSUME NEW w \in Graph!Worker, Graph!acquire_free(w)
      PROVE  Graph!OnlyRealDeadlocks'
  BY <1>2 DEF Graph!acquire_free
<1>3. ASSUME NEW w \in Graph!Worker, Graph!acquire_busy(w)
      PROVE  Graph!OnlyRealDeadlocks'
  BY <1>3 DEF Graph!acquire_busy
<1>4. ASSUME NEW w \in Graph!Worker, Graph!cond_wait(w)
      PROVE  Graph!OnlyRealDeadlocks'
  BY <1>4 DEF Graph!cond_wait
<1>5. ASSUME NEW w \in Graph!Worker, Graph!wake_up(w)
      PROVE  Graph!OnlyRealDeadlocks'
  BY <1>5 DEF Graph!wake_up
<1>6. ASSUME NEW w \in Graph!Worker, Graph!after_wait(w)
      PROVE  Graph!OnlyRealDeadlocks'
  BY <1>6 DEF Graph!after_wait
<1>7. ASSUME NEW w \in Graph!Worker, Graph!track_release(w)
      PROVE  Graph!OnlyRealDeadlocks'
  BY <1>7 DEF Graph!track_release, Graph!Woken
<1>8. ASSUME NEW w \in Graph!Worker, Graph!spurious_wakeup(w)
      PROVE  Graph!OnlyRealDeadlocks'
  BY <1>8 DEF Graph!spurious_wakeup
<1>9. CASE Graph!monitor_check
  <2>1. PICK e \in wait_for : <<e[2], e[1]>> \in wait_for
    BY <1>9 DEF Graph!monitor_check, Graph!has_cycle
  <2>2. e[1] \in {0, 1} /\ e[2] = 1 - e[1]
    BY <2>1 DEF Graph!Edges
  <2>3. wpc[e[1]] # "enter" /\ phase[e[1]] \in {"first", "second"}
    BY <2>1 DEF Graph!Edges
  <2>4. wpc[e[2]] # "enter" /\ phase[e[2]] \in {"first", "second"}
    BY <2>1 DEF Graph!Edges
  <2>5. phase[e[1]] = "second" /\ phase[e[2]] = "second"
    BY <2>1, <2>3, <2>4 DEF Graph!Edges
  <2>6. \A w \in {0, 1} : phase[w] = "second" /\ wpc[w] # "enter"
    BY <2>2, <2>3, <2>4, <2>5
  <2>7. \A w \in {0, 1} : owner[w] = w
    BY <2>6
  <2>8. QED
    BY <1>9, <2>6, <2>7 DEF Graph!monitor_check
<1>10. CASE Graph!monitor_abort
  BY <1>10 DEF Graph!monitor_abort
<1>11. CASE Graph!monitor_lock
  BY <1>11 DEF Graph!monitor_lock
<1>12. CASE Graph!monitor_broadcast
  BY <1>12 DEF Graph!monitor_broadcast, Graph!Woken, Graph!Flags
<1>13. QED
  BY <1>1, <1>2, <1>3, <1>4, <1>5, <1>6, <1>7, <1>8, <1>9, <1>10, <1>11, <1>12
  DEF GraphStep, Graph!Step, Graph!monitor_function

LEMMA GraphKeeps ==
  ASSUME Graph!IInv, Graph!Next \/ UNCHANGED graphVars
  PROVE  Graph!IInv'
<1>1. CASE GraphStep
  BY <1>1, GraphTypes, GraphMutexes, GraphOwnership, GraphEdges, GraphFlags, GraphReal
  DEF Graph!IInv
<1>2. CASE UNCHANGED graphVars
  <2> USE <1>2 DEF graphVars, Graph!Target, Graph!Acquiring
  <2>1. Graph!TypeOK' /\ Graph!Mutexes'
    BY DEF Graph!IInv, Graph!TypeOK, Graph!Mutexes
  <2>2. Graph!Ownership' /\ Graph!Edges'
    BY DEF Graph!IInv, Graph!Ownership, Graph!Edges
  <2>3. Graph!Flags' /\ Graph!OnlyRealDeadlocks'
    BY DEF Graph!IInv, Graph!Flags, Graph!OnlyRealDeadlocks
  <2>4. QED
    BY <2>1, <2>2, <2>3 DEF Graph!IInv
<1>3. QED
  BY <1>1, <1>2 DEF Graph!Next, GraphStep, Graph!vars, graphVars

\* Who is done owns nothing, and its edges are gone.
LEMMA GraphClean ==
  ASSUME Graph!IInv
  PROVE  Graph!DoneIsClean
BY DEF Graph!IInv, Graph!TypeOK, Graph!Ownership, Graph!Edges, Graph!DoneIsClean,
  Graph!Worker, Graph!Lock
-----------------------------------------------------------------------------
(* SharedCounter and ThreadDemos: what their own proofs show of them holds of  *)
(* the instances.                                                              *)

TP == INSTANCE ThreadProofs
  WITH counter <- number, reg <- loaded, left <- updates, pc <- cpc,
       shared_counter <- guarded,
       total_reader_operations <- reads, total_writer_operations <- writes,
       Inserter <- Reader \cup Writer, Nobody <- None

LEMMA SameConstants == TP!CounterConstants /\ TP!DemoConstants
BY LatchesAssumption DEF TP!CounterConstants, TP!DemoConstants

LEMMA SameCounters ==
  /\ Counters!Init => TP!SC!Init
  /\ Counters!Next => TP!SC!Next
  /\ UNCHANGED counterVars => UNCHANGED TP!SC!vars
<1>1. Counters!Init => TP!SC!Init
    BY DEF Counters!Init, Counters!Counting, Counters!Initial, Counters!Rounds, TP!SC!Init,
    TP!SC!Counting, TP!SC!Initial, TP!SC!Rounds
<1>2. Counters!MainStep \/ Counters!pthread_create_fails => TP!SC!MainStep \/ TP!SC!pthread_create_fails
    BY DEF Counters!MainStep, Counters!pthread_create, Counters!pthread_create_fails,
    Counters!all_created, Counters!pthread_barrier_wait, Counters!next_round,
    Counters!main_returns, Counters!main_only, Counters!data, Counters!Counting,
    Counters!Protection, Counters!Rounds, Counters!Initial, Counters!Change,
    Counters!Joined, TP!SC!MainStep, TP!SC!pthread_create, TP!SC!pthread_create_fails,
    TP!SC!all_created, TP!SC!pthread_barrier_wait, TP!SC!next_round, TP!SC!main_returns, TP!SC!main_only,
    TP!SC!data, TP!SC!Counting, TP!SC!Protection, TP!SC!Rounds, TP!SC!Initial, TP!SC!Change, TP!SC!Joined
<1>3. \A t : Counters!Step(t) => TP!SC!Step(t)
    BY DEF Counters!Step, Counters!worker, Counters!fetch_add, Counters!load,
    Counters!store, Counters!unlock, Counters!main_only, Counters!data, Counters!Counting,
    Counters!Protection, Counters!Rounds, Counters!Initial, Counters!Change,
    Counters!Joined, Counters!Goto, Counters!Apply, TP!SC!Step, TP!SC!worker, TP!SC!fetch_add,
    TP!SC!load, TP!SC!store, TP!SC!unlock, TP!SC!main_only, TP!SC!data, TP!SC!Counting, TP!SC!Protection,
    TP!SC!Rounds, TP!SC!Initial, TP!SC!Change, TP!SC!Joined, TP!SC!Goto, TP!SC!Apply
<1>4. Counters!Next => TP!SC!Next
    BY <1>2, <1>3 DEF Counters!Next, Counters!Counting, TP!SC!Next, TP!SC!Counting
<1>5. QED
  BY <1>1, <1>4 DEF counterVars, TP!SC!vars

LEMMA SameDemos ==
  /\ Demos!RwInit /\ Demos!HandInit /\ Demos!MapInit => TP!RwInit /\ TP!HandInit /\ TP!MapInit
  /\ Demos!RwNext => TP!RwNext
  /\ Demos!HandNext => TP!HandNext
  /\ Demos!MapNext => TP!MapNext
<1>1. Demos!RwInit /\ Demos!HandInit /\ Demos!MapInit => TP!RwInit /\ TP!HandInit /\ TP!MapInit
    BY DEF Demos!RwInit, Demos!HandInit, Demos!MapInit, Demos!hashmap_init,
    Demos!Participant, Demos!Bucket, TP!RwInit, TP!HandInit, TP!MapInit, TP!hashmap_init,
    TP!Participant, TP!Bucket
<1>2. Demos!RwNext => TP!RwNext
    BY DEF Demos!RwNext, Demos!stop, Demos!Step, Demos!loop, Demos!lock, Demos!load,
    Demos!store, Demos!count, Demos!unlock_rw, Demos!Admitted, Demos!Participant,
    Demos!totals, Demos!RwGoto, TP!RwNext, TP!stop, TP!Step, TP!loop, TP!lock, TP!load,
    TP!store, TP!count, TP!unlock_rw, TP!Admitted, TP!Participant, TP!totals, TP!RwGoto
<1>3. Demos!HandNext => TP!HandNext
    BY DEF Demos!HandNext, Demos!WaiterStep, Demos!SignalerStep, Demos!interrupted,
    Demos!writer, Demos!propagate, Demos!reader, Demos!waiter_check, Demos!futex_wait,
    Demos!woken, Demos!signaler_store, Demos!futex_wake, Demos!futexVars, Demos!barrierVars,
    TP!HandNext, TP!WaiterStep, TP!SignalerStep, TP!interrupted, TP!writer, TP!propagate,
    TP!reader, TP!waiter_check, TP!futex_wait, TP!woken, TP!signaler_store, TP!futex_wake,
    TP!futexVars, TP!barrierVars
<1>4. Demos!MapNext => TP!MapNext
    BY DEF Demos!MapNext, Demos!worker, Demos!hashmap_insert, Demos!walk, Demos!change,
    Demos!unlock_bucket, Demos!MapGoto, Demos!b_of, Demos!Position, TP!MapNext, TP!worker,
    TP!hashmap_insert, TP!walk, TP!change, TP!unlock_bucket, TP!MapGoto, TP!b_of,
    TP!Position
<1>5. QED
  BY <1>1, <1>2, <1>3, <1>4
-----------------------------------------------------------------------------
(* All programs *)

AllInv == IInv /\ Graph!IInv /\ TP!SC!IInv /\ TP!IInv

LEMMA AllStep ==
  ASSUME AllInv, [MCNext]_allVars
  PROVE  AllInv'
<1> USE DEF MCNext, allVars, RunLatch, RunGraph, RunCounters, RunRW, RunHand, RunMap
<1>1. IInv'
  <2>1. Next \/ UNCHANGED vars
    BY DEF latchVars, vars
  <2>2. QED
    BY <2>1, LatchStep DEF AllInv
<1>2. Graph!IInv'
  <2>1. Graph!Next \/ UNCHANGED graphVars
    OBVIOUS
  <2>2. QED
    BY <2>1, GraphKeeps DEF AllInv
<1>3. TP!SC!IInv'
  <2>1. Counters!Next \/ UNCHANGED counterVars
    OBVIOUS
  <2>2. QED
    BY <2>1, SameConstants, SameCounters, TP!CountersKeep DEF AllInv
<1>4. TP!IInv'
  <2>1. /\ Demos!RwNext \/ UNCHANGED rwVars
        /\ Demos!HandNext \/ UNCHANGED handVars
        /\ Demos!MapNext \/ UNCHANGED mapVars
    OBVIOUS
  <2>2. /\ TP!RwNext \/ UNCHANGED TP!rwVars
        /\ TP!HandNext \/ UNCHANGED <<TP!futexVars, TP!barrierVars>>
        /\ TP!MapNext \/ UNCHANGED TP!mapVars
    BY <2>1, SameDemos DEF rwVars, handVars, mapVars, TP!rwVars, TP!futexVars, TP!barrierVars, TP!mapVars
  <2>3. QED
    BY <2>2, SameConstants, TP!DemosKeep DEF AllInv
<1>5. QED
  BY <1>1, <1>2, <1>3, <1>4 DEF AllInv

\* Every program keeps its invariant, whichever runs.
THEOREM Invariance == MCSpec => []AllInv
<1>1. MCInit => AllInv
  <2> SUFFICES ASSUME MCInit PROVE AllInv
    OBVIOUS
  <2>1. TP!SC!IInv
    BY SameConstants, SameCounters, TP!CountersInit DEF MCInit
  <2>2. TP!IInv
    BY SameConstants, SameDemos, TP!DemosInit DEF MCInit
  <2>3. QED
    BY <2>1, <2>2, InitInv, GraphInit DEF MCInit, AllInv
<1>2. AllInv /\ [MCNext]_allVars => AllInv'
  BY AllStep
<1>3. QED
  BY <1>1, <1>2, PTL DEF MCSpec

\* latch_acquire and latch_release exclude, for any number of threads.
THEOREM LatchExcludes == MCSpec => []MutualExclusion
<1>1. AllInv => MutualExclusion
  BY DEF AllInv, IInv
<1>2. QED
  BY <1>1, Invariance, PTL

\* Nobody is left asleep on a free latch without a wake-up on its way: the
\* futex protocol of latch_release loses none, interrupted waits included.
THEOREM WakeupsArrive == MCSpec => []NoLostWakeup
<1>1. AllInv => NoLostWakeup
  BY DEF AllInv, IInv
<1>2. QED
  BY <1>1, Invariance, PTL

\* deadlock_with_wfg.c: the monitor's cycle is a deadlock, although it reads
\* the graph apart from the locks, and stays one until the victim gives up.
THEOREM MonitorIsRight == MCSpec => []OnlyRealDeadlocks
<1>1. AllInv => OnlyRealDeadlocks
  BY DEF AllInv, Graph!IInv, OnlyRealDeadlocks
<1>2. QED
  BY <1>1, Invariance, PTL

\* For any number of threads and updates: a counter under the futex latch, a
\* mutex, a spin lock or an atomic addition is exact when it is printed, and an
\* unprotected one keeps at least two updates.
THEOREM CountsAreExact == MCSpec => []CountersExact
<1>1. AllInv => CounterExact
  BY LatchCounts DEF AllInv
<1>2. AllInv => TP!SC!PrintedExact /\ TP!SC!UnprotectedKeepsTwo
  BY SameConstants, TP!CountersPrinted DEF AllInv
<1>3. TP!SC!PrintedExact /\ TP!SC!UnprotectedKeepsTwo => Counters!PrintedExact /\ Counters!UnprotectedKeepsTwo
    BY DEF Counters!PrintedExact, Counters!UnprotectedKeepsTwo, Counters!Joined,
    Counters!Protection, Counters!Rounds, Counters!Initial, Counters!Counting,
    TP!SC!PrintedExact, TP!SC!UnprotectedKeepsTwo, TP!SC!Joined, TP!SC!Protection, TP!SC!Rounds,
    TP!SC!Initial, TP!SC!Counting
<1>4. AllInv => CountersExact
  BY <1>1, <1>2, <1>3 DEF CountersExact
<1>5. QED
  BY <1>4, Invariance, PTL

\* For any readers, writers, keys and buckets: a reader under the rwlock sees a
\* counter that stands still and has every counted write, who has seen flag
\* reads the 42, and every key that workers inserted together is found.
THEOREM ReadersSee == MCSpec => []ReadersSeeWrites
<1>1. AllInv => TP!ReadsAreStable /\ TP!Published /\ TP!NothingLost
  BY SameConstants, TP!DemosShow DEF AllInv
<1>2. /\ TP!ReadsAreStable => Demos!ReadsAreStable
      /\ TP!Published => Demos!Published
        BY DEF Demos!ReadsAreStable, Demos!Published, TP!ReadsAreStable, TP!Published
<1>3. TP!NothingLost => Demos!NothingLost
    BY DEF Demos!NothingLost, Demos!Joined, Demos!hashmap_lookup, Demos!Position,
    TP!NothingLost, TP!Joined, TP!hashmap_lookup, TP!Position
<1>4. AllInv => ReadersSeeWrites
  BY <1>1, <1>2, <1>3 DEF ReadersSeeWrites
<1>5. QED
  BY <1>4, Invariance, PTL

\* The state of every program stays well formed; who gave up or finished in
\* deadlock_with_wfg.c owns no lock and waits for nobody, and a key of the
\* hash map has one entry however many workers insert it.
THEOREM StatesAreSound == MCSpec => []StateSound
<1>1. AllInv => TypeOK /\ Graph!TypeOK /\ Graph!DoneIsClean
  BY GraphClean DEF AllInv, IInv, Graph!IInv
<1>2. TP!SC!TypeOK => Counters!TypeOK
    BY DEF Counters!TypeOK, Counters!Rounds, Counters!Counting, Counters!Change, TP!SC!TypeOK,
    TP!SC!Rounds, TP!SC!Counting, TP!SC!Change
<1>3. TP!TypeOK /\ TP!OneEntryPerKey => Demos!TypeOK /\ Demos!OneEntryPerKey
    BY DEF Demos!TypeOK, Demos!OneEntryPerKey, Demos!Participant, Demos!Bucket, TP!TypeOK,
    TP!OneEntryPerKey, TP!Participant, TP!Bucket
<1>4. AllInv => StateSound
  BY <1>1, <1>2, <1>3, SameConstants, TP!DemosShow DEF AllInv, TP!SC!IInv, StateSound
<1>5. QED
  BY <1>4, Invariance, PTL
=============================================================================
